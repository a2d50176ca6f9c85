--------------------------- MODULE RollbackProofs ---------------------------
(***************************************************************************)
(* What rollbacks leave behind, for all models, objects and threads: every *)
(* list holds events that are due in it; where events are not passed on    *)
(* within an epoch, no rollback and no event is left when an epoch ends;   *)
(* and no event is ever sent twice.                                        *)
(*                                                                         *)
(* The invariants build on one another and on those of SpeculationProofs:  *)
(* Window (of the timestamps in each list), Feeding (who sends, who must   *)
(* roll back and who will serve it) and Sending (of every event that       *)
(* exists, the one that sent it). Of an action it is used where the        *)
(* elements of each list come from and where they go.                      *)
(***************************************************************************)
EXTENDS SpeculationProofs

-----------------------------------------------------------------------------
(* Where the events of a list come from *)

\* An event that is put into a slot, or beyond them.
LEMMA QueueInserted ==
  ASSUME IInv, NEW t \in Threads, NEW e \in Events, QueueInsert(t, e), model' = model
  PROVE  /\ \A o \in Objects, s \in Slots : \A f \in ToSet(queue'[o][s]) :
                f \in ToSet(queue[o][s]) \/ (f = e /\ Time(e) < current_max_limit)
         /\ \A u \in Threads : \A f \in ToSet(fallback_queue'[u]) :
                \/ f \in ToSet(fallback_queue[u])
                \/ u = t /\ f = e /\ Time(e) >= current_max_limit
  <1>1. CASE Insert(e) /\ UNCHANGED fallback_queue /\ Time(e) < current_max_limit
    BY <1>1, InsertInto
  <1>2. CASE /\ fallback_queue' = [fallback_queue EXCEPT ![t] = Append(fallback_queue[t], e)]
             /\ UNCHANGED queue /\ Time(e) >= current_max_limit
    <2>1. fallback_queue[t] \in Seq(Events)
      BY DEF IInv, Lists, QueueTypes
    <2>2. /\ \A u \in Threads \ {t} : fallback_queue'[u] = fallback_queue[u]
          /\ ToSet(fallback_queue'[t]) = ToSet(fallback_queue[t]) \cup {e}
      BY <1>2, <2>1, AppendElements DEF IInv, Lists, QueueTypes
    <2> QED
      BY <1>2, <2>2
  <1> QED
    BY <1>1, <1>2 DEF QueueInsert

\* An element that leaves a list.
LEMMA RemovedElements ==
  ASSUME NEW S, NEW q \in Seq(S), NEW n \in 1..Len(q)
  PROVE  ToSet(RemoveAt(q, n)) \subseteq ToSet(q)
  <1> DEFINE r == RemoveAt(q, n)
  <1>1. /\ r \in Seq(S) /\ Len(r) = Len(q) - 1
        /\ \A i \in 1..(Len(q) - 1) : r[i] = q[IF i < n THEN i ELSE i + 1]
    BY RemovedAt
  <1>2. Len(q) \in Nat
    BY Elements
  <1> HIDE DEF r
  <1>3. \A i \in 1..Len(r) : \E j \in 1..Len(q) : r[i] = q[j]
    <2> SUFFICES ASSUME NEW i \in 1..Len(r) PROVE \E j \in 1..Len(q) : r[i] = q[j]
      OBVIOUS
    <2>1. (IF i < n THEN i ELSE i + 1) \in 1..Len(q)
      BY <1>1, <1>2
    <2> QED
      BY <1>1, <2>1
  <1> QED
    BY <1>1, <1>3, Elements DEF r

\* What is kept of the withheld sends.
LEMMA BeforeElements ==
  ASSUME NEW q \in Seq(Sends), NEW time
  PROVE  Before(q, time) \in Seq(Sends) /\ ToSet(Before(q, time)) \subseteq ToSet(q)
  <1> DEFINE c == Cardinality({i \in DOMAIN q : \A j \in i..Len(q) : q[j].send_time >= time})
  <1>1. Len(q) \in Nat /\ c \in 0..Len(q)
    BY CountOfIndexes, Elements
  <1> HIDE DEF c
  <1>2. Len(q) - c \in 0..Len(q) /\ 1 <= (Len(q) - c) + 1 /\ 1 \in Nat \ {0}
    BY <1>1
  <1> DEFINE n == Len(q) - c
             r == SubSeq(q, 1, n)
  <1>3. /\ r \in Seq(Sends) /\ Len(r) = (n - 1) + 1
        /\ \A i \in 1..((n - 1) + 1) : r[i] = q[(1 + i) - 1]
    <2> HIDE DEF n
    <2> QED
      BY <1>2, Sublist DEF n
  <1>4. n \in Nat /\ n <= Len(q) /\ Before(q, time) = r
    BY <1>1, <1>2 DEF Before, c
  <1> HIDE DEF n, r
  <1>5. \A i \in 1..Len(r) : i \in 1..Len(q) /\ r[i] = q[i]
    BY <1>1, <1>3, <1>4
  <1> QED
    BY <1>3, <1>4, <1>5, Elements

\* Which actions a thread takes in a phase.
LEMMA RunningSteps ==
  ASSUME NEW t \in Threads, Step(t)
  PROVE  /\ pc[t] \in Running =>
              \/ GetEvent(t) \/ Dispense(t) \/ Finish(t) \/ Take(t) \/ TakenByOther(t)
              \/ Restore(t) \/ Annihilate(t) \/ Reinsert(t)
              \/ Release(t) \/ Keep(t) \/ Redo(t) \/ Extract(t)
              \/ Process(t) \/ ReadFreed(t) \/ SendFiltered(t) \/ SendLater(t) \/ SendNow(t)
         /\ pc[t] \in Starting => InitObject(t) \/ InitSend(t) \/ InitDone(t)
         /\ pc[t] \in Closing =>
              Retract(t) \/ Flush(t) \/ Commit(t) \/ Checkpoint(t) \/ FlushDone(t)
         /\ pc[t] \in Turning => UpdateTiming(t)
         /\ pc[t] \in Crossing => FallbackInsert(t) \/ FallbackDone(t)
         /\ pc[t] \in Starting \cup Running \cup Closing \cup Turning \cup Crossing
  BY DEF Step, Starting, Running, Closing, Turning, Crossing, InitObject, InitSend, InitDone,
         GetEvent, Dispense, Finish, Take, TakenByOther, Restore, Annihilate, Reinsert, Release,
         Keep, Redo, Extract, Process, ReadFreed, SendFiltered, SendLater, SendNow, Retract, Flush,
         Commit, Checkpoint, FlushDone, UpdateTiming, FallbackInsert, FallbackDone

\* A list that a step leaves alone.
ListsKept(t) ==
    /\ InitObject(t) \/ InitDone(t) \/ GetEvent(t) \/ Dispense(t) \/ Finish(t) \/ Take(t)
       \/ TakenByOther(t) \/ Release(t) \/ Keep(t) \/ Redo(t) \/ Process(t) \/ ReadFreed(t)
       \/ SendFiltered(t) \/ Flush(t) \/ Checkpoint(t) \/ FlushDone(t) \/ UpdateTiming(t)
       \/ FallbackDone(t)

LEMMA NoListMoves ==
  ASSUME NEW t \in Threads, ListsKept(t)
  PROVE  UNCHANGED <<queue, fallback_queue, retractable_queue, speculation_queue>>
  BY DEF ListsKept, InitObject, InitDone, GetEvent, Dispense, Finish, Take, TakenByOther, Release,
         Keep, Redo, Process, ReadFreed, SendFiltered, Flush, Checkpoint, FlushDone, UpdateTiming,
         FallbackDone, queues

\* An input queue after a step: an event is there that was there before, that
\* has been put back, or that has been inserted.
LEMMA QueueElements ==
  ASSUME IInv, NEW t \in Threads, Step(t), NEW o \in Objects, NEW s \in Slots,
         NEW e \in ToSet(queue'[o][s])
  PROVE  \/ e \in ToSet(queue[o][s])
         \/ Reinsert(t) /\ e \in ToSet(retractable_queue[o])
         \/ FallbackInsert(t) /\ e \in ToSet(fallback_queue[t]) /\ Time(e) < current_max_limit
         \/ /\ Commit(t) /\ Time(e) < current_max_limit
            /\ \E x \in ToSet(speculation_queue[target[t]]) : e = x.event
         \/ InitSend(t) /\ Time(e) < current_max_limit /\ e.kind = Head(outbox[t])
         \/ /\ SendNow(t) /\ current_min_limit <= Time(e) /\ Time(e) < EpochLimit
            /\ e.kind = NextSend(t)
  <1>0. /\ queue \in [Objects -> [Slots -> Seq(Events)]] /\ queue[o][s] \in Seq(Events)
        /\ ModelOK /\ current_index \in Slots /\ retractable_queue[o] \in Seq(Events)
    BY TimeTypes DEF IInv, Lists, QueueTypes
  <1>1. CASE ListsKept(t) \/ Restore(t) \/ SendLater(t) \/ Retract(t)
    BY <1>1, NoListMoves DEF Restore, SendLater, Retract
  <1>2. CASE InitSend(t)
    <2>1. PICK c \in Copies : QueueInsert(t, [kind |-> Head(outbox[t]), copy |-> c])
      BY <1>2 DEF InitSend
    <2> DEFINE f == [kind |-> Head(outbox[t]), copy |-> c]
    <2>2. outbox[t] \in Seq(Kinds) /\ outbox[t] # <<>> /\ model' = model
      BY <1>2 DEF InitSend, IInv, ThreadTypes
    <2>3. f \in Events /\ f.kind = Head(outbox[t])
      BY <2>2 DEF Events
    <2> HIDE DEF f
    <2>4. QueueInsert(t, f)
      BY <2>1 DEF f
    <2> QED
      BY <1>2, <2>2, <2>3, <2>4, QueueInserted
  <1>3. CASE Commit(t)
    <2> DEFINE x == Head(speculation_queue[target[t]])
    <2>1. /\ speculation_queue[target[t]] \in Seq(Sends) /\ speculation_queue[target[t]] # <<>>
          /\ QueueInsert(t, x.event) /\ model' = model
      BY <1>3 DEF Commit, IInv, Held, Holds, Lists, QueueTypes
    <2>2. x \in ToSet(speculation_queue[target[t]]) /\ x \in Sends
      BY <2>1, EndsElements
    <2>3. x.event \in Events
      BY <2>2 DEF Sends
    <2> HIDE DEF x
    <2>4. e \in ToSet(queue[o][s]) \/ (e = x.event /\ Time(x.event) < current_max_limit)
      BY <2>1, <2>3, QueueInserted
    <2> QED
      BY <1>3, <2>2, <2>4
  <1>4. CASE FallbackInsert(t)
    <2>1. PICK i \in Due(t) : Insert(fallback_queue[t][i])
      BY <1>4 DEF FallbackInsert
    <2>2. fallback_queue[t] \in Seq(Events) /\ model' = model
      BY <1>4 DEF FallbackInsert, IInv, Lists, QueueTypes
    <2>3. /\ fallback_queue[t][i] \in ToSet(fallback_queue[t]) /\ fallback_queue[t][i] \in Events
          /\ Time(fallback_queue[t][i]) < current_max_limit
      BY <2>2, Elements DEF Due
    <2> QED
      BY <1>4, <2>1, <2>2, <2>3, InsertInto
  <1>5. CASE SendNow(t)
    <2>1. PICK c \in Copies : /\ [kind |-> NextSend(t), copy |-> c] \in Events
                              /\ Insert([kind |-> NextSend(t), copy |-> c])
      BY <1>5, SendNowEffect
    <2> DEFINE f == [kind |-> NextSend(t), copy |-> c]
    <2>2. f.kind = NextSend(t) /\ Time(f) = model.time[NextSend(t)]
      BY DEF Time
    <2>3. Time(f) \in Nat /\ Time(f) < EpochLimit /\ ~Suppressed(t) /\ model' = model
      BY <1>5, <2>2, SendNowEffect DEF SendNow
    <2>4. current_min_limit <= Time(f)
      BY <2>2, <2>3, TimeTypes DEF Suppressed, IInv
    <2> HIDE DEF f
    <2>5. Insert(f) /\ f \in Events
      BY <2>1 DEF f
    <2> QED
      BY <1>5, <2>2, <2>3, <2>4, <2>5, InsertInto
  <1>6. CASE Annihilate(t)
    <2> DEFINE g == Last(log_queue[target[t]]).event
    <2>1. /\ g \in Events /\ Dest(g) \in Objects /\ SlotOf(g) \in Slots
          /\ queue' = [queue EXCEPT ![Dest(g)][SlotOf(g)] = Without(queue[Dest(g)][SlotOf(g)], g)]
      BY <1>6, AnnihilateEffect
    <2>2. queue'[o][s] = queue[o][s] \/ queue'[o][s] = Without(queue[o][s], g)
      BY <1>0, <2>1
    <2> QED
      BY <1>0, <2>2, Unlinked
  <1>7. CASE Reinsert(t)
    <2>1. target[t] \in Objects
          /\ queue' = [queue EXCEPT ![target[t]][current_index] =
                InTimeOrder(queue[target[t]][current_index] \o retractable_queue[target[t]])]
      BY <1>7 DEF Reinsert, IInv, Held, Holds
    <2>2. \/ queue'[o][s] = queue[o][s]
          \/ o = target[t] /\ queue'[o][s] = InTimeOrder(queue[o][s] \o retractable_queue[o])
      BY <1>0, <2>1
    <2> DEFINE q == queue[o][s] \o retractable_queue[o]
    <2>3. q \in Seq(Events) /\ ToSet(q) = ToSet(queue[o][s]) \cup ToSet(retractable_queue[o])
      BY <1>0, ConcatElements
    <2> HIDE DEF q
    <2>4. ToSet(InTimeOrder(q)) = ToSet(q)
      BY <1>0, <2>3, Ordered
    <2>5. queue'[o][s] = queue[o][s] \/ (o = target[t] /\ queue'[o][s] = InTimeOrder(q))
      BY <2>2 DEF q
    <2> QED
      BY <1>7, <2>3, <2>4, <2>5
  <1>8. CASE Extract(t)
    <2>1. target[t] \in Objects /\ queue[target[t]][current_index] # <<>>
          /\ queue' = [queue EXCEPT ![target[t]][current_index] = Tail(queue[target[t]][current_index])]
      BY <1>8 DEF Extract, HasWork, IInv, Held, Holds
    <2>2. \/ queue'[o][s] = queue[o][s]
          \/ queue[o][s] # <<>> /\ queue'[o][s] = Tail(queue[o][s])
      BY <1>0, <2>1
    <2> QED
      BY <1>0, <2>2, EndsElements
  <1> QED
    BY <1>1, <1>2, <1>3, <1>4, <1>5, <1>6, <1>7, <1>8 DEF Step, ListsKept

\* What has been executed after a step.
LEMMA RetractableElements ==
  ASSUME IInv, NEW t \in Threads, Step(t), NEW o \in Objects, NEW e \in ToSet(retractable_queue'[o])
  PROVE  \/ e \in ToSet(retractable_queue[o])
         \/ /\ Extract(t) /\ o = target[t] /\ event'[t] = <<e>>
            /\ e \in ToSet(queue[o][current_index])
  <1>0. ModelOK /\ retractable_queue[o] \in Seq(Events)
    BY DEF IInv, Lists, QueueTypes
  <1>1. CASE ListsKept(t) \/ Restore(t) \/ SendLater(t) \/ InitSend(t) \/ Commit(t)
             \/ FallbackInsert(t) \/ SendNow(t)
    BY <1>1, NoListMoves DEF Restore, SendLater, InitSend, Commit, FallbackInsert, SendNow
  <1>2. CASE Reinsert(t) \/ Retract(t)
    <2>1. retractable_queue'[o] = retractable_queue[o] \/ retractable_queue'[o] = <<>>
      BY <1>2 DEF Reinsert, Retract, IInv, Lists, QueueTypes
    <2> QED
      BY <2>1, EmptyElements
  <1>3. CASE Annihilate(t)
    <2> DEFINE g == Last(log_queue[target[t]]).event
    <2>1. retractable_queue' = [retractable_queue EXCEPT ![Dest(g)] = Without(retractable_queue[Dest(g)], g)]
      BY <1>3, AnnihilateEffect
    <2>2. retractable_queue'[o] = retractable_queue[o]
          \/ retractable_queue'[o] = Without(retractable_queue[o], g)
      BY <2>1 DEF IInv, Lists, QueueTypes
    <2> QED
      BY <1>0, <2>2, Unlinked
  <1>4. CASE Extract(t)
    <2> DEFINE f == Head(queue[target[t]][current_index])
    <2>1. /\ target[t] \in Objects /\ queue[target[t]][current_index] # <<>>
          /\ queue[target[t]][current_index] \in Seq(Events)
          /\ retractable_queue' = [retractable_queue EXCEPT ![target[t]] =
                                      Append(retractable_queue[target[t]], f)]
          /\ event'[t] = <<f>>
      BY <1>4, TimeTypes DEF Extract, HasWork, IInv, Held, Holds, Lists, QueueTypes, ThreadTypes
    <2>2. f \in ToSet(queue[target[t]][current_index]) /\ f \in Events
      BY <2>1, EndsElements
    <2> HIDE DEF f
    <2>3. \/ retractable_queue'[o] = retractable_queue[o]
          \/ o = target[t] /\ retractable_queue'[o] = Append(retractable_queue[o], f)
      BY <2>1 DEF IInv, Lists, QueueTypes
    <2> QED
      BY <1>0, <1>4, <2>1, <2>2, <2>3, AppendElements
  <1> QED
    BY <1>1, <1>2, <1>3, <1>4 DEF Step, ListsKept

\* What lies beyond the slots after a step.
LEMMA FallbackElements ==
  ASSUME IInv, NEW t \in Threads, Step(t), NEW u \in Threads, NEW e \in ToSet(fallback_queue'[u])
  PROVE  \/ e \in ToSet(fallback_queue[u])
         \/ InitSend(t) /\ Time(e) >= current_max_limit /\ e.kind = Head(outbox[t])
         \/ /\ Commit(t) /\ Time(e) >= current_max_limit
            /\ \E x \in ToSet(speculation_queue[target[t]]) : e = x.event
  <1>1. CASE ListsKept(t) \/ Restore(t) \/ SendLater(t) \/ Retract(t) \/ SendNow(t)
             \/ Annihilate(t) \/ Reinsert(t) \/ Extract(t)
    BY <1>1, NoListMoves DEF Restore, SendLater, Retract, SendNow, Annihilate, Reinsert, Extract
  <1>2. CASE InitSend(t)
    <2>1. PICK c \in Copies : QueueInsert(t, [kind |-> Head(outbox[t]), copy |-> c])
      BY <1>2 DEF InitSend
    <2> DEFINE f == [kind |-> Head(outbox[t]), copy |-> c]
    <2>2. outbox[t] \in Seq(Kinds) /\ outbox[t] # <<>> /\ model' = model
      BY <1>2 DEF InitSend, IInv, ThreadTypes
    <2>3. f \in Events /\ f.kind = Head(outbox[t])
      BY <2>2 DEF Events
    <2> HIDE DEF f
    <2>4. QueueInsert(t, f)
      BY <2>1 DEF f
    <2> QED
      BY <1>2, <2>2, <2>3, <2>4, QueueInserted
  <1>3. CASE Commit(t)
    <2> DEFINE x == Head(speculation_queue[target[t]])
    <2>1. /\ speculation_queue[target[t]] \in Seq(Sends) /\ speculation_queue[target[t]] # <<>>
          /\ QueueInsert(t, x.event) /\ model' = model
      BY <1>3 DEF Commit, IInv, Held, Holds, Lists, QueueTypes
    <2>2. x \in ToSet(speculation_queue[target[t]]) /\ x \in Sends
      BY <2>1, EndsElements
    <2>3. x.event \in Events
      BY <2>2 DEF Sends
    <2> QED
      BY <1>3, <2>1, <2>2, <2>3, QueueInserted
  <1>4. CASE FallbackInsert(t)
    <2>1. PICK i \in Due(t) : fallback_queue' = [fallback_queue EXCEPT ![t] = RemoveAt(fallback_queue[t], i)]
      BY <1>4 DEF FallbackInsert
    <2>2. fallback_queue[t] \in Seq(Events) /\ i \in 1..Len(fallback_queue[t])
      BY Elements DEF Due, IInv, Lists, QueueTypes
    <2>3. fallback_queue'[u] = fallback_queue[u]
          \/ (u = t /\ fallback_queue'[u] = RemoveAt(fallback_queue[t], i))
      BY <2>1 DEF IInv, Lists, QueueTypes
    <2> QED
      BY <2>2, <2>3, RemovedElements
  <1> QED
    BY <1>1, <1>2, <1>3, <1>4 DEF Step, ListsKept

\* What an object withholds after a step.
LEMMA WithheldElements ==
  ASSUME IInv, NEW t \in Threads, Step(t), NEW o \in Objects, NEW x \in ToSet(speculation_queue'[o])
  PROVE  \/ x \in ToSet(speculation_queue[o])
         \/ /\ SendLater(t) /\ o = current[t] /\ Time(x.event) >= EpochLimit
            /\ x.event.kind = NextSend(t) /\ x.send_time = Time(event[t][1])
  <1>0. speculation_queue[o] \in Seq(Sends)
    BY DEF IInv, Lists, QueueTypes
  <1>1. CASE ListsKept(t) \/ Retract(t) \/ SendNow(t) \/ FallbackInsert(t) \/ InitSend(t)
             \/ Annihilate(t) \/ Reinsert(t) \/ Extract(t)
    BY <1>1, NoListMoves DEF Retract, SendNow, Annihilate, Reinsert, Extract, FallbackInsert, InitSend
  <1>2. CASE Restore(t)
    <2>1. \/ speculation_queue'[o] = speculation_queue[o]
          \/ speculation_queue'[o] = Before(speculation_queue[o], rollback_time[t])
      BY <1>2 DEF Restore, IInv, Lists, QueueTypes
    <2> QED
      BY <1>0, <2>1, BeforeElements
  <1>3. CASE Commit(t)
    <2>1. \/ speculation_queue'[o] = speculation_queue[o]
          \/ speculation_queue[o] # <<>> /\ speculation_queue'[o] = Tail(speculation_queue[o])
      BY <1>3 DEF Commit, IInv, Lists, QueueTypes
    <2> QED
      BY <1>0, <2>1, EndsElements
  <1>4. CASE SendLater(t)
    <2>1. pc[t] = "process" /\ model.time[NextSend(t)] >= EpochLimit
      BY <1>4 DEF SendLater
    <2>2. PICK c \in Copies :
            speculation_queue' = [speculation_queue EXCEPT ![current[t]] =
                Append(speculation_queue[current[t]],
                       [event |-> [kind |-> NextSend(t), copy |-> c], send_time |-> Time(event[t][1])])]
      BY <1>4 DEF SendLater
    <2> DEFINE f == [kind |-> NextSend(t), copy |-> c]
               y == [event |-> f, send_time |-> Time(event[t][1])]
    <2>3. NextSend(t) \in Kinds /\ Time(event[t][1]) \in Nat
      BY <2>1, Executes
    <2>4. y \in Sends
      BY <2>3 DEF Events, Sends
    <2>5. y.event.kind = NextSend(t) /\ Time(y.event) = model.time[NextSend(t)]
          /\ y.send_time = Time(event[t][1])
      BY DEF Time
    <2>6. \/ speculation_queue'[o] = speculation_queue[o]
          \/ o = current[t] /\ speculation_queue'[o] = Append(speculation_queue[o], y)
      BY <2>2 DEF IInv, Lists, QueueTypes
    <2> HIDE DEF y
    <2>7. ToSet(Append(speculation_queue[o], y)) = ToSet(speculation_queue[o]) \cup {y}
      BY <1>0, <2>4, AppendElements
    <2>8. x \in ToSet(speculation_queue[o]) \/ (o = current[t] /\ x = y)
      BY <2>6, <2>7
    <2> QED
      BY <1>4, <2>1, <2>5, <2>8
  <1> QED
    BY <1>1, <1>2, <1>3, <1>4 DEF Step, ListsKept

-----------------------------------------------------------------------------
(* The window of an epoch *)

\* The limits in order.
LEMMA LimitsInOrder ==
  ASSUME CounterTypes
  PROVE  /\ current_min_limit \in Nat /\ EpochLimit \in Nat /\ current_max_limit \in Nat
         /\ current_min_limit < EpochLimit /\ EpochLimit <= current_max_limit
         /\ LOOKAHEAD \in Nat \ {0} /\ EpochLimit = current_min_limit + LOOKAHEAD
  <1>1. /\ current_min_limit \in Nat /\ EpochLimit \in Nat /\ current_max_limit \in Nat
        /\ LOOKAHEAD \in Nat \ {0} /\ NUM_SLOTS \in Nat \ {0}
    BY TimeTypes, ConstantsAssumption
  <1>2. PICK a \in Nat : NUM_SLOTS = a + 1
    <2>1. NUM_SLOTS - 1 \in Nat /\ NUM_SLOTS = (NUM_SLOTS - 1) + 1
      BY <1>1
    <2> QED
      BY <2>1
  <1>3. NUM_SLOTS * LOOKAHEAD = a * LOOKAHEAD + LOOKAHEAD /\ a * LOOKAHEAD \in Nat
    BY <1>1, <1>2
  <1> QED
    BY <1>1, <1>3 DEF EpochLimit, current_max_limit

\* What a step does to the limits: only UpdateTiming moves them, by one epoch.
LEMMA LimitsMove ==
  ASSUME IInv, NEW t \in Threads, Step(t)
  PROVE  /\ model' = model
         /\ \A e : Time(e)' = Time(e) /\ Dest(e)' = Dest(e) /\ SlotOf(e)' = SlotOf(e)
         /\ \/ /\ ~UpdateTiming(t) /\ epochs' = epochs
               /\ current_min_limit' = current_min_limit /\ EpochLimit' = EpochLimit
               /\ current_max_limit' = current_max_limit /\ current_index' = current_index
            \/ /\ UpdateTiming(t) /\ epochs' = epochs + 1
               /\ current_min_limit' = EpochLimit /\ EpochLimit' = EpochLimit + LOOKAHEAD
               /\ current_max_limit' = current_max_limit + LOOKAHEAD
  <1>1. model' = model
    BY OneMoves DEF OthersStay
  <1>2. CASE UpdateTiming(t)
    <2>1. epochs' = epochs + 1 /\ epochs \in Nat /\ LOOKAHEAD \in Nat \ {0}
      BY <1>2, ConstantsAssumption DEF UpdateTiming, IInv, CounterTypes
    <2>2. (epochs + 1) * LOOKAHEAD = epochs * LOOKAHEAD + LOOKAHEAD /\ epochs * LOOKAHEAD \in Nat
      BY <2>1
    <2>3. NUM_SLOTS * LOOKAHEAD \in Nat
      BY ConstantsAssumption
    <2> QED
      BY <1>1, <1>2, <2>1, <2>2, <2>3, SameTimes DEF current_min_limit, EpochLimit, current_max_limit
  <1>3. CASE ~UpdateTiming(t)
    <2>1. epochs' = epochs
      BY <1>3 DEF Step, InitObject, InitSend, InitDone, GetEvent, Dispense, Finish, Take, TakenByOther,
           Restore, Annihilate, Reinsert, Release, Keep, Redo, Extract, Process, ReadFreed,
           SendFiltered, SendLater, SendNow, Retract, Flush, Commit, Checkpoint, FlushDone,
           FallbackInsert, FallbackDone
    <2> QED
      BY <1>1, <1>3, <2>1, SameTimes
         DEF current_min_limit, EpochLimit, current_max_limit, current_index
  <1> QED
    BY <1>2, <1>3

\* Division with remainder.
LEMMA Division ==
  ASSUME NEW n \in Nat, NEW d \in Nat \ {0}
  PROVE  n \div d \in Nat /\ n % d \in 0..(d - 1) /\ n = d * (n \div d) + (n % d)
  OBVIOUS

LEMMA Difference ==
  ASSUME NEW m \in Nat, NEW n \in Nat, m <= n
  PROVE  \E a \in Nat : n = m + a
  <1>1. n - m \in Nat /\ n = m + (n - m)
    OBVIOUS
  <1> QED
    BY <1>1

LEMMA Product ==
  ASSUME NEW d \in Nat, NEW m \in Nat, NEW a \in Nat
  PROVE  d * (m + a) = d * m + d * a /\ d * m \in Nat /\ d * a \in Nat
  OBVIOUS

LEMMA ProductMonotonic ==
  ASSUME NEW d \in Nat, NEW m \in Nat, NEW n \in Nat, m <= n
  PROVE  d * m <= d * n /\ d * m \in Nat /\ d * n \in Nat
  <1>1. PICK a \in Nat : n = m + a
    BY Difference
  <1>2. d * (m + a) = d * m + d * a /\ d * m \in Nat /\ d * a \in Nat
    BY Product
  <1> QED
    BY <1>1, <1>2

\* Of two numbers with the same remainder, one is less than the divisor behind
\* the other only if it is not behind it.
LEMMA SameRemainder ==
  ASSUME NEW d \in Nat \ {0}, NEW m \in Nat, NEW n \in Nat, m % d = n % d, m < n + d
  PROVE  m <= n
  <1> DEFINE p == m \div d
             q == n \div d
             r == n % d
  <1>1. p \in Nat /\ q \in Nat /\ r \in 0..(d - 1) /\ m = d * p + r /\ n = d * q + r
    BY Division
  <1> HIDE DEF p, q, r
  <1>2. p <= q
    <2> SUFFICES ASSUME ~(p <= q) PROVE FALSE
      OBVIOUS
    <2>1. q + 1 <= p /\ q + 1 \in Nat
      BY <1>1
    <2>2. d * (q + 1) <= d * p /\ d * (q + 1) = d * q + d * 1 /\ d * 1 = d
      BY <1>1, <2>1, Product, ProductMonotonic
    <2>3. d * q \in Nat /\ d * p \in Nat
      BY <1>1
    <2> QED
      BY <1>1, <2>2, <2>3
  <1>3. d * p <= d * q /\ d * p \in Nat /\ d * q \in Nat
    BY <1>1, <1>2, ProductMonotonic
  <1> QED
    BY <1>1, <1>3

\* An event of the window that is in the slot of the epoch is due in the epoch
\* or has been left behind by an earlier one.
LEMMA DueInEpoch ==
  ASSUME epochs \in Nat, NEW e, Time(e) \in Nat, SlotOf(e) = current_index,
         Time(e) < current_max_limit
  PROVE  Time(e) < EpochLimit
  <1> DEFINE k == Time(e) \div LOOKAHEAD
             r == Time(e) % LOOKAHEAD
  <1>1. LOOKAHEAD \in Nat \ {0} /\ NUM_SLOTS \in Nat \ {0}
    BY ConstantsAssumption
  <1>2. k \in Nat /\ r \in 0..(LOOKAHEAD - 1) /\ Time(e) = LOOKAHEAD * k + r
    BY <1>1, Division
  <1>3. k % NUM_SLOTS = epochs % NUM_SLOTS
    BY DEF SlotOf, current_index
  <1>4. /\ current_max_limit = LOOKAHEAD * epochs + LOOKAHEAD * NUM_SLOTS
        /\ EpochLimit = LOOKAHEAD * epochs + LOOKAHEAD
        /\ LOOKAHEAD * epochs \in Nat /\ LOOKAHEAD * NUM_SLOTS \in Nat
    BY <1>1 DEF current_min_limit, current_max_limit, EpochLimit
  <1> HIDE DEF k, r
  <1>5. k < epochs + NUM_SLOTS
    <2> SUFFICES ASSUME ~(k < epochs + NUM_SLOTS) PROVE FALSE
      OBVIOUS
    <2>1. epochs + NUM_SLOTS <= k /\ epochs + NUM_SLOTS \in Nat
      BY <1>1, <1>2
    <2>2. LOOKAHEAD * (epochs + NUM_SLOTS) <= LOOKAHEAD * k /\ LOOKAHEAD * k \in Nat
      BY <1>1, <1>2, <2>1, ProductMonotonic
    <2>3. LOOKAHEAD * (epochs + NUM_SLOTS) = LOOKAHEAD * epochs + LOOKAHEAD * NUM_SLOTS
      BY <1>1, Product
    <2> QED
      BY <1>1, <1>2, <1>4, <2>2, <2>3
  <1>6. k <= epochs
    BY <1>1, <1>2, <1>3, <1>5, SameRemainder
  <1>7. LOOKAHEAD * k <= LOOKAHEAD * epochs /\ LOOKAHEAD * k \in Nat
    BY <1>1, <1>2, <1>6, ProductMonotonic
  <1> QED
    BY <1>1, <1>2, <1>4, <1>7

\* What is in a list is due: in the slots, before they wrap around; executed or
\* being executed, in this epoch; withheld, after it.
InTime ==
    /\ \A o \in Objects, s \in Slots : \A e \in ToSet(queue[o][s]) : Time(e) < current_max_limit
    /\ \A o \in Objects : \A e \in ToSet(retractable_queue[o]) : Time(e) < EpochLimit
    /\ \A o \in Objects : \A x \in ToSet(speculation_queue[o]) : Time(x.event) >= EpochLimit
    /\ \A t \in Threads : pc[t] \in {"copy", "process"} => Time(event[t][1]) < EpochLimit

\* The fallback queues have been searched for the events of the last slot.
Searched == AllIn(Starting) \/ AllIn(Running) \/ AllIn(Closing) \/ \E u \in Threads : pc[u] = "update"

\* What is beyond the slots is not due in them, once the queue has been searched.
Beyond ==
    /\ \A t \in Threads : \A e \in ToSet(fallback_queue[t]) : Time(e) >= current_min_limit
    /\ \A t \in Threads : Searched \/ pc[t] = "ready" =>
          \A e \in ToSet(fallback_queue[t]) : Time(e) >= current_max_limit

\* What an object has withheld is committed when the object is dispensed.
Committed ==
    /\ AllIn(Closing) => \A o \in Objects : o < shadow_object_identifiers =>
          speculation_queue[o] = <<>> \/ \E t \in Threads : pc[t] = "commit" /\ target[t] = o
    /\ ~(AllIn(Running) \/ AllIn(Closing)) => \A o \in Objects : speculation_queue[o] = <<>>

\* One thread turns the epoch, after all objects.
Turned ==
    /\ \A t \in Threads : pc[t] = "update" =>
          shadow_object_identifiers = OBJECTS /\ \A u \in Threads : pc[u] = "update" => u = t
    /\ AllIn(Starting) => epochs = 0

Window == InTime /\ Beyond /\ Committed /\ Turned

LEMMA WindowTypes ==
  ASSUME IInv
  PROVE  /\ \A o \in Objects, s \in Slots : /\ queue[o][s] \in Seq(Events)
                                            /\ \A e \in ToSet(queue[o][s]) : e \in Events /\ Time(e) \in Nat
         /\ \A o \in Objects : /\ retractable_queue[o] \in Seq(Events)
                               /\ \A e \in ToSet(retractable_queue[o]) : e \in Events /\ Time(e) \in Nat
         /\ \A t \in Threads : /\ fallback_queue[t] \in Seq(Events)
                               /\ \A e \in ToSet(fallback_queue[t]) : e \in Events /\ Time(e) \in Nat
         /\ \A o \in Objects : /\ speculation_queue[o] \in Seq(Sends)
                               /\ \A x \in ToSet(speculation_queue[o]) :
                                     /\ x \in Sends /\ x.event \in Events
                                     /\ Time(x.event) \in Nat /\ x.send_time \in Nat
  <1>1. \A e \in Events : Time(e) \in Nat
    BY EventTypes DEF IInv, Lists
  <1>2. \A x \in Sends : x.event \in Events /\ x.send_time \in Nat
    BY DEF Sends
  <1>3. ASSUME NEW q \in Seq(Events), NEW e \in ToSet(q) PROVE e \in Events /\ Time(e) \in Nat
    BY <1>1, Elements
  <1>4. ASSUME NEW q \in Seq(Sends), NEW x \in ToSet(q) PROVE x \in Sends
    BY Elements
  <1>5. /\ queue \in [Objects -> [Slots -> Seq(Events)]] /\ fallback_queue \in [Threads -> Seq(Events)]
        /\ retractable_queue \in [Objects -> Seq(Events)] /\ speculation_queue \in [Objects -> Seq(Sends)]
    BY DEF IInv, Lists, QueueTypes
  <1>6. /\ \A o \in Objects, s \in Slots : queue[o][s] \in Seq(Events)
        /\ \A o \in Objects : retractable_queue[o] \in Seq(Events) /\ speculation_queue[o] \in Seq(Sends)
        /\ \A t \in Threads : fallback_queue[t] \in Seq(Events)
    BY <1>5
  <1> HIDE <1>5
  <1> QED
    BY <1>1, <1>2, <1>3, <1>4, <1>6

\* The same of the lists after a step.
LEMMA TypesAfter ==
  ASSUME IInv, NEW t \in Threads, Step(t)
  PROVE  /\ \A o \in Objects, s \in Slots : \A e \in ToSet(queue'[o][s]) : Time(e) \in Nat
         /\ \A o \in Objects : \A e \in ToSet(retractable_queue'[o]) : Time(e) \in Nat
         /\ \A u \in Threads : \A e \in ToSet(fallback_queue'[u]) : Time(e) \in Nat
         /\ \A o \in Objects : \A x \in ToSet(speculation_queue'[o]) : Time(x.event) \in Nat
         /\ \A u \in Threads : pc'[u] \in {"copy", "process"} =>
               event'[u][1] \in Events /\ Time(event'[u][1]) \in Nat
  <1>1. \A e \in Events : Time(e) \in Nat
    BY EventTypes DEF IInv, Lists
  <1>2. \A x \in Sends : x.event \in Events
    BY DEF Sends
  <1>3. IInv'
    BY StepPreserves
  <1>4. /\ queue' \in [Objects -> [Slots -> Seq(Events)]] /\ fallback_queue' \in [Threads -> Seq(Events)]
        /\ retractable_queue' \in [Objects -> Seq(Events)] /\ speculation_queue' \in [Objects -> Seq(Sends)]
    BY <1>3 DEF IInv, Lists, QueueTypes
  <1>5. /\ \A o \in Objects, s \in Slots : queue'[o][s] \in Seq(Events)
        /\ \A o \in Objects : retractable_queue'[o] \in Seq(Events) /\ speculation_queue'[o] \in Seq(Sends)
        /\ \A u \in Threads : fallback_queue'[u] \in Seq(Events)
    BY <1>4
  <1>6. ASSUME NEW q \in Seq(Events), NEW e \in ToSet(q) PROVE Time(e) \in Nat
    BY <1>1, Elements
  <1>7. ASSUME NEW q \in Seq(Sends), NEW x \in ToSet(q) PROVE Time(x.event) \in Nat
    BY <1>1, <1>2, Elements
  <1>8. \A u \in Threads : pc'[u] \in {"copy", "process"} => event'[u][1] \in Events
    <2>1. \A u \in Threads : pc'[u] \in {"copy", "process"} => event'[u] # <<>> /\ event'[u] \in Seq(Events)
      BY <1>3 DEF IInv, Held, Holds, ThreadTypes
    <2> QED
      BY <2>1
  <1> QED
    BY <1>1, <1>5, <1>6, <1>7, <1>8

\* Phases exclude each other.
LEMMA PhaseDiffers ==
  /\ AllIn(Running) => ~AllIn(Starting) /\ ~AllIn(Closing) /\ ~AllIn(Turning) /\ ~AllIn(Crossing)
  /\ AllIn(Closing) => ~AllIn(Starting) /\ ~AllIn(Turning) /\ ~AllIn(Crossing)
  /\ AllIn(Starting) => ~AllIn(Turning) /\ ~AllIn(Crossing)
  /\ AllIn(Turning) => ~AllIn(Crossing)
  <1>1. Threads # {}
    BY ConstantsAssumption, ConstantTypes
  <1> QED
    BY <1>1 DEF AllIn, Starting, Running, Closing, Turning, Crossing

LEMMA InTimeStep ==
  ASSUME IInv, Ownership, Order, Window, NEW t \in Threads, Step(t)
  PROVE  InTime'
  <1>1. /\ \A e : Time(e)' = Time(e)
        /\ EpochLimit <= EpochLimit' /\ current_max_limit <= current_max_limit'
        /\ EpochLimit \in Nat /\ current_max_limit \in Nat /\ EpochLimit <= current_max_limit
        /\ EpochLimit' \in Nat /\ current_max_limit' \in Nat
        /\ ~UpdateTiming(t) => EpochLimit' = EpochLimit
    BY LimitsMove, LimitsInOrder DEF IInv
  <1>2. ASSUME NEW o \in Objects, NEW e \in ToSet(queue[o][current_index])
        PROVE  e \in Events /\ Time(e) < EpochLimit
    <2>1. e \in Events /\ Time(e) \in Nat /\ current_index \in Slots
      BY WindowTypes, TimeTypes DEF IInv
    <2>2. SlotOf(e) = current_index /\ Time(e) < current_max_limit
      BY <2>1 DEF Order, InOrder, InputInOrder, Window, InTime
    <2> QED
      BY <2>1, <2>2, DueInEpoch DEF IInv, CounterTypes
  <1>3. ASSUME NEW o \in Objects, NEW s \in Slots, NEW e \in ToSet(queue'[o][s])
        PROVE  Time(e) < current_max_limit
    <2>1. \A f \in ToSet(queue[o][s]) : Time(f) < current_max_limit
      BY DEF Window, InTime
    <2>2. \A f \in ToSet(retractable_queue[o]) : Time(f) < current_max_limit
      BY <1>1, WindowTypes DEF Window, InTime
    <2>3. CASE SendNow(t) /\ Time(e) < EpochLimit /\ e.kind = NextSend(t)
      <3>1. Time(e) \in Nat
        BY <2>3, SendNowEffect DEF Time
      <3> QED
        BY <1>1, <2>3, <3>1
    <2> QED
      BY <2>1, <2>2, <2>3, QueueElements
  <1>4. ASSUME NEW o \in Objects, NEW e \in ToSet(retractable_queue'[o])
        PROVE  Time(e) < EpochLimit
    BY <1>2, RetractableElements DEF Window, InTime
  <1>5. ASSUME NEW o \in Objects, NEW x \in ToSet(speculation_queue'[o])
        PROVE  Time(x.event) >= EpochLimit'
    <2>1. CASE UpdateTiming(t)
      <3>1. pc[t] = "update" /\ speculation_queue'[o] = speculation_queue[o]
        BY <2>1 DEF UpdateTiming, queues
      <3>2. ~AllIn(Running) /\ ~AllIn(Closing)
        BY <3>1 DEF AllIn, Running, Closing
      <3> QED
        BY <3>1, <3>2, EmptyElements DEF Window, Committed
    <2>2. CASE ~UpdateTiming(t)
      BY <1>1, <2>2, WithheldElements DEF Window, InTime
    <2> QED
      BY <2>1, <2>2
  <1>6. ASSUME NEW u \in Threads, pc'[u] \in {"copy", "process"} PROVE Time(event'[u][1]) < EpochLimit
    <2>1. CASE u # t
      BY <1>6, <2>1, OneMoves DEF OthersStay, Window, InTime
    <2>2. CASE u = t /\ Extract(t)
      <3>1. /\ target[t] \in Objects /\ queue[target[t]][current_index] # <<>>
            /\ queue[target[t]][current_index] \in Seq(Events)
            /\ event'[t][1] = Head(queue[target[t]][current_index])
        BY <2>2, TimeTypes DEF Extract, HasWork, IInv, Held, Holds, Lists, QueueTypes, ThreadTypes
      <3> QED
        BY <1>2, <2>2, <3>1, EndsElements
    <2>3. CASE u = t /\ (Process(t) \/ SendFiltered(t) \/ SendLater(t) \/ SendNow(t))
      BY <1>6, <2>3, SendMoves DEF Window, InTime
    <2>4. CASE u = t /\ ReadFreed(t)
      BY <1>6, <2>4 DEF ReadFreed, locals, Window, InTime
    <2>5. Extract(t) \/ ReadFreed(t) \/ Process(t) \/ SendFiltered(t) \/ SendLater(t) \/ SendNow(t)
          \/ u # t
      <3> SUFFICES ASSUME u = t, ~(Extract(t) \/ ReadFreed(t) \/ Process(t) \/ SendFiltered(t)
                                   \/ SendLater(t) \/ SendNow(t))
                   PROVE  FALSE
        OBVIOUS
      <3>1. CASE GetEvent(t) \/ Dispense(t) \/ Release(t)
        BY <1>6, <3>1, ResumeStack DEF GetEvent, Dispense, Release, IInv, ThreadTypes, Goto, Labels
      <3>2. CASE ~(GetEvent(t) \/ Dispense(t) \/ Release(t))
        BY <1>6, <3>2 DEF Step, IInv, ThreadTypes, Goto, InitObject, InitSend, InitDone, Finish, Take,
              TakenByOther, Restore, Annihilate, Reinsert, Keep, Redo, Retract, Flush, Commit,
              Checkpoint, FlushDone, UpdateTiming, FallbackInsert, FallbackDone, locals
      <3> QED
        BY <3>1, <3>2
    <2> QED
      BY <2>1, <2>2, <2>3, <2>4, <2>5
  <1>7. \A m, n, p \in Nat : m < n /\ n <= p => m < p
    OBVIOUS
  <1>8. \A o \in Objects, s \in Slots : \A e \in ToSet(queue'[o][s]) : Time(e) < current_max_limit'
    BY <1>1, <1>3, <1>7, TypesAfter
  <1>9. \A o \in Objects : \A e \in ToSet(retractable_queue'[o]) : Time(e) < EpochLimit'
    BY <1>1, <1>4, <1>7, TypesAfter
  <1>10. \A u \in Threads : pc'[u] \in {"copy", "process"} => Time(event'[u][1]) < EpochLimit'
    BY <1>1, <1>6, <1>7, TypesAfter
  <1>11. \A o \in Objects : \A x \in ToSet(speculation_queue'[o]) : Time(x.event) >= EpochLimit'
    BY <1>1, <1>5
  <1>12. model' = model
    BY LimitsMove
  <1> QED
    BY <1>8, <1>9, <1>10, <1>11, <1>12 DEF InTime, Time

\* The ends of a phase.
LEMMA PhaseEnds ==
  ASSUME IInv, Ownership, Turned, NEW t \in Threads, Step(t)
  PROVE  /\ PhasesStay /\ OthersStay(t)
         /\ \A u \in Threads : pc'[u] # "update"
         /\ \A u \in Threads : pc'[u] = "ready" => pc[u] = "ready" \/ (u = t /\ FallbackDone(t))
  <1>1. OthersStay(t) /\ SamePhase(t) /\ PhasesStay
    BY OneMoves, PhaseKept DEF Ownership
  <1>2. UpdateTiming(t) => pc[t] = "update" /\ pc'[t] = "updated"
    BY DEF UpdateTiming, Goto, IInv, ThreadTypes
  <1>3. pc'[t] # "update"
    BY <1>1, <1>2, RunningSteps DEF SamePhase, Starting, Running, Closing, Turning, Crossing
  <1>4. ASSUME NEW u \in Threads \ {t}, pc'[u] = "update" PROVE FALSE
    <2>1. pc[u] = "update" /\ pc[t] \in Turning
      BY <1>1, <1>4, OnePhase DEF OthersStay, AllIn, Turning
    <2> QED
      BY <1>2, <2>1, RunningSteps DEF Turned
  <1>5. pc'[t] = "ready" => pc[t] = "ready" \/ FallbackDone(t)
    <2>1. FallbackInsert(t) => pc' = pc
      BY DEF FallbackInsert
    <2> QED
      BY <1>1, <2>1, RunningSteps DEF SamePhase, Starting, Running, Closing, Turning, Crossing
  <1> QED
    BY <1>1, <1>3, <1>4, <1>5 DEF OthersStay

LEMMA BeyondStep ==
  ASSUME IInv, Ownership, Window, NEW t \in Threads, Step(t)
  PROVE  Beyond'
  <1>1. /\ model' = model /\ \A e : Time(e)' = Time(e)
        /\ current_min_limit \in Nat /\ current_max_limit \in Nat /\ EpochLimit \in Nat
        /\ current_min_limit <= EpochLimit /\ EpochLimit <= current_max_limit
        /\ \/ ~UpdateTiming(t) /\ current_min_limit' = current_min_limit /\ current_max_limit' = current_max_limit
           \/ UpdateTiming(t) /\ current_min_limit' = EpochLimit
    BY LimitsMove, LimitsInOrder DEF IInv
  <1>2. \A u \in Threads : \A e \in ToSet(fallback_queue'[u]) : Time(e) \in Nat
    BY TypesAfter
  <1>3. ASSUME NEW u \in Threads, NEW e \in ToSet(fallback_queue'[u])
        PROVE  Time(e) >= current_min_limit'
    <2>1. CASE UpdateTiming(t)
      <3>1. pc[t] = "update" /\ fallback_queue' = fallback_queue
        BY <2>1 DEF UpdateTiming, queues
      <3>2. Time(e) >= current_max_limit
        BY <3>1 DEF Window, Beyond, Searched
      <3> QED
        BY <1>1, <1>2, <2>1, <3>2
    <2>2. CASE ~UpdateTiming(t)
      <3>1. Time(e) >= current_min_limit \/ Time(e) >= current_max_limit
        BY FallbackElements DEF Window, Beyond
      <3> QED
        BY <1>1, <1>2, <2>2, <3>1
    <2> QED
      BY <2>1, <2>2
  <1>4. ASSUME NEW u \in Threads, Searched' \/ pc'[u] = "ready", NEW e \in ToSet(fallback_queue'[u])
        PROVE  Time(e) >= current_max_limit'
    <2>1. CASE Searched'
      <3>1. AllIn(Starting) \/ AllIn(Running) \/ AllIn(Closing)
        BY <2>1, PhaseEnds DEF Window, Searched, PhasesStay
      <3>2. ~UpdateTiming(t)
        BY <3>1 DEF UpdateTiming, AllIn, Starting, Running, Closing
      <3> QED
        BY <1>1, <3>1, <3>2, FallbackElements DEF Window, Beyond, Searched
    <2>2. CASE pc'[u] = "ready" /\ pc[u] = "ready"
      <3>1. pc[t] \in Crossing
        BY <2>2, OnePhase DEF AllIn, Crossing
      <3>2. ~UpdateTiming(t) /\ ~InitSend(t) /\ ~Commit(t)
        BY <3>1 DEF UpdateTiming, InitSend, Commit, Crossing
      <3> QED
        BY <1>1, <2>2, <3>2, FallbackElements DEF Window, Beyond
    <2>3. CASE u = t /\ FallbackDone(t)
      <3>1. fallback_queue' = fallback_queue /\ Due(t) = {} /\ ~UpdateTiming(t)
        BY <2>3 DEF FallbackDone, queues, UpdateTiming
      <3>2. fallback_queue[t] \in Seq(Events)
        BY WindowTypes
      <3>3. PICK i \in 1..Len(fallback_queue[t]) : e = fallback_queue[t][i]
        BY <2>3, <3>1, <3>2, Elements
      <3>4. i \in DOMAIN fallback_queue[t]
        BY <3>2, Elements
      <3>5. ~(Time(e) < current_max_limit)
        BY <3>1, <3>3, <3>4 DEF Due
      <3> QED
        BY <1>1, <1>2, <3>1, <3>5
    <2> QED
      BY <1>4, <2>1, <2>2, <2>3, PhaseEnds DEF Window
  <1> QED
    BY <1>1, <1>3, <1>4 DEF Beyond, Time

LEMMA TurnedStep ==
  ASSUME IInv, Ownership, Window, NEW t \in Threads, Step(t)
  PROVE  Turned'
  <1>1. PhasesStay /\ \A u \in Threads : pc'[u] # "update"
    BY PhaseEnds DEF Window
  <1>2. ASSUME AllIn(Starting)' PROVE epochs' = 0
    <2>1. AllIn(Starting)
      BY <1>1, <1>2 DEF PhasesStay
    <2>2. ~UpdateTiming(t)
      BY <2>1 DEF UpdateTiming, AllIn, Starting
    <2> QED
      BY <2>1, <2>2, LimitsMove DEF Window, Turned
  <1> QED
    BY <1>1, <1>2 DEF Turned

LEMMA CommittedStep ==
  ASSUME IInv, Ownership, Cleanup, Window, NEW t \in Threads, Step(t)
  PROVE  Committed'
  <1>1. PhasesStay /\ OthersStay(t)
    BY PhaseEnds DEF Window
  <1>2. CASE ~(AllIn(Running) \/ AllIn(Closing))
    <2>1. pc[t] \notin Running \cup Closing
      BY <1>2, OnePhase
    <2>2. UNCHANGED speculation_queue
      BY <2>1, RunningSteps DEF InitObject, InitSend, InitDone, UpdateTiming, FallbackInsert,
                                FallbackDone, queues
    <2> QED
      BY <1>1, <1>2, <2>2 DEF Window, Committed, PhasesStay
  <1>3. CASE AllIn(Running)
    BY <1>1, <1>3, PhaseDiffers DEF Committed, PhasesStay
  <1>4. CASE AllIn(Closing)
    <2> SUFFICES ASSUME NEW o \in Objects, o < shadow_object_identifiers'
                 PROVE  \/ speculation_queue'[o] = <<>>
                        \/ \E u \in Threads : pc'[u] = "commit" /\ target'[u] = o
      BY <1>1, <1>4 DEF Committed, PhasesStay
    <2>0. o \in Nat /\ shadow_object_identifiers \in Nat
      BY ConstantTypes, ConstantsAssumption DEF IInv, CounterTypes
    <2>1. CASE Flush(t)
      <3>1. /\ pc[t] = "flush" /\ speculation_queue' = speculation_queue
            /\ shadow_object_identifiers' = shadow_object_identifiers + 1
            /\ pc'[t] = "commit" /\ target'[t] = shadow_object_identifiers
        BY <2>1 DEF Flush, IInv, ThreadTypes, Goto
      <3>2. CASE o < shadow_object_identifiers
        BY <1>1, <1>4, <3>1, <3>2 DEF Window, Committed, OthersStay
      <3>3. CASE o = shadow_object_identifiers
        BY <3>1, <3>3
      <3> QED
        BY <2>0, <3>1, <3>2, <3>3
    <2>2. CASE Commit(t)
      <3>1. /\ UNCHANGED <<pc, target, shadow_object_identifiers>> /\ pc[t] = "commit"
            /\ o # target[t] => speculation_queue'[o] = speculation_queue[o]
        BY <2>2 DEF Commit, dispensers, locals, IInv, Lists, QueueTypes
      <3> QED
        BY <1>4, <3>1 DEF Window, Committed
    <2>3. CASE Checkpoint(t)
      <3>1. /\ UNCHANGED <<speculation_queue, target, shadow_object_identifiers>> /\ pc[t] = "commit"
            /\ speculation_queue[target[t]] = <<>>
        BY <2>3 DEF Checkpoint, dispensers, locals, queues
      <3>2. CASE o = target[t]
        BY <3>1, <3>2
      <3>3. CASE o # target[t]
        BY <1>1, <1>4, <3>1, <3>3 DEF Window, Committed, OthersStay
      <3> QED
        BY <3>2, <3>3
    <2>4. CASE Retract(t) \/ FlushDone(t)
      <3>1. /\ UNCHANGED <<speculation_queue, target, shadow_object_identifiers>> /\ pc[t] # "commit"
        BY <2>4 DEF Retract, FlushDone, dispensers, locals, queues
      <3> QED
        BY <1>1, <1>4, <3>1 DEF Window, Committed, OthersStay
    <2> QED
      BY <1>4, <2>1, <2>2, <2>3, <2>4, RunningSteps DEF AllIn
  <1> QED
    BY <1>2, <1>3, <1>4

LEMMA WindowBarriers ==
  ASSUME IInv, Ownership, Cleanup, Window, Barriers
  PROVE  Window'
  <1>1. UNCHANGED <<model, queue, fallback_queue, retractable_queue, speculation_queue, epochs,
                    shadow_object_identifiers, target, event>>
    BY DEF Barriers, queues, dispensers, locals
  <1>2. /\ current_min_limit' = current_min_limit /\ EpochLimit' = EpochLimit
        /\ current_max_limit' = current_max_limit /\ \A e : Time(e)' = Time(e)
    BY <1>1, SameTimes DEF current_min_limit, EpochLimit, current_max_limit
  <1>3. Threads # {}
    BY ConstantsAssumption, ConstantTypes
  <1>4. \/ AllIn({"started"}) /\ AllIn({"idle"})'
        \/ AllIn({"quiet"}) /\ AllIn({"retract"})'
        \/ /\ AllIn({"flushed"})
           /\ \E w \in Threads : pc' = [t \in Threads |-> IF t = w THEN "update" ELSE "updated"]
        \/ AllIn({"updated"}) /\ AllIn({"fallback"})'
        \/ AllIn({"ready"}) /\ AllIn({"dispense"})'
    BY DEF Barriers, Barrier, AllIn
  <1>5. InTime'
    <2>1. \A t \in Threads : pc'[t] \notin {"copy", "process"}
      BY <1>4 DEF AllIn
    <2> QED
      BY <1>1, <1>2, <2>1 DEF Window, InTime, Time
  <1>6. Beyond'
    <2>1. \A t \in Threads : Searched' \/ pc'[t] = "ready" => Searched \/ \A u \in Threads : pc[u] = "ready"
      BY <1>3, <1>4 DEF Searched, AllIn, Starting, Running, Closing
    <2> QED
      BY <1>1, <1>2, <2>1 DEF Window, Beyond, Time
  <1>7. Committed'
    <2>1. CASE AllIn({"started"}) /\ AllIn({"idle"})'
      BY <1>3, <2>1 DEF Committed, AllIn, Running, Closing
    <2>2. CASE AllIn({"quiet"}) /\ AllIn({"retract"})'
      <3>1. shadow_object_identifiers = 0 /\ \A o \in Objects : ~(o < 0)
        BY <2>2, ConstantTypes DEF Cleanup, Reset, AllIn, Closing
      <3> QED
        BY <1>1, <1>3, <2>2, <3>1 DEF Committed, AllIn, Running, Closing
    <2>3. CASE AllIn({"flushed"})
      <3>1. shadow_object_identifiers = OBJECTS /\ AllIn(Closing)
        BY <1>3, <2>3 DEF Cleanup, Counted, AllIn, Closing
      <3>2. \A o \in Objects : o < OBJECTS
        BY ConstantsAssumption DEF Objects
      <3>3. \A o \in Objects : speculation_queue[o] = <<>>
        BY <2>3, <3>1, <3>2 DEF Window, Committed, AllIn
      <3>4. AllIn(Turning)'
        BY <1>3, <1>4, <2>3 DEF AllIn, Turning
      <3> QED
        BY <1>1, <1>3, <3>3, <3>4 DEF Committed, AllIn, Running, Closing, Turning
    <2>4. CASE AllIn({"updated"}) /\ AllIn({"fallback"})'
      <3>1. ~AllIn(Running) /\ ~AllIn(Closing)
        BY <1>3, <2>4 DEF AllIn, Running, Closing
      <3> QED
        BY <1>1, <1>3, <2>4, <3>1 DEF Window, Committed, AllIn, Running, Closing
    <2>5. CASE AllIn({"ready"}) /\ AllIn({"dispense"})'
      BY <1>3, <2>5 DEF Committed, AllIn, Running, Closing
    <2> QED
      BY <1>4, <2>1, <2>2, <2>3, <2>4, <2>5
  <1>8. Turned'
    <2>1. ASSUME NEW t \in Threads, pc'[t] = "update"
          PROVE  shadow_object_identifiers = OBJECTS /\ \A u \in Threads : pc'[u] = "update" => u = t
      BY <1>4, <2>1 DEF AllIn, Cleanup, Counted
    <2>2. ~AllIn(Starting)'
      BY <1>3, <1>4 DEF AllIn, Starting
    <2> QED
      BY <1>1, <2>1, <2>2 DEF Turned
  <1> QED
    BY <1>5, <1>6, <1>7, <1>8 DEF Window

LEMMA WindowUnchanged ==
  ASSUME Window, UNCHANGED vars
  PROVE  Window'
  BY SameTimes DEF Window, InTime, Beyond, Searched, Committed, Turned, AllIn, Time, current_min_limit,
         EpochLimit, current_max_limit, vars, queues, dispensers, locals

LEMMA WindowAtFirst == Init => Window
  BY EmptyElements, ConstantTypes
     DEF Init, Window, InTime, Beyond, Committed, Turned, current_min_limit, AllIn, Closing

LEMMA AlwaysWindow == Spec => [](IInv /\ Ownership /\ Cleanup /\ Order /\ Window)
  <1>1. IInv /\ Ownership /\ Cleanup /\ Order /\ Window /\ [Next]_vars => Window'
    BY InTimeStep, BeyondStep, CommittedStep, TurnedStep, WindowBarriers, WindowUnchanged
       DEF Next, Window
  <1> QED
    BY <1>1, WindowAtFirst, AlwaysOrder, PTL DEF Spec

\* In any model, no slot holds an event that is due only after the slots have
\* wrapped around, and within an epoch no event that the slots can take waits in
\* a fallback queue: the search of the fallback queues between two epochs
\* (fallback_check, queue.c:331) finds exactly what has become due.
THEOREM SlotsAreDue ==
  Spec => [](/\ \A o \in Objects, s \in Slots : \A e \in ToSet(queue[o][s]) : Time(e) < current_max_limit
             /\ InEpoch => \A t \in Threads : \A e \in ToSet(fallback_queue[t]) :
                   Time(e) >= current_max_limit)
  <1>1. IInv /\ Ownership /\ Window =>
            /\ \A o \in Objects, s \in Slots : \A e \in ToSet(queue[o][s]) : Time(e) < current_max_limit
            /\ InEpoch => \A t \in Threads : \A e \in ToSet(fallback_queue[t]) :
                  Time(e) >= current_max_limit
    <2>1. InEpoch /\ Ownership => AllIn(Running)
      BY OnePhase DEF InEpoch, Running
    <2> QED
      BY <2>1 DEF Window, InTime, Beyond, Searched
  <1> QED
    BY <1>1, AlwaysWindow, PTL

-----------------------------------------------------------------------------
(* Feed-forward models: no rollback is left at the end of an epoch *)

\* Of the events of an epoch, none is left in a slot when it is over.
Over == AllIn(Closing) \/ \E u \in Threads : pc[u] = "update"

\* Nothing is left behind.
Lower ==
    /\ \A o \in Objects, s \in Slots : \A e \in ToSet(queue[o][s]) :
          Time(e) >= current_min_limit /\ (Over => Time(e) >= EpochLimit)
    /\ AllIn(Running) =>
          \A o \in Objects : \A e \in ToSet(retractable_queue[o]) : Time(e) >= current_min_limit
    /\ \A t \in Threads : pc[t] \in {"copy", "process"} => Time(event[t][1]) >= current_min_limit

\* An execution sends what its event schedules.
SendsNext ==
    \A t \in Threads : pc[t] = "process" => ToSet(outbox[t]) \subseteq ToSet(model.next[event[t][1].kind])

Sender(o) == \E k, l \in Kinds : Within(k, l) /\ model.dest[k] = o
Receiver(o) == \E k, l \in Kinds : Within(k, l) /\ model.dest[l] = o

\* Who logs a send is a sender, who must roll back is a receiver.
Roles ==
    \A o \in Objects : /\ log_queue[o] # <<>> => Sender(o)
                       /\ speculation[o].standing_rollback \/ RollingBack(o) => Receiver(o)

\* Who must roll back is in somebody's hands, and stays there.
Served ==
    \A o \in Objects : speculation[o].standing_rollback =>
        speculation[o].the_state = "BUSY" /\ HasWork(o)

Coming(o) == \E t \in Threads : pc[t] = "take" /\ target[t] = o

\* An object with events is in somebody's hands or will be.
Attended ==
    AllIn(Running) => \A o \in Objects :
        HasWork(o) => speculation[o].the_state = "BUSY" \/ object_identifiers <= o \/ Coming(o)

\* An object whose turn has passed has been taken.
Taken ==
    /\ AllIn(Running) => \A o \in Objects :
          \/ object_identifiers <= o \/ speculation[o].already_taken
          \/ speculation[o].the_state = "BUSY" \/ Coming(o)
    /\ \A t \in Threads, o \in Objects : Runs(t, o) => speculation[o].already_taken

\* The dispenser of an epoch.
Dispensed ==
    /\ \A t \in Threads : pc[t] = "quiet" => object_identifiers = OBJECTS
    /\ AllIn(Starting) \/ AllIn(Crossing) => object_identifiers = 0
    /\ AllIn(Turning) /\ (\A t \in Threads : pc[t] # "update") => object_identifiers = 0

\* What SendNow does to the receiver d.
LEMMA SendNowStatus ==
  ASSUME IInv, NEW t \in Threads, SendNow(t)
  PROVE  LET d == model.dest[NextSend(t)]
             s == speculation[d]
             r == speculation'[d]
         IN  /\ d \in Objects /\ \A p \in Objects \ {d} : speculation'[p] = speculation[p]
             /\ r.already_taken = s.already_taken
             /\ s.the_state = "BUSY" => r.the_state = "BUSY"
             /\ s.standing_rollback => r.standing_rollback
             /\ \/ r.standing_rollback /\ (s.standing_rollback \/ r.the_state = "BUSY")
                \/ /\ r.standing_rollback = s.standing_rollback
                   /\ s.already_taken => r.the_state = "BUSY"
  <1> DEFINE d == model.dest[NextSend(t)]
             time == model.time[NextSend(t)]
             straggler == IsStraggler(d, time)
             free == speculation[d].the_state = "FREE"
             s == IF straggler THEN Violated(speculation[d], time) ELSE speculation[d]
             preempt == straggler /\ free /\ ~speculation[d].standing_rollback
             adopt == ~straggler /\ free /\ speculation[d].already_taken
  <1>1. d \in Objects /\ time \in Nat
    BY SendNowEffect
  <1>2. speculation[d] \in Statuses
    BY <1>1 DEF IInv, ObjectTypes
  <1>3. /\ s \in Statuses /\ s.the_state = speculation[d].the_state
        /\ s.already_taken = speculation[d].already_taken
        /\ IF straggler THEN s.standing_rollback
           ELSE s.standing_rollback = speculation[d].standing_rollback
    BY <1>1, <1>2 DEF Violated, Statuses
  <1>4. speculation' = [speculation EXCEPT ![d] = IF preempt \/ adopt THEN Claimed(s, t) ELSE s]
    BY DEF SendNow
  <1> HIDE DEF s, straggler
  <1>5. /\ \A p \in Objects \ {d} : speculation'[p] = speculation[p]
        /\ speculation'[d] = IF preempt \/ adopt THEN Claimed(s, t) ELSE s
    BY <1>1, <1>4 DEF IInv, ObjectTypes
  <1>6. /\ speculation'[d].already_taken = s.already_taken
        /\ speculation'[d].standing_rollback = s.standing_rollback
        /\ speculation'[d].the_state = IF preempt \/ adopt THEN "BUSY" ELSE s.the_state
    BY <1>3, <1>5 DEF Claimed, Statuses
  <1>7. speculation[d].the_state \in {"FREE", "BUSY"} /\ speculation[d].standing_rollback \in BOOLEAN
        /\ speculation[d].already_taken \in BOOLEAN /\ speculation'[d].standing_rollback \in BOOLEAN
    BY <1>2, <1>3, <1>6 DEF Statuses
  <1> QED
    BY <1>1, <1>3, <1>5, <1>6, <1>7

\* What a step does to the status of an object.
LEMMA StatusMoves ==
  ASSUME IInv, NEW t \in Threads, Step(t), NEW o \in Objects
  PROVE  LET s == speculation[o]
             r == speculation'[o]
         IN  \/ /\ r.the_state = s.the_state /\ r.standing_rollback = s.standing_rollback
                /\ r.already_taken = s.already_taken
             \/ /\ Take(t) /\ o = target[t] /\ r.the_state = "BUSY" /\ ~r.standing_rollback
                /\ r.already_taken
             \/ /\ Release(t) /\ o = target[t] /\ r.standing_rollback = s.standing_rollback
                /\ r.already_taken = s.already_taken
             \/ SendNow(t) /\ o = model.dest[NextSend(t)]
             \/ Annihilate(t)
             \/ Flush(t) /\ ~r.standing_rollback
  <1>1. speculation[o] \in Statuses /\ speculation \in [Objects -> Statuses]
    BY DEF IInv, ObjectTypes
  <1>2. CASE Take(t)
    BY <1>2, TakeStatus
  <1>3. CASE Release(t)
    <2>1. speculation' = [speculation EXCEPT ![target[t]] = Released(speculation[target[t]])]
          /\ target[t] \in Objects
      BY <1>3 DEF Release, IInv, Held, Holds
    <2> QED
      BY <1>1, <1>3, <2>1 DEF Released, Statuses
  <1>4. CASE Extract(t)
    <2>1. \E time : speculation' = [speculation EXCEPT ![target[t]].current_time = time]
      BY <1>4 DEF Extract
    <2> QED
      BY <1>1, <2>1 DEF Statuses
  <1>5. CASE SendNow(t)
    BY <1>5, SendNowStatus
  <1>6. CASE Flush(t)
    <2> DEFINE p == shadow_object_identifiers
    <2>1. speculation' = [speculation EXCEPT ![p] =
              [Released(speculation[p]) EXCEPT !.causality_violation_time = 0, !.standing_rollback = FALSE,
                                               !.already_taken = FALSE]]
      BY <1>6 DEF Flush
    <2>2. speculation[p] \in Statuses => Released(speculation[p]) \in Statuses
      BY ReleasedType
    <2> QED
      BY <1>1, <1>6, <2>1, <2>2 DEF Statuses
  <1>7. CASE ~(Take(t) \/ Release(t) \/ Extract(t) \/ SendNow(t) \/ Flush(t) \/ Annihilate(t))
    <2>1. speculation' = speculation
      BY <1>7 DEF Step, InitObject, InitSend, InitDone, GetEvent, Dispense, Finish, TakenByOther,
           Restore, Reinsert, Keep, Redo, Process, ReadFreed, SendFiltered, SendLater, Retract,
           Commit, Checkpoint, FlushDone, UpdateTiming, FallbackInsert, FallbackDone, objects
    <2> QED
      BY <2>1
  <1> QED
    BY <1>2, <1>3, <1>4, <1>5, <1>6, <1>7

\* The events of an epoch have its number.
LEMMA EpochOf ==
  ASSUME epochs \in Nat, NEW n \in Nat, current_min_limit <= n, n < EpochLimit
  PROVE  n \div LOOKAHEAD = epochs
  <1> DEFINE k == n \div LOOKAHEAD
             r == n % LOOKAHEAD
  <1>1. LOOKAHEAD \in Nat \ {0}
    BY ConstantsAssumption
  <1>2. k \in Nat /\ r \in 0..(LOOKAHEAD - 1) /\ n = LOOKAHEAD * k + r
    BY <1>1, Division
  <1>3. LOOKAHEAD * epochs <= n /\ n < LOOKAHEAD * epochs + LOOKAHEAD /\ LOOKAHEAD * epochs \in Nat
    BY <1>1 DEF current_min_limit, EpochLimit
  <1> HIDE DEF k, r
  <1>4. ~(k + 1 <= epochs)
    <2>1. k + 1 <= epochs => LOOKAHEAD * (k + 1) <= LOOKAHEAD * epochs
      BY <1>1, <1>2, ProductMonotonic
    <2>2. LOOKAHEAD * (k + 1) = LOOKAHEAD * k + LOOKAHEAD * 1 /\ LOOKAHEAD * 1 = LOOKAHEAD
          /\ LOOKAHEAD * k \in Nat
      BY <1>1, <1>2, Product
    <2> QED
      BY <1>1, <1>2, <1>3, <2>1, <2>2
  <1>5. ~(epochs + 1 <= k)
    <2>1. epochs + 1 <= k => LOOKAHEAD * (epochs + 1) <= LOOKAHEAD * k
      BY <1>1, <1>2, ProductMonotonic
    <2>2. LOOKAHEAD * (epochs + 1) = LOOKAHEAD * epochs + LOOKAHEAD * 1 /\ LOOKAHEAD * 1 = LOOKAHEAD
          /\ LOOKAHEAD * k \in Nat
      BY <1>1, <1>2, Product
    <2> QED
      BY <1>1, <1>2, <1>3, <2>1, <2>2
  <1> QED
    BY <1>2, <1>4, <1>5 DEF k

Feeding == Lower /\ SendsNext /\ Roles /\ Served /\ Attended /\ Taken /\ Dispensed

\* How a thread comes to execute an event.
LEMMA IntoExecution ==
  ASSUME IInv, NEW t \in Threads, Step(t), pc'[t] \in {"copy", "process"}
  PROVE  \/ Extract(t) /\ pc'[t] = "copy"
         \/ ReadFreed(t) /\ UNCHANGED <<pc, target, current, event, outbox>>
         \/ Process(t) \/ SendFiltered(t) \/ SendLater(t) \/ SendNow(t)
  <1>1. CASE GetEvent(t) \/ Dispense(t) \/ Release(t)
    BY <1>1, ResumeStack DEF GetEvent, Dispense, Release, IInv, ThreadTypes, Goto, Labels
  <1>2. CASE InitObject(t) \/ InitSend(t) \/ InitDone(t) \/ Finish(t) \/ Take(t) \/ TakenByOther(t)
             \/ Restore(t) \/ Annihilate(t) \/ Reinsert(t) \/ Keep(t) \/ Redo(t) \/ Retract(t)
             \/ Flush(t) \/ Commit(t) \/ Checkpoint(t) \/ FlushDone(t) \/ UpdateTiming(t)
             \/ FallbackInsert(t) \/ FallbackDone(t)
    BY <1>2 DEF IInv, ThreadTypes, Goto, InitObject, InitSend, InitDone, Finish, Take,
       TakenByOther, Restore, Annihilate, Reinsert, Keep, Redo, Retract, Flush, Commit,
       Checkpoint, FlushDone, UpdateTiming, FallbackInsert, FallbackDone, locals
  <1>3. CASE ReadFreed(t)
    BY <1>3 DEF ReadFreed, locals
  <1>4. CASE Extract(t)
    BY <1>4 DEF Extract, Goto, IInv, ThreadTypes
  <1> QED
    BY <1>1, <1>2, <1>3, <1>4 DEF Step

LEMMA SendsNextStep ==
  ASSUME IInv, SendsNext, NEW t \in Threads, Step(t)
  PROVE  SendsNext'
  <1> SUFFICES ASSUME NEW u \in Threads, pc'[u] = "process"
               PROVE  ToSet(outbox'[u]) \subseteq ToSet(model.next[event'[u][1].kind])
    BY LimitsMove DEF SendsNext
  <1>1. CASE u # t
    BY <1>1, OneMoves DEF OthersStay, SendsNext
  <1>2. CASE u = t
    <2>1. CASE Process(t)
      <3>1. event'[t] = event[t] /\ outbox'[t] = model.next[event[t][1].kind]
        BY <1>2, <2>1, SendMoves DEF Process, Continue, IInv, ThreadTypes
      <3> QED
        BY <1>2, <3>1
    <2>2. CASE SendFiltered(t) \/ SendLater(t) \/ SendNow(t)
      <3>1. pc[t] = "process" /\ event'[t] = event[t] /\ outbox'[t] = Tail(outbox[t])
        BY <1>2, <2>2, SendMoves DEF SendFiltered, SendLater, SendNow, Continue, IInv, ThreadTypes
      <3>2. outbox[t] \in Seq(Kinds) /\ outbox[t] # <<>>
        BY <3>1 DEF IInv, Held, Holds, ThreadTypes
      <3>3. ToSet(Tail(outbox[t])) \subseteq ToSet(outbox[t])
        BY <3>2, EndsElements
      <3> QED
        BY <1>2, <3>1, <3>3 DEF SendsNext
    <2>3. CASE ReadFreed(t) /\ UNCHANGED <<pc, target, current, event, outbox>>
      BY <1>2, <2>3 DEF ReadFreed
    <2> QED
      BY <1>2, <2>1, <2>2, <2>3, IntoExecution
  <1> QED
    BY <1>1, <1>2

\* How a thread comes to run an object.
LEMMA RunsMoves ==
  ASSUME IInv, NEW t \in Threads, Step(t), NEW u \in Threads, NEW o \in Objects, Runs(u, o)'
  PROVE  Runs(u, o) \/ (Take(t) /\ u = t /\ o = target[t])
  <1>1. CASE u # t
    BY <1>1, OneMoves DEF OthersStay, Runs
  <1>2. CASE u = t /\ pc'[t] \in {"copy", "process"}
    <2>1. CASE Extract(t)
      BY <1>2, <2>1 DEF Extract, Runs, Goto, IInv, ThreadTypes
    <2>2. CASE ReadFreed(t) /\ UNCHANGED <<pc, target, current, event, outbox>>
      BY <1>2, <2>2 DEF Runs
    <2>3. CASE Process(t) \/ SendFiltered(t) \/ SendLater(t) \/ SendNow(t)
      <3>1. pc[t] \in {"copy", "process"} /\ pc'[t] = "process" /\ current'[t] = Dest(event[t][1])
        BY <1>2, <2>3, SendMoves
      <3> QED
        BY <1>2, <3>1, Executes DEF Runs
    <2> QED
      BY <1>2, <2>1, <2>2, <2>3, IntoExecution
  <1>3. CASE u = t /\ pc'[t] \in {"restore", "undo", "check", "extract"}
    <2>1. CASE GetEvent(t) \/ Dispense(t) \/ Release(t)
      BY <1>3, <2>1, ResumeStack DEF GetEvent, Dispense, Release, IInv, ThreadTypes, Goto, Labels
    <2>2. CASE Take(t)
      BY <1>3, <2>2 DEF Take, Runs
    <2>3. CASE Restore(t) \/ Annihilate(t) \/ Reinsert(t) \/ Keep(t)
      BY <1>3, <2>3 DEF Restore, Annihilate, Reinsert, Keep, Runs, locals, Goto, IInv, ThreadTypes
    <2>4. CASE Process(t) \/ SendFiltered(t) \/ SendLater(t) \/ SendNow(t)
      BY <1>3, <2>4, SendMoves
    <2>5. CASE InitObject(t) \/ InitSend(t) \/ InitDone(t) \/ Finish(t) \/ TakenByOther(t)
             \/ Redo(t) \/ Extract(t) \/ ReadFreed(t) \/ Retract(t)
             \/ Flush(t) \/ Commit(t) \/ Checkpoint(t) \/ FlushDone(t) \/ UpdateTiming(t)
             \/ FallbackInsert(t) \/ FallbackDone(t)
      BY <1>3, <2>5 DEF IInv, ThreadTypes, Goto, InitObject, InitSend, InitDone, Finish,
         TakenByOther, Redo, Extract, ReadFreed, Retract, Flush, Commit,
         Checkpoint, FlushDone, UpdateTiming, FallbackInsert, FallbackDone, locals
    <2> QED
      BY <2>1, <2>2, <2>3, <2>4, <2>5 DEF Step
  <1> QED
    BY <1>1, <1>2, <1>3 DEF Runs

\* How the dispenser of the epoch moves.
LEMMA DispenserMoves ==
  ASSUME IInv, NEW t \in Threads, Step(t)
  PROVE  \/ object_identifiers' = object_identifiers
         \/ UpdateTiming(t) /\ object_identifiers' = 0
         \/ /\ Dispense(t) /\ object_identifiers < OBJECTS
            /\ object_identifiers' = object_identifiers + 1
            /\ pc'[t] = "take" /\ target'[t] = object_identifiers
  <1>1. CASE Dispense(t)
    BY <1>1 DEF Dispense, IInv, ThreadTypes, Goto
  <1>2. CASE UpdateTiming(t)
    BY <1>2 DEF UpdateTiming
  <1>3. CASE ~Dispense(t) /\ ~UpdateTiming(t)
    BY <1>3 DEF Step, InitObject, InitSend, InitDone, GetEvent, Finish, Take, TakenByOther,
           Restore, Annihilate, Reinsert, Release, Keep, Redo, Extract, Process, ReadFreed,
           SendFiltered, SendLater, SendNow, Retract, Flush, Commit, Checkpoint, FlushDone,
           FallbackInsert, FallbackDone, dispensers
  <1> QED
    BY <1>1, <1>2, <1>3

LEMMA DispensedStep ==
  ASSUME IInv, Ownership, Window, Dispensed, NEW t \in Threads, Step(t)
  PROVE  Dispensed'
  <1>0. object_identifiers \in 0..OBJECTS /\ OBJECTS \in Nat
    BY ConstantsAssumption DEF IInv, CounterTypes
  <1>1. PhasesStay /\ OthersStay(t)
    BY PhaseEnds DEF Window
  <1>2. ASSUME NEW u \in Threads, pc'[u] = "quiet" PROVE object_identifiers' = OBJECTS
    <2>1. CASE pc[u] = "quiet"
      <3>1. ~UpdateTiming(t)
        BY <2>1, OnePhase DEF UpdateTiming, AllIn, Running
      <3> QED
        BY <1>0, <2>1, <3>1, DispenserMoves DEF Dispensed
    <2>2. CASE pc[u] # "quiet"
      <3>1. u = t
        BY <1>1, <1>2, <2>2 DEF OthersStay
      <3>2. CASE Dispense(t)
        <4>1. CASE object_identifiers < OBJECTS
          <5>1. pc'[t] = "take"
            BY <3>2, <4>1 DEF Dispense, Goto, IInv, ThreadTypes
          <5> QED
            BY <1>2, <3>1, <5>1
        <4>2. CASE ~(object_identifiers < OBJECTS)
          <5>1. object_identifiers' = object_identifiers
            BY <3>2, <4>2 DEF Dispense
          <5> QED
            BY <1>0, <4>2, <5>1
        <4> QED
          BY <4>1, <4>2
      <3>3. CASE GetEvent(t) \/ Release(t)
        BY <1>2, <3>1, <3>3, ResumeStack DEF GetEvent, Release, IInv, ThreadTypes, Goto, Labels
      <3>4. CASE Process(t) \/ SendFiltered(t) \/ SendLater(t) \/ SendNow(t)
        BY <1>2, <3>1, <3>4, SendMoves
      <3>5. CASE ~(GetEvent(t) \/ Dispense(t) \/ Release(t) \/ Process(t) \/ SendFiltered(t)
                   \/ SendLater(t) \/ SendNow(t))
        BY <1>2, <2>2, <3>1, <3>5 DEF Step, IInv, ThreadTypes, Goto, InitObject, InitSend, InitDone,
              Finish, Take, TakenByOther, Restore, Annihilate, Reinsert, Keep, Redo, Extract, ReadFreed,
              Retract, Flush, Commit, Checkpoint, FlushDone, UpdateTiming, FallbackInsert,
              FallbackDone, locals
      <3> QED
        BY <3>2, <3>3, <3>4, <3>5
    <2> QED
      BY <2>1, <2>2
  <1>3. ASSUME AllIn(Starting)' \/ AllIn(Crossing)' PROVE object_identifiers' = 0
    <2>1. AllIn(Starting) \/ AllIn(Crossing)
      BY <1>1, <1>3 DEF PhasesStay
    <2>2. ~Dispense(t) /\ object_identifiers = 0
      BY <2>1 DEF Dispense, AllIn, Starting, Crossing, Dispensed
    <2> QED
      BY <2>2, DispenserMoves
  <1>4. ASSUME AllIn(Turning)', \A u \in Threads : pc'[u] # "update" PROVE object_identifiers' = 0
    <2>1. AllIn(Turning)
      BY <1>1, <1>4 DEF PhasesStay
    <2>2. UpdateTiming(t)
      BY <2>1, RunningSteps DEF AllIn
    <2> QED
      BY <2>2 DEF UpdateTiming
  <1> QED
    BY <1>2, <1>3, <1>4 DEF Dispensed

LEMMA TakenStep ==
  ASSUME IInv, Ownership, Window, Taken, Dispensed, NEW t \in Threads, Step(t), ~Annihilate(t)
  PROVE  Taken'
  <1>0. object_identifiers \in 0..OBJECTS /\ OBJECTS \in Nat /\ Objects \subseteq Nat
    BY ConstantsAssumption, ConstantTypes DEF IInv, CounterTypes
  <1>1. PhasesStay /\ OthersStay(t)
    BY PhaseEnds DEF Window
  <1>2. ASSUME NEW o \in Objects, AllIn(Running), speculation[o].already_taken
        PROVE  speculation'[o].already_taken
    <2>1. ~Flush(t)
      BY <1>2 DEF Flush, AllIn, Running
    <2> QED
      BY <1>2, <2>1, StatusMoves, SendNowStatus
  <1>3. ASSUME NEW u \in Threads, NEW o \in Objects, Runs(u, o)'
        PROVE  speculation'[o].already_taken
    <2>1. CASE Take(t) /\ o = target[t]
      BY <2>1, TakeStatus
    <2>2. CASE Runs(u, o)
      <3>1. AllIn(Running)
        BY <2>2, OnePhase DEF Runs, Running
      <3> QED
        BY <1>2, <2>2, <3>1 DEF Taken
    <2> QED
      BY <1>3, <2>1, <2>2, RunsMoves
  <1>4. ASSUME AllIn(Running)', NEW o \in Objects
        PROVE  \/ object_identifiers' <= o \/ speculation'[o].already_taken
               \/ speculation'[o].the_state = "BUSY" \/ Coming(o)'
    <2>1. AllIn(Running) /\ ~UpdateTiming(t) /\ ~Flush(t)
      BY <1>1, <1>4 DEF PhasesStay, UpdateTiming, Flush, AllIn, Running
    <2>2. CASE object_identifiers <= o
      <3>1. o = object_identifiers => Coming(o)' \/ object_identifiers' <= o
        BY <1>0, <2>1, <2>2, DispenserMoves DEF Coming
      <3>2. o # object_identifiers => object_identifiers' <= o
        BY <1>0, <2>1, <2>2, DispenserMoves
      <3> QED
        BY <3>1, <3>2
    <2>3. CASE speculation[o].already_taken
      BY <1>2, <2>1, <2>3
    <2>4. CASE speculation[o].the_state = "BUSY"
      <3>1. CASE Release(t) /\ o = target[t]
        <4>1. Runs(t, o)
          BY <3>1 DEF Release, Runs
        <4> QED
          BY <1>2, <2>1, <4>1 DEF Taken
      <3> QED
        BY <2>1, <2>4, <3>1, StatusMoves, SendNowStatus
    <2>5. CASE Coming(o)
      <3>1. PICK u \in Threads : pc[u] = "take" /\ target[u] = o
        BY <2>5 DEF Coming
      <3>2. CASE u # t
        BY <1>1, <3>1, <3>2 DEF OthersStay, Coming
      <3>3. CASE u = t
        <4>1. Take(t) \/ TakenByOther(t)
          BY <3>1, <3>3 DEF Step, InitObject, InitSend, InitDone, GetEvent, Dispense, Finish, Restore,
             Annihilate, Reinsert, Release, Keep, Redo, Extract, Process, ReadFreed, SendFiltered,
             SendLater, SendNow, Retract, Flush, Commit, Checkpoint, FlushDone, UpdateTiming,
             FallbackInsert, FallbackDone
        <4>2. CASE Take(t)
          BY <3>1, <3>3, <4>2, TakeStatus
        <4>3. CASE TakenByOther(t)
          <5>1. speculation' = speculation /\ ~Mine(t, o)
            BY <3>1, <3>3, <4>3 DEF TakenByOther, objects
          <5>2. speculation[o].the_state = "BUSY"
            BY <5>1 DEF Mine, IInv, ObjectTypes, Statuses
          <5> QED
            BY <5>1, <5>2
        <4> QED
          BY <4>1, <4>2, <4>3
      <3> QED
        BY <3>2, <3>3
    <2> QED
      BY <2>1, <2>2, <2>3, <2>4, <2>5 DEF Taken
  <1> QED
    BY <1>3, <1>4 DEF Taken

\* In a feed-forward model, an object that must roll back has sent nothing.
LEMMA NothingToUndo ==
  ASSUME IInv, FeedForward, Roles, NEW t \in Threads, pc[t] = "undo"
  PROVE  log_queue[target[t]] = <<>> /\ ~Annihilate(t)
  <1>1. target[t] \in Objects /\ RollingBack(target[t])
    BY DEF RollingBack, IInv, Held, Holds
  <1>2. Receiver(target[t]) /\ (log_queue[target[t]] # <<>> => Sender(target[t]))
    BY <1>1 DEF Roles
  <1>3. log_queue[target[t]] = <<>>
    BY <1>2 DEF FeedForward, Receiver, Sender
  <1> QED
    BY <1>3 DEF Annihilate, MustUndo

\* A new send of the epoch.
LEMMA SentNow ==
  ASSUME IInv, Lower, Window, SendsNext, NEW t \in Threads, SendNow(t)
  PROVE  /\ Within(event[t][1].kind, NextSend(t)) /\ event[t][1].kind \in Kinds /\ NextSend(t) \in Kinds
         /\ model.dest[event[t][1].kind] = current[t]
         /\ \E d \in Objects : d = model.dest[NextSend(t)] /\ HasWork(d)'
         /\ \A o \in Objects, s \in Slots : o # model.dest[NextSend(t)] => queue'[o][s] = queue[o][s]
         /\ \A o \in Objects, s \in Slots : queue[o][s] # <<>> => queue'[o][s] # <<>>
  <1> DEFINE k == event[t][1].kind
             l == NextSend(t)
  <1>1. pc[t] = "process" /\ model.time[l] \in Nat /\ ~Suppressed(t) /\ model.time[l] < EpochLimit
        /\ model.dest[l] \in Objects
    BY SendNowEffect
  <1>2. /\ k \in Kinds /\ l \in Kinds /\ Time(event[t][1]) = model.time[k] /\ model.time[k] \in Nat
        /\ Dest(event[t][1]) = model.dest[k] /\ current[t] = Dest(event[t][1])
    BY <1>1, Executes DEF Time, Dest
  <1>3. l \in ToSet(model.next[k])
    <2>1. outbox[t] \in Seq(Kinds) /\ outbox[t] # <<>>
      BY <1>1 DEF IInv, Held, Holds, ThreadTypes
    <2>2. l \in ToSet(outbox[t])
      BY <2>1, EndsElements DEF NextSend
    <2>3. ToSet(outbox[t]) \subseteq ToSet(model.next[k])
      BY <1>1 DEF SendsNext
    <2> QED
      BY <2>2, <2>3
  <1>4. current_min_limit <= model.time[l] /\ current_min_limit \in Nat /\ epochs \in Nat
    BY <1>1, TimeTypes DEF Suppressed, IInv, CounterTypes
  <1>5. current_min_limit <= model.time[k] /\ model.time[k] < EpochLimit
    BY <1>1, <1>2, <1>4 DEF Lower, Window, InTime
  <1>6. model.time[k] \div LOOKAHEAD = model.time[l] \div LOOKAHEAD
    BY <1>1, <1>2, <1>4, <1>5, EpochOf
  <1>7. PICK c \in Copies : /\ [kind |-> l, copy |-> c] \in Events
                            /\ Insert([kind |-> l, copy |-> c])
    BY SendNowEffect
  <1> DEFINE e == [kind |-> l, copy |-> c]
             d == model.dest[l]
  <1>8. Dest(e) = d /\ Time(e) = model.time[l] /\ UNCHANGED <<model, epochs>>
    BY DEF Dest, Time, SendNow
  <1>9. SlotOf(e) = current_index /\ current_index' = current_index /\ current_index \in Slots
    BY <1>1, <1>4, <1>8, SlotOfEpoch, TimeTypes DEF current_index, IInv
  <1> HIDE DEF e
  <1>10. e \in Events /\ Insert(e)
    BY <1>7 DEF e
  <1>11. /\ ToSet(queue'[d][current_index]) = ToSet(queue[d][current_index]) \cup {e}
         /\ \A o \in Objects, s \in Slots :
               o # d \/ s # current_index => queue'[o][s] = queue[o][s]
    BY <1>1, <1>8, <1>9, <1>10, InsertInto
  <1>12. queue'[d][current_index] # <<>>
    BY <1>11, EmptyElements
  <1>13. Within(k, l)
    BY <1>3, <1>6 DEF Within
  <1>14. \A o \in Objects : o = d => HasWork(o)'
    BY <1>9, <1>12 DEF HasWork
  <1>15. ASSUME NEW o \in Objects, NEW s \in Slots, queue[o][s] # <<>> PROVE queue'[o][s] # <<>>
    <2>1. CASE o = d /\ s = current_index
      BY <1>12, <2>1
    <2>2. CASE o # d \/ s # current_index
      BY <1>11, <1>15, <2>2
    <2> QED
      BY <2>1, <2>2
  <1> QED
    BY <1>1, <1>2, <1>11, <1>13, <1>14, <1>15

\* How the queue of the epoch gets its first event, and loses its last one.
LEMMA WorkMoves ==
  ASSUME IInv, FeedForward, Feeding, Window, NEW t \in Threads, Step(t), pc[t] \in Running, NEW o \in Objects
  PROVE  /\ HasWork(o)' => \/ HasWork(o)
                           \/ Reinsert(t) /\ o = target[t]
                           \/ SendNow(t) /\ o = model.dest[NextSend(t)]
         /\ HasWork(o) => HasWork(o)' \/ (Extract(t) /\ o = target[t])
  <1>0. /\ current_index' = current_index /\ current_index \in Slots /\ ModelOK
        /\ queue \in [Objects -> [Slots -> Seq(Events)]] /\ queue[o][current_index] \in Seq(Events)
        /\ retractable_queue[o] \in Seq(Events)
    BY LimitsMove, TimeTypes DEF IInv, Lists, QueueTypes, UpdateTiming, Running
  <1>1. CASE ListsKept(t) \/ Restore(t) \/ SendLater(t)
    <2>1. queue' = queue
      BY <1>1, NoListMoves DEF Restore, SendLater
    <2> QED
      BY <1>0, <2>1 DEF HasWork
  <1>2. CASE SendNow(t)
    <2>1. /\ \A s \in Slots : o # model.dest[NextSend(t)] => queue'[o][s] = queue[o][s]
          /\ \A s \in Slots : queue[o][s] # <<>> => queue'[o][s] # <<>>
      BY <1>2, SentNow DEF Feeding
    <2> QED
      BY <1>0, <1>2, <2>1 DEF HasWork
  <1>3. CASE Annihilate(t)
    BY <1>3, NothingToUndo DEF Annihilate, Feeding
  <1>4. CASE Reinsert(t)
    <2>1. /\ target[t] \in Objects
          /\ queue' = [queue EXCEPT ![target[t]][current_index] =
                InTimeOrder(queue[target[t]][current_index] \o retractable_queue[target[t]])]
      BY <1>4 DEF Reinsert, IInv, Held, Holds
    <2>2. CASE o # target[t]
      <3>1. queue'[o] = queue[o]
        BY <1>0, <2>1, <2>2
      <3> QED
        BY <1>0, <3>1 DEF HasWork
    <2>3. CASE o = target[t]
      <3> DEFINE q == queue[o][current_index] \o retractable_queue[o]
      <3>1. queue'[o][current_index] = InTimeOrder(q)
        BY <1>0, <2>1, <2>3
      <3>2. q \in Seq(Events) /\ ToSet(q) = ToSet(queue[o][current_index]) \cup ToSet(retractable_queue[o])
        BY <1>0, ConcatElements
      <3> HIDE DEF q
      <3>3. ToSet(InTimeOrder(q)) = ToSet(q)
        BY <1>0, <3>2, Ordered
      <3>4. queue[o][current_index] # <<>> => ToSet(queue[o][current_index]) # {}
        BY <1>0, EndsElements
      <3>5. queue[o][current_index] # <<>> => queue'[o][current_index] # <<>>
        BY <3>1, <3>2, <3>3, <3>4, EmptyElements
      <3> QED
        BY <1>0, <1>4, <2>3, <3>5 DEF HasWork
    <2> QED
      BY <2>2, <2>3
  <1>5. CASE Extract(t)
    <2>1. target[t] \in Objects /\ HasWork(target[t])
          /\ queue' = [queue EXCEPT ![target[t]][current_index] = Tail(queue[target[t]][current_index])]
      BY <1>5 DEF Extract, IInv, Held, Holds
    <2>2. o # target[t] => queue'[o] = queue[o]
      BY <1>0, <2>1
    <2> QED
      BY <1>0, <1>5, <2>1, <2>2 DEF HasWork
  <1> QED
    BY <1>1, <1>2, <1>3, <1>4, <1>5, RunningSteps DEF ListsKept

LEMMA AttendedStep ==
  ASSUME IInv, Ownership, Window, FeedForward, Feeding, NEW t \in Threads, Step(t)
  PROVE  Attended'
  <1> SUFFICES ASSUME AllIn(Running)', NEW o \in Objects, HasWork(o)'
               PROVE  \/ speculation'[o].the_state = "BUSY" \/ object_identifiers' <= o \/ Coming(o)'
    BY DEF Attended
  <1>0. object_identifiers \in 0..OBJECTS /\ OBJECTS \in Nat /\ Objects \subseteq Nat
    BY ConstantsAssumption, ConstantTypes DEF IInv, CounterTypes
  <1>1. PhasesStay /\ OthersStay(t)
    BY PhaseEnds DEF Window
  <1>2. AllIn(Running) /\ pc[t] \in Running /\ ~UpdateTiming(t) /\ ~Flush(t) /\ ~Annihilate(t)
    BY <1>1, NothingToUndo DEF PhasesStay, UpdateTiming, Flush, Annihilate, AllIn, Running, Feeding
  <1>3. CASE speculation[o].the_state = "BUSY"
    <2>1. CASE Release(t) /\ o = target[t]
      <3>1. ~HasWork(o) /\ queue' = queue /\ current_index' = current_index
        BY <1>2, <2>1, LimitsMove DEF Release, queues
      <3> QED
        BY <3>1 DEF HasWork
    <2> QED
      BY <1>2, <1>3, <2>1, StatusMoves, SendNowStatus
  <1>4. CASE object_identifiers <= o
    BY <1>0, <1>2, <1>4, DispenserMoves DEF Coming
  <1>5. CASE Coming(o)
    <2>1. PICK u \in Threads : pc[u] = "take" /\ target[u] = o
      BY <1>5 DEF Coming
    <2>2. CASE u # t
      BY <1>1, <2>1, <2>2 DEF OthersStay, Coming
    <2>3. CASE u = t
      <3>1. Take(t) \/ TakenByOther(t)
        BY <2>1, <2>3 DEF Step, InitObject, InitSend, InitDone, GetEvent, Dispense, Finish, Restore,
             Annihilate, Reinsert, Release, Keep, Redo, Extract, Process, ReadFreed, SendFiltered,
             SendLater, SendNow, Retract, Flush, Commit, Checkpoint, FlushDone, UpdateTiming,
             FallbackInsert, FallbackDone
      <3>2. CASE Take(t)
        BY <2>1, <2>3, <3>2, TakeStatus
      <3>3. CASE TakenByOther(t)
        <4>1. speculation' = speculation /\ ~Mine(t, o)
          BY <2>1, <2>3, <3>3 DEF TakenByOther, objects
        <4>2. speculation[o].the_state = "BUSY"
          BY <4>1 DEF Mine, IInv, ObjectTypes, Statuses
        <4> QED
          BY <4>1, <4>2
      <3> QED
        BY <3>1, <3>2, <3>3
    <2> QED
      BY <2>2, <2>3
  <1>6. CASE ~HasWork(o) /\ Reinsert(t) /\ o = target[t]
    BY <1>6 DEF Reinsert, objects, IInv, RunnerOwns, Runs
  <1>7. CASE SendNow(t) /\ o = model.dest[NextSend(t)] /\ speculation[o].the_state # "BUSY"
             /\ ~(object_identifiers <= o) /\ ~Coming(o)
    <2>1. speculation[o].already_taken /\ ~speculation[o].standing_rollback
      BY <1>2, <1>7 DEF Feeding, Taken, Served
    <2> QED
      BY <1>7, <2>1, SendNowStatus
  <1> QED
    BY <1>2, <1>3, <1>4, <1>5, <1>6, <1>7, WorkMoves DEF Feeding, Attended

LEMMA ServedStep ==
  ASSUME IInv, Ownership, Window, FeedForward, Feeding, NEW t \in Threads, Step(t)
  PROVE  Served'
  <1> SUFFICES ASSUME NEW o \in Objects, speculation'[o].standing_rollback
               PROVE  speculation'[o].the_state = "BUSY" /\ HasWork(o)'
    BY DEF Served
  <1>0. ~Annihilate(t) /\ ~(Take(t) /\ o = target[t])
    BY NothingToUndo, TakeStatus DEF Annihilate, Feeding
  <1>1. CASE speculation[o].standing_rollback
    <2>1. speculation[o].the_state = "BUSY" /\ HasWork(o)
      BY <1>1 DEF Feeding, Served
    <2>2. AllIn(Running) /\ pc[t] \in Running
      BY <2>1 DEF Ownership, NoneBusy, AllIn
    <2>3. HasWork(o)'
      BY <1>1, <2>1, <2>2, WorkMoves DEF Extract
    <2>4. ~(Release(t) /\ o = target[t])
      BY <2>1 DEF Release
    <2>5. ~Flush(t)
      BY <2>2 DEF Flush, Running
    <2> QED
      BY <1>0, <2>1, <2>3, <2>4, <2>5, StatusMoves, SendNowStatus
  <1>2. CASE ~speculation[o].standing_rollback
    <2>1. SendNow(t) /\ o = model.dest[NextSend(t)]
      BY <1>0, <1>2, StatusMoves
    <2>2. speculation'[o].the_state = "BUSY"
      BY <1>2, <2>1, SendNowStatus
    <2> QED
      BY <2>1, <2>2, SentNow DEF Feeding
  <1> QED
    BY <1>1, <1>2

LEMMA RolesStep ==
  ASSUME IInv, Window, FeedForward, Feeding, NEW t \in Threads, Step(t)
  PROVE  Roles'
  <1>0. model' = model /\ ~Annihilate(t) /\ OthersStay(t)
    BY LimitsMove, NothingToUndo, OneMoves DEF Annihilate, Feeding
  <1>1. \A o \in Objects : (Sender(o)' <=> Sender(o)) /\ (Receiver(o)' <=> Receiver(o))
    BY <1>0 DEF Sender, Receiver, Within
  <1>2. ASSUME NEW o \in Objects, log_queue'[o] # <<>> PROVE Sender(o)
    <2>1. CASE log_queue[o] # <<>>
      BY <2>1 DEF Feeding, Roles
    <2>2. CASE log_queue[o] = <<>>
      <3>1. CASE SendNow(t)
        <4>1. PICK c \in Copies :
                log_queue' = [log_queue EXCEPT ![current[t]] = Append(log_queue[current[t]],
                   [event |-> [kind |-> NextSend(t), copy |-> c], send_time |-> Time(event[t][1])])]
          BY <3>1 DEF SendNow
        <4>2. log_queue'[o] = log_queue[o] \/ o = current[t]
          BY <4>1 DEF IInv, Lists, QueueTypes
        <4> QED
          BY <1>2, <2>2, <3>1, <4>2, SentNow DEF Feeding, Sender
      <3>2. CASE ~SendNow(t)
        <4>1. log_queue'[o] = log_queue[o] \/ log_queue'[o] = <<>>
          BY <1>0, <3>2 DEF Step, InitObject, InitSend, InitDone, GetEvent, Dispense, Finish, Take,
             TakenByOther, Restore, Reinsert, Release, Keep, Redo, Extract, Process, ReadFreed,
             SendFiltered, SendLater, Retract, Flush, Commit, Checkpoint, FlushDone, UpdateTiming,
             FallbackInsert, FallbackDone, queues, IInv, Lists, QueueTypes
        <4> QED
          BY <1>2, <2>2, <4>1
      <3> QED
        BY <3>1, <3>2
    <2> QED
      BY <2>1, <2>2
  <1>3. ASSUME NEW o \in Objects, speculation'[o].standing_rollback PROVE Receiver(o)
    <2>1. CASE speculation[o].standing_rollback
      BY <2>1 DEF Feeding, Roles
    <2>2. CASE ~speculation[o].standing_rollback
      <3>1. SendNow(t) /\ o = model.dest[NextSend(t)]
        BY <1>0, <1>3, <2>2, StatusMoves
      <3> QED
        BY <3>1, SentNow DEF Feeding, Receiver
    <2> QED
      BY <2>1, <2>2
  <1>4. ASSUME NEW o \in Objects, RollingBack(o)' PROVE Receiver(o)
    <2>1. PICK u \in Threads : pc'[u] \in {"restore", "undo"} /\ target'[u] = o
      BY <1>4 DEF RollingBack
    <2>2. CASE RollingBack(o)
      BY <2>2 DEF Feeding, Roles
    <2>3. CASE ~RollingBack(o)
      <3>1. u = t /\ ~(pc[t] \in {"restore", "undo"} /\ target[t] = o)
        BY <1>0, <2>1, <2>3 DEF OthersStay, RollingBack
      <3>2. CASE Take(t)
        <4>1. speculation[o].standing_rollback
          BY <2>1, <3>1, <3>2, TakeStatus DEF Take
        <4> QED
          BY <4>1 DEF Feeding, Roles
      <3>3. CASE GetEvent(t) \/ Dispense(t) \/ Release(t)
        BY <2>1, <3>1, <3>3, ResumeStack DEF GetEvent, Dispense, Release, IInv, ThreadTypes, Goto, Labels
      <3>4. CASE Process(t) \/ SendFiltered(t) \/ SendLater(t) \/ SendNow(t)
        BY <2>1, <3>1, <3>4, SendMoves
      <3>5. CASE ~(Take(t) \/ GetEvent(t) \/ Dispense(t) \/ Release(t) \/ Process(t) \/ SendFiltered(t)
                   \/ SendLater(t) \/ SendNow(t))
        BY <1>0, <2>1, <3>1, <3>5 DEF Step, IInv, ThreadTypes, Goto, InitObject, InitSend, InitDone,
              Finish, TakenByOther, Restore, Reinsert, Keep, Redo, Extract, ReadFreed,
              Retract, Flush, Commit, Checkpoint, FlushDone, UpdateTiming, FallbackInsert,
              FallbackDone, locals
      <3> QED
        BY <3>2, <3>3, <3>4, <3>5
    <2> QED
      BY <2>2, <2>3
  <1> QED
    BY <1>1, <1>2, <1>3, <1>4 DEF Roles

LEMMA LowerStep ==
  ASSUME IInv, Ownership, Window, Lower, NEW t \in Threads, Step(t)
  PROVE  Lower'
  <1>1. /\ model' = model /\ \A e : Time(e)' = Time(e)
        /\ current_min_limit \in Nat /\ EpochLimit \in Nat /\ current_min_limit <= EpochLimit
        /\ EpochLimit <= current_max_limit /\ current_max_limit \in Nat
        /\ \/ /\ ~UpdateTiming(t) /\ current_min_limit' = current_min_limit /\ EpochLimit' = EpochLimit
           \/ UpdateTiming(t) /\ current_min_limit' = EpochLimit
    BY LimitsMove, LimitsInOrder DEF IInv
  <1>2. PhasesStay /\ OthersStay(t) /\ \A u \in Threads : pc'[u] # "update"
    BY PhaseEnds DEF Window
  <1>3. Over' => AllIn(Closing) /\ Over /\ ~UpdateTiming(t)
    BY <1>2 DEF Over, PhasesStay, UpdateTiming, AllIn, Closing
  <1>4. UpdateTiming(t) => Over /\ UNCHANGED <<queue, retractable_queue>>
    BY DEF UpdateTiming, Over, queues
  <1>5. ASSUME NEW o \in Objects, NEW s \in Slots, NEW e \in ToSet(queue'[o][s])
        PROVE  Time(e) >= current_min_limit' /\ (Over' => Time(e) >= EpochLimit')
    <2>0. Time(e) \in Nat
      BY TypesAfter
    <2>1. CASE e \in ToSet(queue[o][s])
      <3>1. Time(e) >= current_min_limit /\ (Over => Time(e) >= EpochLimit)
        BY <2>1 DEF Lower
      <3> QED
        BY <1>1, <1>3, <1>4, <3>1
    <2>2. CASE Reinsert(t) /\ e \in ToSet(retractable_queue[o])
      <3>1. AllIn(Running) /\ ~AllIn(Closing) /\ ~UpdateTiming(t)
        BY <2>2, OnePhase, PhaseDiffers DEF Reinsert, Running, UpdateTiming
      <3> QED
        BY <1>1, <1>3, <2>2, <3>1 DEF Lower
    <2>3. CASE FallbackInsert(t) /\ e \in ToSet(fallback_queue[t])
      <3>1. AllIn(Crossing) /\ ~AllIn(Closing) /\ ~UpdateTiming(t)
        BY <2>3, OnePhase, PhaseDiffers DEF FallbackInsert, Crossing, UpdateTiming
      <3> QED
        BY <1>1, <1>3, <2>3, <3>1 DEF Window, Beyond
    <2>4. CASE Commit(t) /\ \E x \in ToSet(speculation_queue[target[t]]) : e = x.event
      <3>1. target[t] \in Objects /\ ~UpdateTiming(t)
        BY <2>4 DEF Commit, IInv, Held, Holds, UpdateTiming
      <3>2. Time(e) >= EpochLimit
        BY <2>4, <3>1 DEF Window, InTime
      <3> QED
        BY <1>1, <2>0, <3>1, <3>2
    <2>5. CASE InitSend(t)
      <3>1. AllIn(Starting) /\ ~AllIn(Closing) /\ ~UpdateTiming(t)
        BY <2>5, OnePhase, PhaseDiffers DEF InitSend, Starting, UpdateTiming
      <3>2. epochs = 0
        BY <3>1 DEF Window, Turned
      <3>3. current_min_limit = 0
        BY <3>2, ConstantsAssumption DEF current_min_limit
      <3> QED
        BY <1>1, <1>3, <2>0, <3>1, <3>3
    <2>6. CASE SendNow(t) /\ current_min_limit <= Time(e)
      <3>1. AllIn(Running) /\ ~AllIn(Closing) /\ ~UpdateTiming(t)
        BY <2>6, OnePhase, PhaseDiffers DEF SendNow, Running, UpdateTiming
      <3> QED
        BY <1>1, <1>3, <2>0, <2>6, <3>1
    <2> QED
      BY <2>1, <2>2, <2>3, <2>4, <2>5, <2>6, QueueElements
  <1>6. ASSUME AllIn(Running)', NEW o \in Objects, NEW e \in ToSet(retractable_queue'[o])
        PROVE  Time(e) >= current_min_limit'
    <2>1. AllIn(Running) /\ ~UpdateTiming(t) /\ current_index \in Slots
      BY <1>2, <1>6, TimeTypes DEF PhasesStay, UpdateTiming, AllIn, Running, IInv
    <2>2. Time(e) >= current_min_limit
      BY <2>1, RetractableElements DEF Lower
    <2> QED
      BY <1>1, <2>1, <2>2
  <1>7. ASSUME NEW u \in Threads, pc'[u] \in {"copy", "process"}
        PROVE  Time(event'[u][1]) >= current_min_limit'
    <2>0. ~UpdateTiming(t)
      <3>1. AllIn(Running)'
        <4>1. u # t => pc[u] \in Running
          BY <1>2, <1>7 DEF OthersStay, Running
        <4>2. u = t => pc[u] \in Running
          BY <1>7, IntoExecution DEF Extract, ReadFreed, Process, SendFiltered, SendLater, SendNow, Running
        <4> QED
          BY <1>2, <4>1, <4>2, OnePhase DEF PhasesStay
      <3> QED
        BY <1>2, <3>1 DEF PhasesStay, UpdateTiming, AllIn, Running
    <2>1. CASE u # t
      BY <1>1, <1>2, <1>7, <2>0, <2>1 DEF OthersStay, Lower
    <2>2. CASE u = t /\ Extract(t)
      <3>1. /\ target[t] \in Objects /\ queue[target[t]][current_index] # <<>>
            /\ queue[target[t]][current_index] \in Seq(Events) /\ current_index \in Slots
            /\ event'[t][1] = Head(queue[target[t]][current_index])
        BY <2>2, TimeTypes DEF Extract, HasWork, IInv, Held, Holds, Lists, QueueTypes, ThreadTypes
      <3>2. event'[t][1] \in ToSet(queue[target[t]][current_index])
        BY <3>1, EndsElements
      <3> QED
        BY <1>1, <2>0, <2>2, <3>1, <3>2 DEF Lower
    <2>3. CASE u = t /\ (Process(t) \/ SendFiltered(t) \/ SendLater(t) \/ SendNow(t))
      BY <1>1, <1>7, <2>0, <2>3, SendMoves DEF Lower
    <2>4. CASE u = t /\ ReadFreed(t)
      BY <1>1, <1>7, <2>0, <2>4 DEF ReadFreed, locals, Lower
    <2> QED
      BY <1>7, <2>1, <2>2, <2>3, <2>4, IntoExecution
  <1> QED
    BY <1>1, <1>5, <1>6, <1>7 DEF Lower, Time

LEMMA FeedingStep ==
  ASSUME IInv, Ownership, Window, FeedForward, Feeding, NEW t \in Threads, Step(t)
  PROVE  Feeding'
  <1>1. ~Annihilate(t)
    BY NothingToUndo DEF Annihilate, Feeding
  <1> QED
    BY <1>1, LowerStep, SendsNextStep, RolesStep, ServedStep, AttendedStep, TakenStep, DispensedStep
       DEF Feeding

\* When the threads meet at the end of an epoch, no object is left with events.
LEMMA NothingLeft ==
  ASSUME IInv, Ownership, Attended, Dispensed, AllIn({"quiet"}), NEW o \in Objects
  PROVE  speculation[o].the_state # "BUSY" /\ ~HasWork(o)
  <1>1. Threads # {}
    BY ConstantsAssumption, ConstantTypes
  <1>2. object_identifiers = OBJECTS /\ ~(OBJECTS <= o) /\ AllIn(Running)
    BY <1>1, ConstantsAssumption DEF Dispensed, AllIn, Objects, Running
  <1>3. ~Coming(o)
    BY DEF Coming, AllIn
  <1>4. speculation[o].the_state # "BUSY"
    <2> SUFFICES ASSUME speculation[o].the_state = "BUSY" PROVE FALSE
      OBVIOUS
    <2> DEFINE t == speculation[o].owner
    <2>1. t \in Threads /\ (Runs(t, o) \/ target[t] = o \/ o \in ToSet(object_stack[t]))
      BY DEF Ownership, Owned, BusyIsHeld
    <2> HIDE DEF t
    <2>2. pc[t] = "quiet" /\ target[t] = NoObject /\ object_stack[t] = <<>>
      BY <2>1 DEF AllIn, Ownership, Hands
    <2>3. NoObject \notin Objects
      BY ConstantsAssumption DEF NoObject, Objects
    <2> QED
      BY <2>1, <2>2, <2>3, EmptyElements DEF Runs
  <1> QED
    BY <1>2, <1>3, <1>4 DEF Attended

LEMMA FeedingBarriers ==
  ASSUME IInv, Ownership, Cleanup, Order, Window, Feeding, Barriers
  PROVE  Feeding'
  <1>0. Threads # {} /\ \A o \in Objects : 0 <= o
    BY ConstantsAssumption, ConstantTypes DEF Objects
  <1>1. UNCHANGED <<model, queue, retractable_queue, log_queue, speculation, epochs,
                    object_identifiers, target, current, event, outbox>>
    BY DEF Barriers, queues, objects, dispensers, locals
  <1>2. /\ current_min_limit' = current_min_limit /\ EpochLimit' = EpochLimit
        /\ current_index' = current_index /\ \A e : Time(e)' = Time(e)
    BY <1>1, SameTimes DEF current_min_limit, EpochLimit, current_index
  <1>3. \/ AllIn({"started"}) /\ AllIn({"idle"})'
        \/ AllIn({"quiet"}) /\ AllIn({"retract"})'
        \/ /\ AllIn({"flushed"})
           /\ \E w \in Threads : pc' = [t \in Threads |-> IF t = w THEN "update" ELSE "updated"]
        \/ AllIn({"updated"}) /\ AllIn({"fallback"})'
        \/ AllIn({"ready"}) /\ AllIn({"dispense"})'
    BY DEF Barriers, Barrier, AllIn
  <1>4. \A u \in Threads : pc'[u] \in {"idle", "retract", "update", "updated", "fallback", "dispense"}
    BY <1>3 DEF AllIn
  <1>5. Lower'
    <2>1. ASSUME Over', NEW o \in Objects, NEW s \in Slots, NEW e \in ToSet(queue[o][s])
          PROVE  Time(e) >= EpochLimit
      <3>1. AllIn({"quiet"}) \/ AllIn({"flushed"})
        BY <1>0, <1>3, <2>1 DEF Over, AllIn, Closing
      <3>2. CASE AllIn({"flushed"})
        BY <3>2 DEF Feeding, Lower, Over, AllIn, Closing
      <3>3. CASE AllIn({"quiet"})
        <4>1. queue[o][current_index] = <<>>
          BY <3>3, NothingLeft DEF Feeding, HasWork
        <4>2. SlotOf(e) = s /\ Time(e) >= current_min_limit /\ Time(e) \in Nat
          BY WindowTypes DEF Feeding, Lower, Order, InOrder, InputInOrder
        <4>3. s # current_index
          BY <4>1, EmptyElements
        <4>4. EpochLimit \in Nat /\ current_min_limit \in Nat /\ epochs \in Nat
          BY LimitsInOrder DEF IInv, CounterTypes
        <4> QED
          BY <4>2, <4>3, <4>4, SlotOfEpoch
      <3> QED
        BY <3>1, <3>2, <3>3
    <2>2. AllIn(Running)' => \A o \in Objects : ToSet(retractable_queue[o]) = {}
      <3>1. AllIn(Running)' => AllIn(Starting) \/ AllIn(Crossing)
        BY <1>0, <1>3 DEF AllIn, Running, Starting, Crossing
      <3> QED
        BY <3>1, EmptyElements DEF Cleanup, Fresh
    <2> QED
      BY <1>1, <1>2, <1>4, <2>1, <2>2 DEF Feeding, Lower, Time
  <1>6. SendsNext'
    BY <1>4 DEF SendsNext
  <1>7. Roles'
    BY <1>1, <1>4 DEF Feeding, Roles, Sender, Receiver, Within, RollingBack
  <1>8. Served'
    BY <1>1, <1>2 DEF Feeding, Served, HasWork
  <1>9. AllIn(Running)' => object_identifiers = 0
    <2>1. AllIn(Running)' => AllIn(Starting) \/ AllIn(Crossing)
      BY <1>0, <1>3 DEF AllIn, Running, Starting, Crossing
    <2> QED
      BY <2>1 DEF Feeding, Dispensed
  <1>10. Attended' /\ Taken'
    BY <1>0, <1>1, <1>4, <1>9 DEF Attended, Taken, Runs
  <1>11. Dispensed'
    <2>1. AllIn(Starting)' \/ AllIn(Crossing)' => AllIn({"updated"})
      BY <1>0, <1>3 DEF AllIn, Starting, Crossing
    <2>2. AllIn({"updated"}) => AllIn(Turning) /\ \A u \in Threads : pc[u] # "update"
      BY DEF AllIn, Turning
    <2>3. AllIn(Turning)' => \E u \in Threads : pc'[u] = "update"
      BY <1>0, <1>3 DEF AllIn, Turning
    <2> QED
      BY <1>1, <1>4, <2>1, <2>2, <2>3 DEF Feeding, Dispensed
  <1> QED
    BY <1>5, <1>6, <1>7, <1>8, <1>10, <1>11 DEF Feeding

LEMMA FeedingUnchanged ==
  ASSUME Feeding, UNCHANGED vars
  PROVE  Feeding'
  <1>1. UNCHANGED <<model, queue, retractable_queue, log_queue, speculation, epochs, pc,
                    object_identifiers, target, current, event, outbox>>
    BY DEF vars, queues, objects, dispensers, locals
  <1>2. /\ current_min_limit' = current_min_limit /\ EpochLimit' = EpochLimit
        /\ current_index' = current_index /\ \A e : Time(e)' = Time(e)
    BY <1>1, SameTimes DEF current_min_limit, EpochLimit, current_index
  <1>3. Lower'
    BY <1>1, <1>2 DEF Feeding, Lower, Over, AllIn, Time
  <1>4. SendsNext' /\ Roles'
    BY <1>1 DEF Feeding, SendsNext, Roles, Sender, Receiver, Within, RollingBack
  <1>5. Served' /\ Attended' /\ Taken' /\ Dispensed'
    BY <1>1, <1>2 DEF Feeding, Served, Attended, Taken, Dispensed, HasWork, Coming, AllIn, Runs
  <1> QED
    BY <1>3, <1>4, <1>5 DEF Feeding

LEMMA FeedingAtFirst == Init => Feeding
  <1> SUFFICES ASSUME Init PROVE Feeding
    OBVIOUS
  <1>0. Threads # {} /\ \A t \in Threads : pc[t] = "init"
    BY ConstantsAssumption, ConstantTypes DEF Init
  <1>1. \A o \in Objects : /\ \A s \in Slots : queue[o][s] = <<>>
                           /\ retractable_queue[o] = <<>> /\ log_queue[o] = <<>>
                           /\ ~speculation[o].standing_rollback
    BY DEF Init
  <1>2. Lower /\ SendsNext /\ Roles /\ Served
    BY <1>0, <1>1, EmptyElements DEF Lower, SendsNext, Roles, Served, RollingBack
  <1>3. ~AllIn(Running) /\ ~AllIn(Crossing) /\ ~AllIn(Turning)
    BY <1>0 DEF AllIn, Running, Crossing, Turning
  <1>4. object_identifiers = 0
    BY DEF Init
  <1>5. Attended /\ Taken /\ Dispensed
    BY <1>0, <1>3, <1>4 DEF Attended, Taken, Dispensed, Runs
  <1> QED
    BY <1>2, <1>5 DEF Feeding

LEMMA AlwaysFeeding ==
  Spec => [](IInv /\ Ownership /\ Cleanup /\ Order /\ Window /\ (FeedForward => Feeding))
  <1>1. /\ IInv /\ Ownership /\ Cleanup /\ Order /\ Window /\ (FeedForward => Feeding)
        /\ [Next]_vars
        => (FeedForward => Feeding)'
    <2> SUFFICES ASSUME IInv, Ownership, Cleanup, Order, Window, FeedForward => Feeding, [Next]_vars,
                        FeedForward'
                 PROVE  Feeding'
      OBVIOUS
    <2>1. model' = model
      BY LimitsMove DEF Next, Barriers, vars
    <2>2. FeedForward
      BY <2>1 DEF FeedForward, Within
    <2> QED
      BY <2>2, FeedingStep, FeedingBarriers, FeedingUnchanged DEF Next
  <1> QED
    BY <1>1, FeedingAtFirst, AlwaysWindow, PTL DEF Spec

\* Where the objects that receive events within an epoch do not send any within
\* it, all threads leave the loop of the epoch only after every causality
\* violation has been served (verify_speculation_status, queue.c:516): whoever
\* finds a straggler's receiver idle takes it over, and whoever holds it comes
\* back to it before it looks at the dispenser.
THEOREM FeedForwardLeavesNoRollback == Spec => [](FeedForward => NoRollbackLeft)
  <1>1. IInv /\ Ownership /\ (FeedForward => Feeding) => (FeedForward => NoRollbackLeft)
    <2> SUFFICES ASSUME IInv, Ownership, Feeding, EpochOver, NEW o \in Objects
                 PROVE  ~speculation[o].standing_rollback
      BY DEF NoRollbackLeft
    <2>1. AllIn({"quiet"})
      BY DEF EpochOver, AllIn
    <2> QED
      BY <2>1, NothingLeft DEF Feeding, Served
  <1> QED
    BY <1>1, AlwaysFeeding, PTL

\* In such a model no event of an epoch is left in its slot when the epoch ends,
\* so a slot never holds events of two turns of the ring (queue.c:178): all are
\* of the present window, and the fallback queues hold what is beyond it.
THEOREM FeedForwardKeepsWindow == Spec => [](FeedForward => EventsInWindow)
  <1>1. IInv /\ Ownership /\ Window /\ (FeedForward => Feeding) => (FeedForward => EventsInWindow)
    <2> SUFFICES ASSUME IInv, Ownership, Window, Feeding PROVE EventsInWindow
      OBVIOUS
    <2>1. ASSUME NEW o \in Objects, NEW s \in Slots, NEW e \in ToSet(queue[o][s])
          PROVE  Time(e) \in current_min_limit..(current_max_limit - 1)
      <3>1. Time(e) \in Nat /\ current_min_limit \in Nat /\ current_max_limit \in Nat
        BY WindowTypes, LimitsInOrder DEF IInv
      <3>2. current_min_limit <= Time(e) /\ Time(e) < current_max_limit
        BY <3>1 DEF Feeding, Lower, Window, InTime
      <3> QED
        BY <3>1, <3>2
    <2>2. ASSUME InEpoch, NEW t \in Threads, NEW e \in ToSet(fallback_queue[t])
          PROVE  Time(e) >= current_max_limit
      <3>1. AllIn(Running)
        BY <2>2, OnePhase DEF InEpoch, Running
      <3> QED
        BY <2>2, <3>1 DEF Window, Beyond, Searched
    <2> QED
      BY <2>1, <2>2 DEF EventsInWindow
  <1> QED
    BY <1>1, AlwaysFeeding, PTL

-----------------------------------------------------------------------------
(* Lists without repetition *)

\* No two events of the list have the same kind.
Distinct(q) == \A i, j \in DOMAIN q : q[i].kind = q[j].kind => i = j

\* A list whose entries are entries of another one, each at most once.
LEMMA DistinctPart ==
  ASSUME NEW q, Distinct(q), NEW r, NEW f \in [DOMAIN r -> DOMAIN q],
         \A i \in DOMAIN r : r[i] = q[f[i]],
         \A i, j \in DOMAIN r : f[i] = f[j] => i = j
  PROVE  Distinct(r)
  BY DEF Distinct

LEMMA DistinctEmpty == Distinct(<<>>)
  BY DEF Distinct

\* Inserting an event of a new kind.
LEMMA DistinctSplice ==
  ASSUME NEW q \in Seq(Events), NEW e \in Events, NEW n \in 0..Len(q), NEW r,
         SplicedAt(r, Events, q, e, n), Distinct(q), \A h \in ToSet(q) : h.kind # e.kind
  PROVE  Distinct(r)
  <1>1. /\ r \in Seq(Events) /\ Len(r) = Len(q) + 1
        /\ \A i \in 1..n : r[i] = q[i]
        /\ r[n + 1] = e
        /\ \A i \in (n + 2)..(Len(q) + 1) : r[i] = q[i - 1]
    BY DEF SplicedAt
  <1>2. /\ Len(q) \in Nat /\ n \in Nat /\ n <= Len(q) /\ DOMAIN q = 1..Len(q)
        /\ DOMAIN r = 1..(Len(q) + 1) /\ \A i \in 1..Len(q) : q[i].kind # e.kind
    BY <1>1, Elements
  <1>3. \A i \in DOMAIN r : i # n + 1 =>
            /\ (IF i <= n THEN i ELSE i - 1) \in DOMAIN q
            /\ r[i] = q[IF i <= n THEN i ELSE i - 1]
    BY <1>1, <1>2
  <1> SUFFICES ASSUME NEW i \in DOMAIN r, NEW j \in DOMAIN r, r[i].kind = r[j].kind PROVE i = j
    BY DEF Distinct
  <1>4. i = n + 1 <=> j = n + 1
    BY <1>1, <1>2, <1>3
  <1>5. CASE i # n + 1 /\ j # n + 1
    <2>1. (IF i <= n THEN i ELSE i - 1) = (IF j <= n THEN j ELSE j - 1)
      BY <1>3, <1>5 DEF Distinct
    <2>2. i \in Nat /\ j \in Nat
      BY <1>2
    <2> QED
      BY <1>2, <1>5, <2>1, <2>2
  <1> QED
    BY <1>4, <1>5

LEMMA DistinctInsert ==
  ASSUME NEW q \in Seq(Events), NEW e \in Events, Distinct(q), \A h \in ToSet(q) : h.kind # e.kind
  PROVE  Distinct(InsertInOrder(q, e))
  <1>1. PICK n \in 0..Len(q) : InsertInOrder(q, e) = Splice(q, e, n)
    BY InsertedAt
  <1> QED
    BY <1>1, Spliced, DistinctSplice

LEMMA DistinctAppend ==
  ASSUME NEW q \in Seq(Events), NEW e \in Events, Distinct(q), \A h \in ToSet(q) : h.kind # e.kind
  PROVE  Distinct(Append(q, e))
  <1> DEFINE r == Append(q, e)
  <1>1. /\ r \in Seq(Events) /\ Len(r) = Len(q) + 1 /\ Len(q) \in Nat
        /\ \A i \in 1..Len(q) : r[i] = q[i]
        /\ r[Len(q) + 1] = e
    BY AppendProperties, Elements
  <1> HIDE DEF r
  <1>2. SplicedAt(r, Events, q, e, Len(q)) /\ Len(q) \in 0..Len(q)
    BY <1>1 DEF SplicedAt
  <1> QED
    BY <1>2, DistinctSplice DEF r

LEMMA DistinctRemove ==
  ASSUME NEW S, NEW q \in Seq(S), NEW n \in 1..Len(q), Distinct(q)
  PROVE  /\ Distinct(RemoveAt(q, n))
         /\ \A e \in ToSet(RemoveAt(q, n)) : e.kind # q[n].kind
  <1> DEFINE r == RemoveAt(q, n)
             f == [i \in 1..(Len(q) - 1) |-> IF i < n THEN i ELSE i + 1]
  <1>1. /\ r \in Seq(S) /\ Len(r) = Len(q) - 1
        /\ \A i \in 1..(Len(q) - 1) : r[i] = q[IF i < n THEN i ELSE i + 1]
    BY RemovedAt
  <1> HIDE DEF r
  <1>2. Len(q) \in Nat /\ DOMAIN q = 1..Len(q) /\ DOMAIN r = 1..(Len(q) - 1)
    BY <1>1, Elements
  <1>3. /\ f \in [DOMAIN r -> DOMAIN q]
        /\ \A i \in DOMAIN r : r[i] = q[f[i]] /\ f[i] # n
        /\ \A i, j \in DOMAIN r : f[i] = f[j] => i = j
    BY <1>1, <1>2
  <1> HIDE DEF f
  <1>4. Distinct(r)
    BY <1>3, DistinctPart
  <1>5. ASSUME NEW e \in ToSet(r) PROVE e.kind # q[n].kind
    <2>1. PICK i \in DOMAIN r : e = r[i]
      BY <1>1, <1>5, Elements
    <2> QED
      BY <1>2, <1>3, <2>1 DEF Distinct
  <1> QED
    BY <1>4, <1>5 DEF r

\* Unlinking an event: no event of its kind is left.
LEMMA DistinctWithout ==
  ASSUME NEW q \in Seq(Events), NEW e, Distinct(q)
  PROVE  Distinct(Without(q, e)) /\ e \notin ToSet(Without(q, e))
  <1>1. CASE \E i \in DOMAIN q : q[i] = e
    <2> DEFINE n == CHOOSE i \in DOMAIN q : q[i] = e
    <2>1. n \in 1..Len(q) /\ q[n] = e /\ Without(q, e) = RemoveAt(q, n)
      BY <1>1 DEF Without
    <2> HIDE DEF n
    <2> QED
      BY <2>1, DistinctRemove
  <1>2. CASE ~\E i \in DOMAIN q : q[i] = e
    BY <1>2, Elements DEF Without
  <1> QED
    BY <1>1, <1>2

LEMMA DistinctTail ==
  ASSUME NEW S, NEW q \in Seq(S), q # <<>>, Distinct(q)
  PROVE  Distinct(Tail(q)) /\ \A e \in ToSet(Tail(q)) : e.kind # Head(q).kind
  <1> DEFINE r == Tail(q)
             f == [i \in 1..(Len(q) - 1) |-> i + 1]
  <1>1. /\ r \in Seq(S) /\ Len(r) = Len(q) - 1 /\ Len(q) \in Nat /\ Head(q) = q[1] /\ Len(q) > 0
        /\ \A i \in 1..(Len(q) - 1) : r[i] = q[i + 1]
    OBVIOUS
  <1> HIDE DEF r
  <1>2. DOMAIN q = 1..Len(q) /\ DOMAIN r = 1..(Len(q) - 1)
    BY <1>1, Elements
  <1>3. /\ f \in [DOMAIN r -> DOMAIN q]
        /\ \A i \in DOMAIN r : r[i] = q[f[i]] /\ f[i] # 1
        /\ \A i, j \in DOMAIN r : f[i] = f[j] => i = j
    BY <1>1, <1>2
  <1> HIDE DEF f
  <1>4. Distinct(r)
    BY <1>3, DistinctPart
  <1>5. ASSUME NEW e \in ToSet(r) PROVE e.kind # q[1].kind
    <2>1. PICK i \in DOMAIN r : e = r[i]
      BY <1>1, <1>5, Elements
    <2>2. f[i] \in DOMAIN q /\ 1 \in DOMAIN q /\ f[i] # 1 /\ e = q[f[i]]
      BY <1>1, <1>2, <1>3, <2>1
    <2> QED
      BY <2>2 DEF Distinct
  <1> QED
    BY <1>1, <1>4, <1>5 DEF r

\* Joining two lists.
LEMMA DistinctConcat ==
  ASSUME NEW p \in Seq(Events), NEW q \in Seq(Events), Distinct(p), Distinct(q),
         \A e \in ToSet(p), h \in ToSet(q) : e.kind # h.kind
  PROVE  Distinct(p \o q)
  <1> DEFINE r == p \o q
  <1>1. /\ r \in Seq(Events) /\ Len(r) = Len(p) + Len(q) /\ Len(p) \in Nat /\ Len(q) \in Nat
        /\ \A i \in 1..(Len(p) + Len(q)) : r[i] = IF i <= Len(p) THEN p[i] ELSE q[i - Len(p)]
    BY ConcatProperties, Elements
  <1> HIDE DEF r
  <1>2. DOMAIN r = 1..(Len(p) + Len(q)) /\ DOMAIN p = 1..Len(p) /\ DOMAIN q = 1..Len(q)
    BY <1>1, Elements
  <1>3. \A i \in 1..Len(p), j \in 1..Len(q) : p[i].kind # q[j].kind
    BY Elements
  <1> SUFFICES ASSUME NEW i \in DOMAIN r, NEW j \in DOMAIN r, r[i].kind = r[j].kind PROVE i = j
    BY DEF Distinct, r
  <1>4. \A k \in DOMAIN r : \/ k \in 1..Len(p) /\ r[k] = p[k]
                            \/ k - Len(p) \in 1..Len(q) /\ r[k] = q[k - Len(p)]
    BY <1>1, <1>2
  <1>5. CASE i \in 1..Len(p) /\ r[i] = p[i]
    BY <1>2, <1>3, <1>4, <1>5 DEF Distinct
  <1>6. CASE i - Len(p) \in 1..Len(q) /\ r[i] = q[i - Len(p)]
    <2>1. j - Len(p) \in 1..Len(q) /\ r[j] = q[j - Len(p)]
      BY <1>3, <1>4, <1>6
    <2>2. i - Len(p) = j - Len(p)
      BY <1>2, <1>6, <2>1 DEF Distinct
    <2> QED
      BY <1>1, <1>2, <2>2
  <1> QED
    BY <1>4, <1>5, <1>6

\* Ordering a list by time.
LEMMA DistinctInTimeOrder ==
  ASSUME ModelOK, NEW q \in Seq(Events), Distinct(q)
  PROVE  Distinct(InTimeOrder(q))
  <1> DEFINE r == InTimeOrder(q)
             f == [n \in DOMAIN q |-> CHOOSE i \in DOMAIN q : Rank(q, i) = n]
  <1>1. \A n \in DOMAIN q : \E i \in DOMAIN q : Rank(q, i) = n
    BY RankIsPermutation
  <1>2. \A n \in DOMAIN q : f[n] \in DOMAIN q /\ Rank(q, f[n]) = n
    BY <1>1
  <1>3. DOMAIN r = DOMAIN q /\ \A n \in DOMAIN q : r[n] = q[f[n]]
    BY DEF InTimeOrder
  <1> HIDE DEF r
  <1>4. f \in [DOMAIN r -> DOMAIN q]
    BY <1>2, <1>3
  <1> HIDE DEF f
  <1>5. \A i, j \in DOMAIN r : f[i] = f[j] => i = j
    BY <1>2, <1>3
  <1> QED
    BY <1>3, <1>4, <1>5, DistinctPart DEF r

\* The events of a list of sends.
EventsIn(q) == [i \in DOMAIN q |-> q[i].event]

LEMMA EventsInList ==
  ASSUME NEW q \in Seq(Sends)
  PROVE  /\ EventsIn(q) \in Seq(Events) /\ DOMAIN EventsIn(q) = DOMAIN q
         /\ \A e : e \in ToSet(EventsIn(q)) <=> \E x \in ToSet(q) : x.event = e
         /\ \A i \in DOMAIN q : EventsIn(q)[i] = q[i].event
  <1>0. Len(q) \in Nat /\ DOMAIN q = 1..Len(q) /\ \A i \in 1..Len(q) : q[i] \in Sends
    BY Elements
  <1>1. Len(q) \in Nat /\ DOMAIN q = 1..Len(q) /\ \A i \in 1..Len(q) : q[i].event \in Events
    BY <1>0 DEF Sends
  <1>2. EventsIn(q) \in Seq(Events)
    BY <1>1 DEF EventsIn
  <1>3. DOMAIN EventsIn(q) = DOMAIN q /\ \A i \in DOMAIN q : EventsIn(q)[i] = q[i].event
    BY DEF EventsIn
  <1> QED
    BY <1>2, <1>3 DEF ToSet

\* The lists that keep an event allocated.
Places ==
    {<<"slot", o, s>> : o \in Objects, s \in Slots} \cup {<<"retractable", o, 0>> : o \in Objects}
    \cup {<<"fallback", t, 0>> : t \in Threads} \cup {<<"withheld", o, 0>> : o \in Objects}

ListAt(c) ==
    CASE c[1] = "slot" -> queue[c[2]][c[3]]
      [] c[1] = "retractable" -> retractable_queue[c[2]]
      [] c[1] = "fallback" -> fallback_queue[c[2]]
      [] OTHER -> EventsIn(speculation_queue[c[2]])

Contents == [c \in Places |-> ListAt(c)]

\* No kind occurs twice, in a list or in two.
Unique(P, f) ==
    /\ \A c \in P : Distinct(f[c])
    /\ \A c, d \in P : c # d => \A x \in ToSet(f[c]), y \in ToSet(f[d]) : x.kind # y.kind

Once == Unique(Places, Contents)

\* There is no event of this kind.
Unsent(k) == \A e \in Allocated : e.kind # k

\* Two lists change: no kind is in both or twice in one, and new are only kinds
\* that were nowhere.
LEMMA Rearranged ==
  ASSUME NEW P, NEW f, NEW g, Unique(P, f), NEW a \in P, NEW b \in P, NEW K,
         \A c \in P : \A x \in ToSet(f[c]) : x.kind \notin K,
         \A c \in P : c # a /\ c # b => g[c] = f[c],
         Distinct(g[a]), Distinct(g[b]),
         a # b => \A x \in ToSet(g[a]), y \in ToSet(g[b]) : x.kind # y.kind,
         \A x \in ToSet(g[a]) \cup ToSet(g[b]) :
            x.kind \in K \/ \E y \in ToSet(f[a]) \cup ToSet(f[b]) : y.kind = x.kind
  PROVE  Unique(P, g)
  <1>1. \A c \in P : Distinct(g[c])
    BY DEF Unique
  <1>2. ASSUME NEW c \in P \ {a, b}, NEW d \in {a, b}, NEW x \in ToSet(g[c]), NEW y \in ToSet(g[d])
        PROVE  x.kind # y.kind
    <2>1. x \in ToSet(f[c]) /\ x.kind \notin K
      BY <1>2
    <2>2. CASE y.kind \in K
      BY <2>1, <2>2
    <2>3. ASSUME NEW z \in ToSet(f[a]) \cup ToSet(f[b]), z.kind = y.kind PROVE x.kind # y.kind
      BY <1>2, <2>1, <2>3 DEF Unique
    <2> QED
      BY <1>2, <2>2, <2>3
  <1>3. ASSUME NEW c \in P, NEW d \in P, c # d, NEW x \in ToSet(g[c]), NEW y \in ToSet(g[d])
        PROVE  x.kind # y.kind
    <2>1. CASE c \in {a, b} /\ d \in {a, b}
      BY <1>3, <2>1
    <2>2. CASE c \notin {a, b} /\ d \in {a, b}
      BY <1>2, <1>3, <2>2
    <2>3. CASE c \in {a, b} /\ d \notin {a, b}
      BY <1>2, <1>3, <2>3
    <2>4. CASE c \notin {a, b} /\ d \notin {a, b}
      <3>1. g[c] = f[c] /\ g[d] = f[d]
        BY <2>4
      <3> QED
        BY <1>3, <3>1 DEF Unique
    <2> QED
      BY <2>1, <2>2, <2>3, <2>4
  <1> QED
    BY <1>1, <1>3 DEF Unique

LEMMA ContentsNow ==
  /\ \A o \in Objects, s \in Slots :
        <<"slot", o, s>> \in Places /\ Contents[<<"slot", o, s>>] = queue[o][s]
  /\ \A t \in Threads :
        <<"fallback", t, 0>> \in Places /\ Contents[<<"fallback", t, 0>>] = fallback_queue[t]
  /\ \A o \in Objects :
        /\ <<"retractable", o, 0>> \in Places
        /\ Contents[<<"retractable", o, 0>>] = retractable_queue[o]
        /\ <<"withheld", o, 0>> \in Places
        /\ Contents[<<"withheld", o, 0>>] = EventsIn(speculation_queue[o])
  BY DEF Places, Contents, ListAt

LEMMA ContentsNext ==
  /\ \A o \in Objects, s \in Slots : Contents'[<<"slot", o, s>>] = queue'[o][s]
  /\ \A t \in Threads : Contents'[<<"fallback", t, 0>>] = fallback_queue'[t]
  /\ \A o \in Objects :
        /\ Contents'[<<"retractable", o, 0>>] = retractable_queue'[o]
        /\ Contents'[<<"withheld", o, 0>>] = EventsIn(speculation_queue'[o])
  BY DEF Places, Contents, ListAt

LEMMA PlaceIs ==
  ASSUME NEW c \in Places
  PROVE  \/ \E o \in Objects, s \in Slots : c = <<"slot", o, s>>
         \/ \E t \in Threads : c = <<"fallback", t, 0>>
         \/ \E o \in Objects : c = <<"retractable", o, 0>>
         \/ \E o \in Objects : c = <<"withheld", o, 0>>
  BY DEF Places

\* The places a step does not touch.
LEMMA OtherPlaces ==
  ASSUME NEW A,
         \A o \in Objects, s \in Slots : <<"slot", o, s>> \notin A => queue'[o][s] = queue[o][s],
         \A t \in Threads : <<"fallback", t, 0>> \notin A => fallback_queue'[t] = fallback_queue[t],
         \A o \in Objects : <<"retractable", o, 0>> \notin A
                                => retractable_queue'[o] = retractable_queue[o],
         \A o \in Objects : <<"withheld", o, 0>> \notin A
                                => speculation_queue'[o] = speculation_queue[o]
  PROVE  \A c \in Places : c \notin A => Contents'[c] = Contents[c]
  <1> SUFFICES ASSUME NEW c \in Places, c \notin A PROVE Contents'[c] = Contents[c]
    OBVIOUS
  <1>1. ASSUME NEW o \in Objects, NEW s \in Slots, c = <<"slot", o, s>>
        PROVE  Contents'[c] = Contents[c]
    <2>1. queue'[o][s] = queue[o][s]
      BY <1>1
    <2>2. Contents[<<"slot", o, s>>] = queue[o][s]
      BY ContentsNow
    <2>3. Contents'[<<"slot", o, s>>] = queue'[o][s]
      BY ContentsNext
    <2> QED
      BY <1>1, <2>1, <2>2, <2>3
  <1>2. ASSUME NEW t \in Threads, c = <<"fallback", t, 0>> PROVE Contents'[c] = Contents[c]
    <2>1. fallback_queue'[t] = fallback_queue[t]
      BY <1>2
    <2>2. Contents[<<"fallback", t, 0>>] = fallback_queue[t]
      BY ContentsNow
    <2>3. Contents'[<<"fallback", t, 0>>] = fallback_queue'[t]
      BY ContentsNext
    <2> QED
      BY <1>2, <2>1, <2>2, <2>3
  <1>3. ASSUME NEW o \in Objects, c = <<"retractable", o, 0>> PROVE Contents'[c] = Contents[c]
    <2>1. retractable_queue'[o] = retractable_queue[o]
      BY <1>3
    <2>2. Contents[<<"retractable", o, 0>>] = retractable_queue[o]
      BY ContentsNow
    <2>3. Contents'[<<"retractable", o, 0>>] = retractable_queue'[o]
      BY ContentsNext
    <2> QED
      BY <1>3, <2>1, <2>2, <2>3
  <1>4. ASSUME NEW o \in Objects, c = <<"withheld", o, 0>> PROVE Contents'[c] = Contents[c]
    <2>1. EventsIn(speculation_queue'[o]) = EventsIn(speculation_queue[o])
      BY <1>4
    <2>2. Contents[<<"withheld", o, 0>>] = EventsIn(speculation_queue[o])
      BY ContentsNow
    <2>3. Contents'[<<"withheld", o, 0>>] = EventsIn(speculation_queue'[o])
      BY ContentsNext
    <2> QED
      BY <1>4, <2>1, <2>2, <2>3
  <1> QED
    BY <1>1, <1>2, <1>3, <1>4, PlaceIs

\* What is allocated is in one of the places.
LEMMA AllocatedAt ==
  ASSUME IInv, NEW e
  PROVE  /\ e \in Allocated <=> \E c \in Places : e \in ToSet(Contents[c])
         /\ e \in Allocated <=> \/ \E o \in Objects, s \in Slots : e \in ToSet(queue[o][s])
                                \/ \E o \in Objects : e \in ToSet(retractable_queue[o])
                                \/ \E t \in Threads : e \in ToSet(fallback_queue[t])
                                \/ \E o \in Objects : \E x \in ToSet(speculation_queue[o]) : x.event = e
  <1>1. e \in Allocated <=> \/ \E o \in Objects, s \in Slots : e \in ToSet(queue[o][s])
                            \/ \E o \in Objects : e \in ToSet(retractable_queue[o])
                            \/ \E t \in Threads : e \in ToSet(fallback_queue[t])
                            \/ \E o \in Objects : \E x \in ToSet(speculation_queue[o]) : x.event = e
    <2> DEFINE A == {ToSet(queue[o][s]) : o \in Objects, s \in Slots}
               B == {ToSet(retractable_queue[o]) : o \in Objects}
               C == {ToSet(fallback_queue[t]) : t \in Threads}
               W(o) == {x.event : x \in ToSet(speculation_queue[o])}
               D == {W(o) : o \in Objects}
    <2>1. e \in Allocated <=> (\E X \in A : e \in X) \/ (\E X \in B : e \in X)
                               \/ (\E X \in C : e \in X) \/ (\E X \in D : e \in X)
      BY DEF Allocated
    <2>2. (\E X \in A : e \in X) <=> \E o \in Objects, s \in Slots : e \in ToSet(queue[o][s])
      OBVIOUS
    <2>3. (\E X \in B : e \in X) <=> \E o \in Objects : e \in ToSet(retractable_queue[o])
      OBVIOUS
    <2>4. (\E X \in C : e \in X) <=> \E t \in Threads : e \in ToSet(fallback_queue[t])
      OBVIOUS
    <2>5. (\E X \in D : e \in X) <=> \E o \in Objects : e \in W(o)
      OBVIOUS
    <2>6. \A o \in Objects : e \in W(o) <=> \E x \in ToSet(speculation_queue[o]) : x.event = e
      OBVIOUS
    <2> HIDE DEF A, B, C, D, W
    <2> QED
      BY <2>1, <2>2, <2>3, <2>4, <2>5, <2>6
  <1>2. \A o \in Objects : e \in ToSet(EventsIn(speculation_queue[o]))
                              <=> \E x \in ToSet(speculation_queue[o]) : x.event = e
    BY EventsInList DEF IInv, Lists, QueueTypes
  <1>3. ASSUME NEW c \in Places, e \in ToSet(Contents[c]) PROVE e \in Allocated
    <2>1. ASSUME NEW o \in Objects, NEW s \in Slots, c = <<"slot", o, s>> PROVE e \in Allocated
      <3>1. Contents[<<"slot", o, s>>] = queue[o][s]
        BY ContentsNow
      <3> QED
        BY <1>1, <1>3, <2>1, <3>1
    <2>2. ASSUME NEW t \in Threads, c = <<"fallback", t, 0>> PROVE e \in Allocated
      <3>1. Contents[<<"fallback", t, 0>>] = fallback_queue[t]
        BY ContentsNow
      <3> QED
        BY <1>1, <1>3, <2>2, <3>1
    <2>3. ASSUME NEW o \in Objects, c = <<"retractable", o, 0>> PROVE e \in Allocated
      <3>1. Contents[<<"retractable", o, 0>>] = retractable_queue[o]
        BY ContentsNow
      <3> QED
        BY <1>1, <1>3, <2>3, <3>1
    <2>4. ASSUME NEW o \in Objects, c = <<"withheld", o, 0>> PROVE e \in Allocated
      <3>1. Contents[<<"withheld", o, 0>>] = EventsIn(speculation_queue[o])
        BY ContentsNow
      <3> QED
        BY <1>1, <1>2, <1>3, <2>4, <3>1
    <2> QED
      BY <2>1, <2>2, <2>3, <2>4, PlaceIs
  <1>4. ASSUME e \in Allocated PROVE \E c \in Places : e \in ToSet(Contents[c])
    BY <1>1, <1>2, <1>4, ContentsNow
  <1> QED
    BY <1>1, <1>3, <1>4

LEMMA EventsInTail ==
  ASSUME NEW q \in Seq(Sends), q # <<>>, Distinct(EventsIn(q))
  PROVE  /\ Distinct(EventsIn(Tail(q))) /\ Head(q) \in Sends /\ Tail(q) \in Seq(Sends)
         /\ \A e \in ToSet(EventsIn(Tail(q))) : e \in ToSet(EventsIn(q)) /\ e.kind # Head(q).event.kind
         /\ Head(q).event \in ToSet(EventsIn(q))
  <1> DEFINE p == EventsIn(q)
             r == Tail(q)
             f == [i \in 1..(Len(q) - 1) |-> i + 1]
  <1>1. /\ r \in Seq(Sends) /\ Len(r) = Len(q) - 1 /\ Len(q) \in Nat /\ Head(q) = q[1] /\ Len(q) > 0
        /\ Head(q) \in Sends
        /\ \A i \in 1..(Len(q) - 1) : r[i] = q[i + 1]
    OBVIOUS
  <1> HIDE DEF r
  <1>2. DOMAIN q = 1..Len(q) /\ DOMAIN r = 1..(Len(q) - 1)
    BY <1>1, Elements
  <1>3. /\ EventsIn(r) \in Seq(Events) /\ DOMAIN EventsIn(r) = 1..(Len(q) - 1)
        /\ \A i \in 1..(Len(q) - 1) : EventsIn(r)[i] = q[i + 1].event
        /\ \A e : e \in ToSet(EventsIn(r)) <=> \E x \in ToSet(r) : x.event = e
    BY <1>1, <1>2, EventsInList
  <1>4. /\ p \in Seq(Events) /\ DOMAIN p = 1..Len(q) /\ \A i \in 1..Len(q) : p[i] = q[i].event
        /\ \A e : e \in ToSet(p) <=> \E x \in ToSet(q) : x.event = e
    BY <1>2, EventsInList
  <1> HIDE DEF p
  <1>5. /\ f \in [DOMAIN EventsIn(r) -> DOMAIN p]
        /\ \A i \in DOMAIN EventsIn(r) : EventsIn(r)[i] = p[f[i]] /\ f[i] # 1
        /\ \A i, j \in DOMAIN EventsIn(r) : f[i] = f[j] => i = j
    BY <1>1, <1>3, <1>4
  <1> HIDE DEF f
  <1>6. Distinct(EventsIn(r))
    BY <1>5, DistinctPart DEF p
  <1>7. 1 \in DOMAIN p /\ p[1] = Head(q).event
    BY <1>1, <1>4
  <1>8. ASSUME NEW e \in ToSet(EventsIn(r)) PROVE e \in ToSet(p) /\ e.kind # p[1].kind
    <2>1. PICK i \in DOMAIN EventsIn(r) : e = EventsIn(r)[i]
      BY <1>3, <1>8, Elements
    <2>2. f[i] \in DOMAIN p /\ f[i] # 1 /\ e = p[f[i]]
      BY <1>5, <2>1
    <2>3. e \in ToSet(p)
      BY <1>4, <2>2, Elements
    <2> QED
      BY <1>7, <2>2, <2>3 DEF Distinct, p
  <1>9. p[1] \in ToSet(p)
    BY <1>4, <1>7, Elements
  <1> QED
    BY <1>1, <1>6, <1>7, <1>8, <1>9 DEF p, r

LEMMA EventsInAppend ==
  ASSUME NEW q \in Seq(Sends), NEW x \in Sends, Distinct(EventsIn(q)),
         \A e \in ToSet(EventsIn(q)) : e.kind # x.event.kind
  PROVE  /\ Distinct(EventsIn(Append(q, x)))
         /\ \A e \in ToSet(EventsIn(Append(q, x))) : e \in ToSet(EventsIn(q)) \/ e = x.event
  <1> DEFINE r == Append(q, x)
  <1>1. /\ r \in Seq(Sends) /\ Len(r) = Len(q) + 1 /\ Len(q) \in Nat
        /\ \A i \in 1..Len(q) : r[i] = q[i]
        /\ r[Len(q) + 1] = x
    BY AppendProperties, Elements
  <1> HIDE DEF r
  <1>2. /\ EventsIn(r) \in Seq(Events) /\ DOMAIN EventsIn(r) = 1..(Len(q) + 1)
        /\ \A i \in 1..(Len(q) + 1) : EventsIn(r)[i] = r[i].event
    BY <1>1, EventsInList, Elements
  <1>3. /\ EventsIn(q) \in Seq(Events) /\ DOMAIN EventsIn(q) = 1..Len(q) /\ Len(EventsIn(q)) = Len(q)
        /\ \A i \in 1..Len(q) : EventsIn(q)[i] = q[i].event
    <2>1. /\ EventsIn(q) \in Seq(Events) /\ DOMAIN EventsIn(q) = 1..Len(q)
          /\ \A i \in 1..Len(q) : EventsIn(q)[i] = q[i].event
      BY <1>1, EventsInList, Elements
    <2>2. Len(EventsIn(q)) \in Nat /\ DOMAIN EventsIn(q) = 1..Len(EventsIn(q))
      BY <2>1, Elements
    <2> QED
      BY <1>1, <2>1, <2>2
  <1>4. x.event \in Events
    BY DEF Sends
  <1>5. Len(EventsIn(r)) = Len(q) + 1
    <2>1. Len(EventsIn(r)) \in Nat /\ DOMAIN EventsIn(r) = 1..Len(EventsIn(r))
      BY <1>2, Elements
    <2> QED
      BY <1>1, <1>2, <2>1
  <1>6. SplicedAt(EventsIn(r), Events, EventsIn(q), x.event, Len(q)) /\ Len(q) \in 0..Len(EventsIn(q))
    BY <1>1, <1>2, <1>3, <1>5 DEF SplicedAt
  <1>7. Distinct(EventsIn(r))
    BY <1>3, <1>4, <1>6, DistinctSplice
  <1>8. ASSUME NEW e \in ToSet(EventsIn(r)) PROVE e \in ToSet(EventsIn(q)) \/ e = x.event
    <2>1. PICK i \in 1..(Len(q) + 1) : e = EventsIn(r)[i]
      BY <1>2, <1>5, <1>8, Elements
    <2>2. i = Len(q) + 1 \/ (i \in 1..Len(q) /\ e = EventsIn(q)[i])
      BY <1>1, <1>2, <1>3, <2>1
    <2>3. i \in 1..Len(q) => EventsIn(q)[i] \in ToSet(EventsIn(q))
      BY <1>3, Elements
    <2> QED
      BY <1>1, <1>2, <2>1, <2>2, <2>3
  <1> QED
    BY <1>7, <1>8 DEF r

LEMMA EventsInBefore ==
  ASSUME NEW q \in Seq(Sends), NEW time, Distinct(EventsIn(q))
  PROVE  /\ Distinct(EventsIn(Before(q, time)))
         /\ ToSet(EventsIn(Before(q, time))) \subseteq ToSet(EventsIn(q))
  <1> DEFINE n == Len(q) - Cardinality({i \in DOMAIN q : \A j \in i..Len(q) : q[j].send_time >= time})
             r == SubSeq(q, 1, n)
  <1>1. n \in 0..Len(q) /\ Len(q) \in Nat /\ DOMAIN q = 1..Len(q)
    <2>1. Cardinality({i \in DOMAIN q : \A j \in i..Len(q) : q[j].send_time >= time}) \in 0..Len(q)
      BY CountOfIndexes
    <2> QED
      BY <2>1, Elements
  <1>2. Before(q, time) = r
    BY DEF Before
  <1> HIDE DEF n
  <1>3. r \in Seq(Sends) /\ Len(r) = n /\ DOMAIN r = 1..n /\ \A i \in 1..n : r[i] = q[i]
    BY <1>1, SubSeqProperties
  <1> HIDE DEF r
  <1>4. DOMAIN EventsIn(r) = 1..n /\ \A i \in 1..n : EventsIn(r)[i] = EventsIn(q)[i]
    BY <1>1, <1>3, EventsInList
  <1>5. DOMAIN EventsIn(q) = 1..Len(q)
    BY <1>1, EventsInList
  <1>6. Distinct(EventsIn(r))
    BY <1>1, <1>4, <1>5 DEF Distinct
  <1>7. ToSet(EventsIn(r)) \subseteq ToSet(EventsIn(q))
    <2>1. \A e : e \in ToSet(EventsIn(q)) <=> \E x \in ToSet(q) : x.event = e
      BY EventsInList
    <2>2. \A e : e \in ToSet(EventsIn(r)) <=> \E x \in ToSet(r) : x.event = e
      BY <1>3, EventsInList
    <2>3. ToSet(r) \subseteq ToSet(q)
      BY <1>1, <1>3, Elements
    <2> QED
      BY <2>1, <2>2, <2>3
  <1> QED
    BY <1>2, <1>6, <1>7

-----------------------------------------------------------------------------
(* No event exists twice *)

LEMMA ContentsTypes ==
  ASSUME IInv
  PROVE  /\ \A c \in Places : Contents[c] \in Seq(Events)
         /\ \A o \in Objects, s \in Slots : queue[o][s] \in Seq(Events)
         /\ \A o \in Objects : /\ retractable_queue[o] \in Seq(Events)
                               /\ speculation_queue[o] \in Seq(Sends)
                               /\ EventsIn(speculation_queue[o]) \in Seq(Events)
         /\ \A t \in Threads : fallback_queue[t] \in Seq(Events)
  <1>1. /\ \A o \in Objects, s \in Slots : queue[o][s] \in Seq(Events)
        /\ \A o \in Objects : retractable_queue[o] \in Seq(Events) /\ speculation_queue[o] \in Seq(Sends)
        /\ \A t \in Threads : fallback_queue[t] \in Seq(Events)
    BY DEF IInv, Lists, QueueTypes
  <1>2. \A o \in Objects : EventsIn(speculation_queue[o]) \in Seq(Events)
    BY <1>1, EventsInList
  <1>3. ASSUME NEW c \in Places PROVE Contents[c] \in Seq(Events)
    <2>1. ASSUME NEW o \in Objects, NEW s \in Slots, c = <<"slot", o, s>>
          PROVE  Contents[c] \in Seq(Events)
      <3>1. Contents[<<"slot", o, s>>] = queue[o][s]
        BY ContentsNow
      <3> QED
        BY <1>1, <2>1, <3>1
    <2>2. ASSUME NEW t \in Threads, c = <<"fallback", t, 0>> PROVE Contents[c] \in Seq(Events)
      <3>1. Contents[<<"fallback", t, 0>>] = fallback_queue[t]
        BY ContentsNow
      <3> QED
        BY <1>1, <2>2, <3>1
    <2>3. ASSUME NEW o \in Objects, c = <<"retractable", o, 0>> PROVE Contents[c] \in Seq(Events)
      <3>1. Contents[<<"retractable", o, 0>>] = retractable_queue[o]
        BY ContentsNow
      <3> QED
        BY <1>1, <2>3, <3>1
    <2>4. ASSUME NEW o \in Objects, c = <<"withheld", o, 0>> PROVE Contents[c] \in Seq(Events)
      <3>1. Contents[<<"withheld", o, 0>>] = EventsIn(speculation_queue[o])
        BY ContentsNow
      <3> QED
        BY <1>2, <2>4, <3>1
    <2> QED
      BY <2>1, <2>2, <2>3, <2>4, PlaceIs
  <1> QED
    BY <1>1, <1>2, <1>3

\* An event moves from place a to place b.
LEMMA Relocated ==
  ASSUME NEW P, NEW f, NEW g, Unique(P, f), NEW a \in P, NEW b \in P, a # b, NEW e,
         \E y \in ToSet(f[a]) : y.kind = e.kind,
         Distinct(g[a]), Distinct(g[b]),
         \A x \in ToSet(g[a]) : x \in ToSet(f[a]) /\ x.kind # e.kind,
         \A x \in ToSet(g[b]) : x \in ToSet(f[b]) \/ x.kind = e.kind,
         \A c \in P : c \notin {a, b} => g[c] = f[c]
  PROVE  Unique(P, g)
  <1>1. \A c \in P : Distinct(g[c])
    BY DEF Unique
  <1>2. ASSUME NEW c \in P \ {a, b}, NEW d \in {a, b}, NEW x \in ToSet(g[c]), NEW y \in ToSet(g[d])
        PROVE  x.kind # y.kind
    <2>1. PICK z \in ToSet(f[a]) \cup ToSet(f[b]) : z.kind = y.kind
      BY <1>2
    <2>2. x \in ToSet(f[c])
      BY <1>2
    <2> QED
      BY <1>2, <2>1, <2>2 DEF Unique
  <1>3. \A x \in ToSet(g[a]), y \in ToSet(g[b]) : x.kind # y.kind
    BY DEF Unique
  <1>4. ASSUME NEW c \in P, NEW d \in P, c # d, NEW x \in ToSet(g[c]), NEW y \in ToSet(g[d])
        PROVE  x.kind # y.kind
    <2>1. CASE c \in {a, b} /\ d \in {a, b}
      BY <1>3, <1>4, <2>1
    <2>2. CASE c \notin {a, b} /\ d \in {a, b}
      BY <1>2, <1>4, <2>2
    <2>3. CASE c \in {a, b} /\ d \notin {a, b}
      BY <1>2, <1>4, <2>3
    <2>4. CASE c \notin {a, b} /\ d \notin {a, b}
      <3>1. g[c] = f[c] /\ g[d] = f[d]
        BY <2>4
      <3> QED
        BY <1>4, <3>1 DEF Unique
    <2> QED
      BY <2>1, <2>2, <2>3, <2>4
  <1> QED
    BY <1>1, <1>4 DEF Unique

LEMMA OnceMoved ==
  ASSUME Once, NEW a \in Places, NEW b \in Places, a # b, NEW e,
         \E y \in ToSet(Contents[a]) : y.kind = e.kind,
         Distinct(Contents'[a]), Distinct(Contents'[b]),
         \A x \in ToSet(Contents'[a]) : x \in ToSet(Contents[a]) /\ x.kind # e.kind,
         \A x \in ToSet(Contents'[b]) : x \in ToSet(Contents[b]) \/ x.kind = e.kind,
         \A c \in Places : c \notin {a, b} => Contents'[c] = Contents[c]
  PROVE  Once'
  <1> DEFINE f == Contents
             g == Contents'
  <1>1. Unique(Places, f)
    BY DEF Once
  <1> HIDE DEF f, g
  <1>2. Unique(Places, g)
    BY <1>1, Relocated DEF f, g
  <1> QED
    BY <1>2 DEF Once, g

\* A place loses events, or gets one of a new kind.
LEMMA OnceInPlace ==
  ASSUME Once, NEW b \in Places, NEW K,
         Distinct(Contents'[b]),
         \A c \in Places : \A x \in ToSet(Contents[c]) : x.kind \notin K,
         \A x \in ToSet(Contents'[b]) : x \in ToSet(Contents[b]) \/ x.kind \in K,
         \A c \in Places : c \notin {b} => Contents'[c] = Contents[c]
  PROVE  Once'
  <1>1. Unique(Places, Contents)
    BY DEF Once
  <1> DEFINE f == Contents
             g == Contents'
  <1>3. /\ Unique(Places, f) /\ Distinct(g[b])
        /\ \A c \in Places : \A x \in ToSet(f[c]) : x.kind \notin K
        /\ \A c \in Places : c # b /\ c # b => g[c] = f[c]
        /\ b # b => \A x \in ToSet(g[b]), y \in ToSet(g[b]) : x.kind # y.kind
        /\ \A x \in ToSet(g[b]) \cup ToSet(g[b]) :
              x.kind \in K \/ \E y \in ToSet(f[b]) \cup ToSet(f[b]) : y.kind = x.kind
    BY <1>1
  <1> HIDE DEF f, g
  <1>4. Unique(Places, g)
    BY <1>3, Rearranged
  <1> QED
    BY <1>4 DEF Once, g

\* Places only lose events.
LEMMA OnceShrinks ==
  ASSUME Once, \A c \in Places : /\ Distinct(Contents'[c])
                                 /\ ToSet(Contents'[c]) \subseteq ToSet(Contents[c])
  PROVE  Once'
  <1> DEFINE g == Contents'
  <1>1. \A c, d \in Places : c # d => \A x \in ToSet(g[c]), y \in ToSet(g[d]) : x.kind # y.kind
    BY DEF Once, Unique
  <1>2. \A c \in Places : Distinct(g[c])
    OBVIOUS
  <1> HIDE DEF g
  <1>3. Unique(Places, g)
    BY <1>1, <1>2 DEF Unique
  <1> QED
    BY <1>3 DEF Once, g

\* Place a is emptied into place b.
LEMMA Poured ==
  ASSUME NEW P, NEW f, NEW g, Unique(P, f), NEW a \in P, NEW b \in P, a # b,
         ToSet(g[a]) = {}, Distinct(g[a]), Distinct(g[b]),
         ToSet(g[b]) \subseteq ToSet(f[a]) \cup ToSet(f[b]),
         \A c \in P : c \notin {a, b} => g[c] = f[c]
  PROVE  Unique(P, g)
  <1>1. \A c \in P : Distinct(g[c])
    BY DEF Unique
  <1>2. ASSUME NEW c \in P \ {a, b}, NEW x \in ToSet(g[c]), NEW y \in ToSet(g[b])
        PROVE  x.kind # y.kind
    <2>1. x \in ToSet(f[c])
      BY <1>2
    <2> QED
      BY <1>2, <2>1 DEF Unique
  <1>3. ASSUME NEW c \in P, NEW d \in P, c # d, NEW x \in ToSet(g[c]), NEW y \in ToSet(g[d])
        PROVE  x.kind # y.kind
    <2>1. c # a /\ d # a
      BY <1>3
    <2>2. CASE c = b
      BY <1>2, <1>3, <2>1, <2>2
    <2>3. CASE d = b
      BY <1>2, <1>3, <2>1, <2>3
    <2>4. CASE c # b /\ d # b
      <3>1. g[c] = f[c] /\ g[d] = f[d]
        BY <2>1, <2>4
      <3> QED
        BY <1>3, <3>1 DEF Unique
    <2> QED
      BY <2>2, <2>3, <2>4
  <1> QED
    BY <1>1, <1>3 DEF Unique

\* What Once says of each list.
LEMMA OnceLists ==
  ASSUME Once
  PROVE  /\ \A o \in Objects, s \in Slots : Distinct(queue[o][s])
         /\ \A o \in Objects : Distinct(retractable_queue[o]) /\ Distinct(EventsIn(speculation_queue[o]))
         /\ \A t \in Threads : Distinct(fallback_queue[t])
         /\ \A o, p \in Objects, s \in Slots :
               \A x \in ToSet(queue[o][s]), y \in ToSet(retractable_queue[p]) : x.kind # y.kind
         /\ \A o, p \in Objects, s \in Slots :
               \A x \in ToSet(queue[o][s]), y \in ToSet(EventsIn(speculation_queue[p])) : x.kind # y.kind
         /\ \A o \in Objects, s \in Slots, t \in Threads :
               \A x \in ToSet(queue[o][s]), y \in ToSet(fallback_queue[t]) : x.kind # y.kind
         /\ \A o \in Objects, t \in Threads :
               \A x \in ToSet(EventsIn(speculation_queue[o])), y \in ToSet(fallback_queue[t]) :
                  x.kind # y.kind
  <1>1. /\ \A c \in Places : Distinct(Contents[c])
        /\ \A c, d \in Places : c # d => \A x \in ToSet(Contents[c]), y \in ToSet(Contents[d]) :
                                            x.kind # y.kind
    BY DEF Once, Unique
  <1>2. \A o \in Objects, s \in Slots : Distinct(queue[o][s])
    BY <1>1, ContentsNow
  <1>3. \A o \in Objects : Distinct(retractable_queue[o]) /\ Distinct(EventsIn(speculation_queue[o]))
    BY <1>1, ContentsNow
  <1>4. \A t \in Threads : Distinct(fallback_queue[t])
    BY <1>1, ContentsNow
  <1>5. ASSUME NEW o \in Objects, NEW s \in Slots, NEW x \in ToSet(queue[o][s])
        PROVE  /\ \A p \in Objects : \A y \in ToSet(retractable_queue[p]) : x.kind # y.kind
               /\ \A p \in Objects : \A y \in ToSet(EventsIn(speculation_queue[p])) : x.kind # y.kind
               /\ \A t \in Threads : \A y \in ToSet(fallback_queue[t]) : x.kind # y.kind
    <2> DEFINE c == <<"slot", o, s>>
    <2>1. c \in Places /\ Contents[c] = queue[o][s]
      BY ContentsNow
    <2>2. ASSUME NEW p \in Objects, NEW y \in ToSet(retractable_queue[p]) PROVE x.kind # y.kind
      <3> DEFINE d == <<"retractable", p, 0>>
      <3>1. d \in Places /\ Contents[d] = retractable_queue[p] /\ c # d
        BY ContentsNow
      <3> HIDE DEF c, d
      <3> QED
        BY <1>1, <1>5, <2>1, <2>2, <3>1
    <2>3. ASSUME NEW p \in Objects, NEW y \in ToSet(EventsIn(speculation_queue[p])) PROVE x.kind # y.kind
      <3> DEFINE d == <<"withheld", p, 0>>
      <3>1. d \in Places /\ Contents[d] = EventsIn(speculation_queue[p]) /\ c # d
        BY ContentsNow
      <3> HIDE DEF c, d
      <3> QED
        BY <1>1, <1>5, <2>1, <2>3, <3>1
    <2>4. ASSUME NEW t \in Threads, NEW y \in ToSet(fallback_queue[t]) PROVE x.kind # y.kind
      <3> DEFINE d == <<"fallback", t, 0>>
      <3>1. d \in Places /\ Contents[d] = fallback_queue[t] /\ c # d
        BY ContentsNow
      <3> HIDE DEF c, d
      <3> QED
        BY <1>1, <1>5, <2>1, <2>4, <3>1
    <2> QED
      BY <2>2, <2>3, <2>4
  <1>6. ASSUME NEW o \in Objects, NEW t \in Threads,
               NEW x \in ToSet(EventsIn(speculation_queue[o])), NEW y \in ToSet(fallback_queue[t])
        PROVE  x.kind # y.kind
    <2> DEFINE c == <<"withheld", o, 0>>
               d == <<"fallback", t, 0>>
    <2>1. /\ c \in Places /\ Contents[c] = EventsIn(speculation_queue[o])
          /\ d \in Places /\ Contents[d] = fallback_queue[t] /\ c # d
      BY ContentsNow
    <2> HIDE DEF c, d
    <2> QED
      BY <1>1, <1>6, <2>1
  <1> QED
    BY <1>2, <1>3, <1>4, <1>5, <1>6

\* Of two allocated events of a kind there is only one.
LEMMA OnceAllocated ==
  ASSUME IInv, Once, NEW e \in Allocated, NEW f \in Allocated, e.kind = f.kind
  PROVE  e = f
  <1>1. PICK c \in Places : e \in ToSet(Contents[c])
    BY AllocatedAt
  <1>2. PICK d \in Places : f \in ToSet(Contents[d])
    BY AllocatedAt
  <1>3. c = d
    BY <1>1, <1>2 DEF Once, Unique
  <1>4. Distinct(Contents[c]) /\ Contents[c] \in Seq(Events)
    BY ContentsTypes DEF Once, Unique
  <1>5. PICK i, j \in DOMAIN Contents[c] : e = Contents[c][i] /\ f = Contents[c][j]
    BY <1>1, <1>2, <1>3, <1>4, Elements
  <1> QED
    BY <1>4, <1>5 DEF Distinct

\* An event that is nowhere yet, in a slot.
LEMMA SlotGains ==
  ASSUME IInv, NEW e \in Events, Insert(e), model' = model,
         Distinct(queue[Dest(e)][SlotOf(e)]),
         \A x \in ToSet(queue[Dest(e)][SlotOf(e)]) : x.kind # e.kind
  PROVE  LET b == <<"slot", Dest(e), SlotOf(e)>>
         IN  /\ b \in Places /\ Distinct(Contents'[b])
             /\ \A x \in ToSet(Contents'[b]) : x \in ToSet(Contents[b]) \/ x = e
             /\ \A o \in Objects, s \in Slots : <<"slot", o, s>> # b => queue'[o][s] = queue[o][s]
  <1> DEFINE d == Dest(e)
             s == SlotOf(e)
             b == <<"slot", d, s>>
  <1>1. d \in Objects /\ s \in Slots /\ ModelOK
    BY EventTypes, SlotTypes DEF IInv, Lists
  <1>2. queue \in [Objects -> [Slots -> Seq(Events)]] /\ queue[d][s] \in Seq(Events)
    BY <1>1 DEF IInv, Lists, QueueTypes
  <1>3. queue' = [queue EXCEPT ![d][s] = InsertInOrder(queue[d][s], e)]
    BY DEF Insert
  <1> HIDE DEF d, s
  <1>4. queue'[d][s] = InsertInOrder(queue[d][s], e)
    BY <1>1, <1>2, <1>3
  <1>5. \A o \in Objects, r \in Slots : <<"slot", o, r>> # b => queue'[o][r] = queue[o][r]
    BY <1>1, <1>2, <1>3
  <1>6. Distinct(queue'[d][s]) /\ ToSet(queue'[d][s]) = ToSet(queue[d][s]) \cup {e}
    BY <1>1, <1>2, <1>4, DistinctInsert, Inserted DEF d, s
  <1>7. b \in Places /\ Contents[b] = queue[d][s] /\ Contents'[b] = queue'[d][s]
    BY <1>1, ContentsNow, ContentsNext
  <1> QED
    BY <1>5, <1>6, <1>7 DEF d, s

\* An event that is nowhere yet, beyond the slots.
LEMMA FallbackGains ==
  ASSUME IInv, NEW t \in Threads, NEW e \in Events,
         fallback_queue' = [fallback_queue EXCEPT ![t] = Append(@, e)],
         Distinct(fallback_queue[t]), \A x \in ToSet(fallback_queue[t]) : x.kind # e.kind
  PROVE  LET b == <<"fallback", t, 0>>
         IN  /\ b \in Places /\ Distinct(Contents'[b])
             /\ \A x \in ToSet(Contents'[b]) : x \in ToSet(Contents[b]) \/ x = e
             /\ \A u \in Threads : <<"fallback", u, 0>> # b => fallback_queue'[u] = fallback_queue[u]
  <1> DEFINE b == <<"fallback", t, 0>>
  <1>1. fallback_queue \in [Threads -> Seq(Events)] /\ fallback_queue[t] \in Seq(Events)
    BY DEF IInv, Lists, QueueTypes
  <1>2. /\ fallback_queue'[t] = Append(fallback_queue[t], e)
        /\ \A u \in Threads : <<"fallback", u, 0>> # b => fallback_queue'[u] = fallback_queue[u]
    BY <1>1
  <1>3. /\ Distinct(fallback_queue'[t])
        /\ ToSet(fallback_queue'[t]) = ToSet(fallback_queue[t]) \cup {e}
    BY <1>1, <1>2, DistinctAppend, AppendElements
  <1>4. b \in Places /\ Contents[b] = fallback_queue[t] /\ Contents'[b] = fallback_queue'[t]
    BY ContentsNow, ContentsNext
  <1> QED
    BY <1>2, <1>3, <1>4

LEMMA UnsentPlaces ==
  ASSUME IInv, NEW k, Unsent(k)
  PROVE  \A c \in Places : \A x \in ToSet(Contents[c]) : x.kind # k
  BY AllocatedAt DEF Unsent

LEMMA OnceKept ==
  ASSUME Once, UNCHANGED <<queue, fallback_queue, retractable_queue, speculation_queue>>
  PROVE  Once'
  <1>1. Contents' = Contents
    BY DEF Contents, ListAt, EventsIn
  <1> QED
    BY <1>1 DEF Once

\* A new event, in a slot.
LEMMA OnceInsert ==
  ASSUME IInv, Once, NEW e \in Events, Insert(e), model' = model, Unsent(e.kind),
         UNCHANGED <<fallback_queue, retractable_queue, speculation_queue>>
  PROVE  Once'
  <1> DEFINE d == Dest(e)
             s == SlotOf(e)
             b == <<"slot", d, s>>
             K == {e.kind}
  <1>1. d \in Objects /\ s \in Slots
    BY EventTypes, SlotTypes DEF IInv, Lists
  <1>2. Distinct(queue[d][s]) /\ \A x \in ToSet(queue[d][s]) : x.kind # e.kind
    BY <1>1, OnceLists, AllocatedAt DEF Unsent
  <1>3. /\ b \in Places /\ Distinct(Contents'[b])
        /\ \A x \in ToSet(Contents'[b]) : x \in ToSet(Contents[b]) \/ x = e
        /\ \A o \in Objects, r \in Slots : <<"slot", o, r>> # b => queue'[o][r] = queue[o][r]
    BY <1>2, SlotGains
  <1> HIDE DEF d, s, b
  <1>4. \A c \in Places : c \notin {b} => Contents'[c] = Contents[c]
    <2>1. \A o \in Objects, r \in Slots : <<"slot", o, r>> \notin {b} => queue'[o][r] = queue[o][r]
      BY <1>3
    <2> QED
      BY <2>1, OtherPlaces
  <1>5. \A c \in Places : \A x \in ToSet(Contents[c]) : x.kind \notin K
    BY UnsentPlaces
  <1>6. \A x \in ToSet(Contents'[b]) : x \in ToSet(Contents[b]) \/ x.kind \in K
    BY <1>3
  <1> QED
    BY <1>3, <1>4, <1>5, <1>6, OnceInPlace

\* A new event, in a slot or beyond them.
LEMMA OnceQueueInsert ==
  ASSUME IInv, Once, NEW t \in Threads, NEW e \in Events, QueueInsert(t, e), model' = model,
         Unsent(e.kind), UNCHANGED <<retractable_queue, speculation_queue>>
  PROVE  Once'
  <1>1. CASE Insert(e) /\ UNCHANGED fallback_queue
    BY <1>1, OnceInsert
  <1>2. CASE fallback_queue' = [fallback_queue EXCEPT ![t] = Append(@, e)] /\ UNCHANGED queue
    <2> DEFINE b == <<"fallback", t, 0>>
               K == {e.kind}
    <2>1. Distinct(fallback_queue[t]) /\ \A x \in ToSet(fallback_queue[t]) : x.kind # e.kind
      BY OnceLists, AllocatedAt DEF Unsent
    <2>2. /\ b \in Places /\ Distinct(Contents'[b])
          /\ \A x \in ToSet(Contents'[b]) : x \in ToSet(Contents[b]) \/ x = e
          /\ \A u \in Threads : <<"fallback", u, 0>> # b => fallback_queue'[u] = fallback_queue[u]
      BY <1>2, <2>1, FallbackGains
    <2> HIDE DEF b
    <2>3. \A c \in Places : c \notin {b} => Contents'[c] = Contents[c]
      <3>1. \A u \in Threads : <<"fallback", u, 0>> \notin {b} => fallback_queue'[u] = fallback_queue[u]
        BY <2>2
      <3> QED
        BY <1>2, <3>1, OtherPlaces
    <2>4. \A c \in Places : \A x \in ToSet(Contents[c]) : x.kind \notin K
      BY UnsentPlaces
    <2>5. \A x \in ToSet(Contents'[b]) : x \in ToSet(Contents[b]) \/ x.kind \in K
      BY <2>2
    <2> QED
      BY <2>2, <2>3, <2>4, <2>5, OnceInPlace
  <1> QED
    BY <1>1, <1>2 DEF QueueInsert

\* A withheld send is committed.
LEMMA OnceCommit ==
  ASSUME IInv, Once, NEW t \in Threads, Commit(t)
  PROVE  Once'
  <1> DEFINE o == target[t]
             q == speculation_queue[o]
             e == Head(q).event
             a == <<"withheld", o, 0>>
  <1>1. /\ o \in Objects /\ q # <<>> /\ q \in Seq(Sends) /\ model' = model
        /\ QueueInsert(t, e) /\ UNCHANGED retractable_queue
        /\ speculation_queue' = [speculation_queue EXCEPT ![o] = Tail(@)]
        /\ speculation_queue \in [Objects -> Seq(Sends)]
    BY DEF Commit, IInv, Held, Holds, Lists, QueueTypes
  <1>2. /\ Distinct(EventsIn(Tail(q))) /\ Head(q) \in Sends
        /\ \A x \in ToSet(EventsIn(Tail(q))) : x \in ToSet(EventsIn(q)) /\ x.kind # e.kind
        /\ e \in ToSet(EventsIn(q))
    BY <1>1, OnceLists, EventsInTail
  <1>3. e \in Events
    BY <1>2 DEF Sends
  <1>4. /\ speculation_queue'[o] = Tail(q)
        /\ \A p \in Objects : <<"withheld", p, 0>> # a => speculation_queue'[p] = speculation_queue[p]
    BY <1>1
  <1>5. /\ a \in Places /\ Contents[a] = EventsIn(q) /\ Contents'[a] = EventsIn(speculation_queue'[o])
    BY <1>1, ContentsNow, ContentsNext
  <1>6. EventsIn(speculation_queue'[o]) = EventsIn(Tail(q))
    BY <1>4
  <1> HIDE DEF o, q, e
  <1>7. CASE Insert(e) /\ UNCHANGED fallback_queue
    <2> DEFINE b == <<"slot", Dest(e), SlotOf(e)>>
    <2>1. Dest(e) \in Objects /\ SlotOf(e) \in Slots
      BY <1>3, EventTypes, SlotTypes DEF IInv, Lists
    <2>2. /\ Distinct(queue[Dest(e)][SlotOf(e)])
          /\ \A x \in ToSet(queue[Dest(e)][SlotOf(e)]) : x.kind # e.kind
      BY <1>1, <1>2, <2>1, OnceLists DEF q
    <2>3. /\ b \in Places /\ Distinct(Contents'[b])
          /\ \A x \in ToSet(Contents'[b]) : x \in ToSet(Contents[b]) \/ x = e
          /\ \A p \in Objects, r \in Slots : <<"slot", p, r>> # b => queue'[p][r] = queue[p][r]
      BY <1>1, <1>3, <1>7, <2>2, SlotGains
    <2>4. a # b
      OBVIOUS
    <2> HIDE DEF a, b
    <2>5. \A c \in Places : c \notin {a, b} => Contents'[c] = Contents[c]
      <3>1. \A p \in Objects, r \in Slots : <<"slot", p, r>> \notin {a, b} => queue'[p][r] = queue[p][r]
        BY <2>3
      <3>2. \A p \in Objects : <<"withheld", p, 0>> \notin {a, b}
                                    => speculation_queue'[p] = speculation_queue[p]
        BY <1>4
      <3> QED
        BY <1>1, <1>7, <3>1, <3>2, OtherPlaces
    <2> QED
      BY <1>2, <1>5, <1>6, <2>3, <2>4, <2>5, OnceMoved
  <1>8. CASE fallback_queue' = [fallback_queue EXCEPT ![t] = Append(@, e)] /\ UNCHANGED queue
    <2> DEFINE b == <<"fallback", t, 0>>
    <2>1. Distinct(fallback_queue[t]) /\ \A x \in ToSet(fallback_queue[t]) : x.kind # e.kind
      BY <1>1, <1>2, OnceLists DEF q
    <2>2. /\ b \in Places /\ Distinct(Contents'[b])
          /\ \A x \in ToSet(Contents'[b]) : x \in ToSet(Contents[b]) \/ x = e
          /\ \A u \in Threads : <<"fallback", u, 0>> # b => fallback_queue'[u] = fallback_queue[u]
      BY <1>3, <1>8, <2>1, FallbackGains
    <2>3. a # b
      OBVIOUS
    <2> HIDE DEF a, b
    <2>4. \A c \in Places : c \notin {a, b} => Contents'[c] = Contents[c]
      <3>1. \A u \in Threads : <<"fallback", u, 0>> \notin {a, b}
                                    => fallback_queue'[u] = fallback_queue[u]
        BY <2>2
      <3>2. \A p \in Objects : <<"withheld", p, 0>> \notin {a, b}
                                    => speculation_queue'[p] = speculation_queue[p]
        BY <1>4
      <3> QED
        BY <1>1, <1>8, <3>1, <3>2, OtherPlaces
    <2> QED
      BY <1>2, <1>5, <1>6, <2>2, <2>3, <2>4, OnceMoved
  <1> QED
    BY <1>1, <1>7, <1>8 DEF QueueInsert

\* A withheld event that has become due.
LEMMA OnceFallback ==
  ASSUME IInv, Once, NEW t \in Threads, FallbackInsert(t)
  PROVE  Once'
  <1>1. PICK i \in Due(t) : /\ Insert(fallback_queue[t][i])
                            /\ fallback_queue' = [fallback_queue EXCEPT ![t] = RemoveAt(@, i)]
    BY DEF FallbackInsert
  <1> DEFINE q == fallback_queue[t]
             e == q[i]
             a == <<"fallback", t, 0>>
             b == <<"slot", Dest(e), SlotOf(e)>>
  <1>2. /\ q \in Seq(Events) /\ model' = model /\ fallback_queue \in [Threads -> Seq(Events)]
        /\ UNCHANGED <<retractable_queue, speculation_queue>>
    BY DEF FallbackInsert, IInv, Lists, QueueTypes
  <1>3. i \in 1..Len(q) /\ e \in Events /\ e \in ToSet(q)
    BY <1>2, Elements DEF Due
  <1>4. /\ fallback_queue'[t] = RemoveAt(q, i)
        /\ \A u \in Threads : <<"fallback", u, 0>> # a => fallback_queue'[u] = fallback_queue[u]
    BY <1>1, <1>2
  <1>5. /\ Distinct(RemoveAt(q, i)) /\ ToSet(RemoveAt(q, i)) \subseteq ToSet(q)
        /\ \A x \in ToSet(RemoveAt(q, i)) : x.kind # e.kind
    BY <1>2, <1>3, OnceLists, DistinctRemove, RemovedElements
  <1>6. a \in Places /\ Contents[a] = q /\ Contents'[a] = fallback_queue'[t]
    BY ContentsNow, ContentsNext
  <1>7. Dest(e) \in Objects /\ SlotOf(e) \in Slots
    BY <1>3, EventTypes, SlotTypes DEF IInv, Lists
  <1>8. /\ Distinct(queue[Dest(e)][SlotOf(e)])
        /\ \A x \in ToSet(queue[Dest(e)][SlotOf(e)]) : x.kind # e.kind
    BY <1>3, <1>7, OnceLists
  <1> HIDE DEF e
  <1>9. Insert(e)
    BY <1>1 DEF e
  <1>10. /\ b \in Places /\ Distinct(Contents'[b])
         /\ \A x \in ToSet(Contents'[b]) : x \in ToSet(Contents[b]) \/ x = e
         /\ \A p \in Objects, r \in Slots : <<"slot", p, r>> # b => queue'[p][r] = queue[p][r]
    BY <1>2, <1>3, <1>8, <1>9, SlotGains
  <1>11. a # b
    OBVIOUS
  <1> HIDE DEF a, b, q
  <1>12. \A c \in Places : c \notin {a, b} => Contents'[c] = Contents[c]
    <2>1. \A p \in Objects, r \in Slots : <<"slot", p, r>> \notin {a, b} => queue'[p][r] = queue[p][r]
      BY <1>10
    <2>2. \A u \in Threads : <<"fallback", u, 0>> \notin {a, b} => fallback_queue'[u] = fallback_queue[u]
      BY <1>4
    <2> QED
      BY <1>2, <2>1, <2>2, OtherPlaces
  <1> QED
    BY <1>3, <1>4, <1>5, <1>6, <1>10, <1>11, <1>12, OnceMoved

\* Lists that only lose events.
LEMMA OnceLosses ==
  ASSUME IInv, Once,
         \A o \in Objects, s \in Slots : /\ Distinct(queue'[o][s])
                                         /\ ToSet(queue'[o][s]) \subseteq ToSet(queue[o][s]),
         \A o \in Objects : /\ Distinct(retractable_queue'[o])
                            /\ ToSet(retractable_queue'[o]) \subseteq ToSet(retractable_queue[o]),
         \A o \in Objects : /\ Distinct(EventsIn(speculation_queue'[o]))
                            /\ ToSet(EventsIn(speculation_queue'[o]))
                                    \subseteq ToSet(EventsIn(speculation_queue[o])),
         UNCHANGED fallback_queue
  PROVE  Once'
  <1> SUFFICES ASSUME NEW c \in Places
               PROVE  Distinct(Contents'[c]) /\ ToSet(Contents'[c]) \subseteq ToSet(Contents[c])
    BY OnceShrinks
  <1>1. ASSUME NEW o \in Objects, NEW s \in Slots, c = <<"slot", o, s>>
        PROVE  Distinct(Contents'[c]) /\ ToSet(Contents'[c]) \subseteq ToSet(Contents[c])
    <2>1. Contents[<<"slot", o, s>>] = queue[o][s] /\ Contents'[<<"slot", o, s>>] = queue'[o][s]
      BY ContentsNow, ContentsNext
    <2> QED
      BY <1>1, <2>1
  <1>2. ASSUME NEW t \in Threads, c = <<"fallback", t, 0>>
        PROVE  Distinct(Contents'[c]) /\ ToSet(Contents'[c]) \subseteq ToSet(Contents[c])
    <2>1. /\ Contents[<<"fallback", t, 0>>] = fallback_queue[t]
          /\ Contents'[<<"fallback", t, 0>>] = fallback_queue'[t]
      BY ContentsNow, ContentsNext
    <2>2. Distinct(fallback_queue[t])
      BY OnceLists
    <2> QED
      BY <1>2, <2>1, <2>2
  <1>3. ASSUME NEW o \in Objects, c = <<"retractable", o, 0>>
        PROVE  Distinct(Contents'[c]) /\ ToSet(Contents'[c]) \subseteq ToSet(Contents[c])
    <2>1. /\ Contents[<<"retractable", o, 0>>] = retractable_queue[o]
          /\ Contents'[<<"retractable", o, 0>>] = retractable_queue'[o]
      BY ContentsNow, ContentsNext
    <2> QED
      BY <1>3, <2>1
  <1>4. ASSUME NEW o \in Objects, c = <<"withheld", o, 0>>
        PROVE  Distinct(Contents'[c]) /\ ToSet(Contents'[c]) \subseteq ToSet(Contents[c])
    <2>1. /\ Contents[<<"withheld", o, 0>>] = EventsIn(speculation_queue[o])
          /\ Contents'[<<"withheld", o, 0>>] = EventsIn(speculation_queue'[o])
      BY ContentsNow, ContentsNext
    <2> QED
      BY <1>4, <2>1
  <1> QED
    BY <1>1, <1>2, <1>3, <1>4, PlaceIs

LEMMA OnceRestore ==
  ASSUME IInv, Once, NEW t \in Threads, Restore(t)
  PROVE  Once'
  <1>1. /\ target[t] \in Objects /\ UNCHANGED <<queue, retractable_queue, fallback_queue>>
        /\ speculation_queue' = [speculation_queue EXCEPT ![target[t]] =
                                    Before(speculation_queue[target[t]], rollback_time[t])]
        /\ speculation_queue \in [Objects -> Seq(Sends)]
    BY DEF Restore, IInv, Held, Holds, Lists, QueueTypes
  <1>2. \A o \in Objects : \/ speculation_queue'[o] = speculation_queue[o]
                           \/ speculation_queue'[o] = Before(speculation_queue[o], rollback_time[t])
    BY <1>1
  <1>3. \A o \in Objects : /\ Distinct(EventsIn(speculation_queue'[o]))
                           /\ ToSet(EventsIn(speculation_queue'[o]))
                                   \subseteq ToSet(EventsIn(speculation_queue[o]))
    BY <1>1, <1>2, OnceLists, EventsInBefore
  <1> QED
    BY <1>1, <1>3, OnceLists, OnceLosses

LEMMA OnceRetract ==
  ASSUME IInv, Once, NEW t \in Threads, Retract(t)
  PROVE  Once'
  <1>1. /\ UNCHANGED <<queue, speculation_queue, fallback_queue>>
        /\ \/ UNCHANGED retractable_queue
           \/ retractable_queue' = [retractable_queue EXCEPT ![retractable_object_identifiers] = <<>>]
        /\ retractable_queue \in [Objects -> Seq(Events)]
    BY DEF Retract, IInv, Lists, QueueTypes
  <1>2. \A o \in Objects : retractable_queue'[o] = retractable_queue[o] \/ retractable_queue'[o] = <<>>
    BY <1>1
  <1>3. \A o \in Objects : /\ Distinct(retractable_queue'[o])
                           /\ ToSet(retractable_queue'[o]) \subseteq ToSet(retractable_queue[o])
    BY <1>2, OnceLists, DistinctEmpty, EmptyElements
  <1> QED
    BY <1>1, <1>3, OnceLists, OnceLosses

\* Annihilation of the last send in a log: its event is no more.
LEMMA OnceAnnihilate ==
  ASSUME IInv, Once, NEW t \in Threads, Annihilate(t)
  PROVE  LET e == Last(log_queue[target[t]]).event
         IN  Once' /\ (Listed(e) /\ SlotOf(e) = current_index =>
                /\ \A o \in Objects, s \in Slots : e \notin ToSet(queue'[o][s])
                /\ \A o \in Objects : e \notin ToSet(retractable_queue'[o])
                /\ \A u \in Threads : e \notin ToSet(fallback_queue'[u])
                /\ \A o \in Objects : e \notin ToSet(EventsIn(speculation_queue'[o])))
  <1> DEFINE e == Last(log_queue[target[t]]).event
             d == Dest(e)
             s == SlotOf(e)
  <1>1. /\ e \in Events /\ d \in Objects /\ s \in Slots
        /\ queue' = [queue EXCEPT ![d][s] = Without(queue[d][s], e)]
        /\ retractable_queue' = [retractable_queue EXCEPT ![d] = Without(retractable_queue[d], e)]
        /\ UNCHANGED <<fallback_queue, speculation_queue>>
    BY AnnihilateEffect DEF Annihilate
  <1> HIDE DEF e
  <1>2. /\ queue \in [Objects -> [Slots -> Seq(Events)]] /\ retractable_queue \in [Objects -> Seq(Events)]
        /\ ModelOK
    BY DEF IInv, Lists, QueueTypes
  <1>3. /\ queue'[d][s] = Without(queue[d][s], e)
        /\ \A o \in Objects, r \in Slots : o # d \/ r # s => queue'[o][r] = queue[o][r]
        /\ retractable_queue'[d] = Without(retractable_queue[d], e)
        /\ \A o \in Objects : o # d => retractable_queue'[o] = retractable_queue[o]
    BY <1>1, <1>2
  <1>4. /\ Distinct(queue'[d][s]) /\ e \notin ToSet(queue'[d][s])
        /\ ToSet(queue'[d][s]) \subseteq ToSet(queue[d][s])
        /\ Distinct(retractable_queue'[d]) /\ e \notin ToSet(retractable_queue'[d])
        /\ ToSet(retractable_queue'[d]) \subseteq ToSet(retractable_queue[d])
    <2>1. queue[d][s] \in Seq(Events) /\ retractable_queue[d] \in Seq(Events)
      BY <1>1, <1>2
    <2>2. Distinct(queue[d][s]) /\ Distinct(retractable_queue[d])
      BY <1>1, OnceLists
    <2> QED
      BY <1>2, <1>3, <2>1, <2>2, DistinctWithout, Unlinked
  <1>5. /\ \A o \in Objects, r \in Slots : /\ Distinct(queue'[o][r])
                                           /\ ToSet(queue'[o][r]) \subseteq ToSet(queue[o][r])
        /\ \A o \in Objects : /\ Distinct(retractable_queue'[o])
                              /\ ToSet(retractable_queue'[o]) \subseteq ToSet(retractable_queue[o])
    BY <1>3, <1>4, OnceLists
  <1>6. Once'
    BY <1>1, <1>5, OnceLists, OnceLosses
  <1>7. ASSUME Listed(e), s = current_index
        PROVE  /\ \A o \in Objects, r \in Slots : e \notin ToSet(queue'[o][r])
               /\ \A o \in Objects : e \notin ToSet(retractable_queue'[o])
               /\ \A u \in Threads : e \notin ToSet(fallback_queue'[u])
               /\ \A o \in Objects : e \notin ToSet(EventsIn(speculation_queue'[o]))
    <2> DEFINE a == <<"slot", d, s>>
               b == <<"retractable", d, 0>>
    <2>1. /\ a \in Places /\ b \in Places
          /\ Contents[a] = queue[d][s] /\ Contents[b] = retractable_queue[d]
      BY <1>1, ContentsNow
    <2>2. PICK c \in {a, b} : e \in ToSet(Contents[c])
      BY <1>7, <2>1 DEF Listed
    <2>3. \A p \in Places : p \notin {a, b} => e \notin ToSet(Contents[p])
      BY <2>1, <2>2 DEF Once, Unique
    <2> HIDE DEF a, b
    <2>4. ASSUME NEW o \in Objects, NEW r \in Slots PROVE e \notin ToSet(queue'[o][r])
      <3>1. CASE o = d /\ r = s
        BY <1>4, <3>1
      <3>2. CASE o # d \/ r # s
        <4>1. <<"slot", o, r>> \notin {a, b} /\ <<"slot", o, r>> \in Places
              /\ Contents[<<"slot", o, r>>] = queue[o][r]
          BY <3>2, ContentsNow DEF a, b
        <4> QED
          BY <1>3, <2>3, <3>2, <4>1
      <3> QED
        BY <3>1, <3>2
    <2>5. ASSUME NEW o \in Objects PROVE e \notin ToSet(retractable_queue'[o])
      <3>1. CASE o = d
        BY <1>4, <3>1
      <3>2. CASE o # d
        <4>1. /\ <<"retractable", o, 0>> \notin {a, b} /\ <<"retractable", o, 0>> \in Places
              /\ Contents[<<"retractable", o, 0>>] = retractable_queue[o]
          BY <3>2, ContentsNow DEF a, b
        <4> QED
          BY <1>3, <2>3, <3>2, <4>1
      <3> QED
        BY <3>1, <3>2
    <2>6. ASSUME NEW u \in Threads PROVE e \notin ToSet(fallback_queue'[u])
      <3>1. /\ <<"fallback", u, 0>> \notin {a, b} /\ <<"fallback", u, 0>> \in Places
            /\ Contents[<<"fallback", u, 0>>] = fallback_queue[u]
        BY ContentsNow DEF a, b
      <3> QED
        BY <1>1, <2>3, <3>1
    <2>7. ASSUME NEW o \in Objects PROVE e \notin ToSet(EventsIn(speculation_queue'[o]))
      <3>1. /\ <<"withheld", o, 0>> \notin {a, b} /\ <<"withheld", o, 0>> \in Places
            /\ Contents[<<"withheld", o, 0>>] = EventsIn(speculation_queue[o])
        BY ContentsNow DEF a, b
      <3> QED
        BY <1>1, <2>3, <3>1
    <2> QED
      BY <2>4, <2>5, <2>6, <2>7
  <1> QED
    BY <1>6, <1>7 DEF e

LEMMA OnceReinsert ==
  ASSUME IInv, Once, NEW t \in Threads, Reinsert(t)
  PROVE  Once'
  <1> DEFINE o == target[t]
             s == current_index
             a == <<"retractable", o, 0>>
             b == <<"slot", o, s>>
             q == queue[o][s] \o retractable_queue[o]
  <1>1. /\ o \in Objects /\ s \in Slots /\ UNCHANGED <<fallback_queue, speculation_queue>>
        /\ queue' = [queue EXCEPT ![o][s] = InTimeOrder(q)]
        /\ retractable_queue' = [retractable_queue EXCEPT ![o] = <<>>]
        /\ queue \in [Objects -> [Slots -> Seq(Events)]] /\ retractable_queue \in [Objects -> Seq(Events)]
        /\ ModelOK
    BY TimeTypes DEF Reinsert, IInv, Held, Holds, Lists, QueueTypes
  <1> HIDE DEF o, s
  <1>2. queue[o][s] \in Seq(Events) /\ retractable_queue[o] \in Seq(Events)
    BY <1>1
  <1>3. q \in Seq(Events) /\ ToSet(q) = ToSet(queue[o][s]) \cup ToSet(retractable_queue[o])
    BY <1>2, ConcatElements
  <1>4. Distinct(q)
    BY <1>1, <1>2, OnceLists, DistinctConcat
  <1> HIDE DEF q
  <1>5. Distinct(InTimeOrder(q)) /\ ToSet(InTimeOrder(q)) = ToSet(q)
    BY <1>1, <1>3, <1>4, DistinctInTimeOrder, Ordered
  <1>6. /\ queue'[o][s] = InTimeOrder(q) /\ retractable_queue'[o] = <<>>
        /\ \A p \in Objects, r \in Slots : <<"slot", p, r>> # b => queue'[p][r] = queue[p][r]
        /\ \A p \in Objects : <<"retractable", p, 0>> # a => retractable_queue'[p] = retractable_queue[p]
    BY <1>1
  <1>7. /\ a \in Places /\ b \in Places /\ a # b
        /\ Contents[a] = retractable_queue[o] /\ Contents[b] = queue[o][s]
        /\ Contents'[a] = <<>> /\ Contents'[b] = InTimeOrder(q)
    BY <1>1, <1>6, ContentsNow, ContentsNext
  <1> HIDE DEF a, b
  <1>8. \A c \in Places : c \notin {a, b} => Contents'[c] = Contents[c]
    <2>1. \A p \in Objects, r \in Slots : <<"slot", p, r>> \notin {a, b} => queue'[p][r] = queue[p][r]
      BY <1>6
    <2>2. \A p \in Objects : <<"retractable", p, 0>> \notin {a, b}
                                => retractable_queue'[p] = retractable_queue[p]
      BY <1>6
    <2> QED
      BY <1>1, <2>1, <2>2, OtherPlaces
  <1> DEFINE f == Contents
             g == Contents'
  <1>9. /\ Unique(Places, f) /\ ToSet(g[a]) = {} /\ Distinct(g[a]) /\ Distinct(g[b])
        /\ ToSet(g[b]) \subseteq ToSet(f[a]) \cup ToSet(f[b])
        /\ \A c \in Places : c \notin {a, b} => g[c] = f[c]
    BY <1>3, <1>5, <1>7, <1>8, DistinctEmpty, EmptyElements DEF Once
  <1> HIDE DEF f, g
  <1>10. Unique(Places, g)
    BY <1>7, <1>9, Poured
  <1> QED
    BY <1>10 DEF Once, g

LEMMA OnceExtract ==
  ASSUME IInv, Once, NEW t \in Threads, Extract(t)
  PROVE  Once'
  <1> DEFINE o == target[t]
             s == current_index
             q == queue[o][s]
             e == Head(q)
             a == <<"slot", o, s>>
             b == <<"retractable", o, 0>>
  <1>1. /\ o \in Objects /\ s \in Slots /\ UNCHANGED <<fallback_queue, speculation_queue>>
        /\ q # <<>> /\ queue' = [queue EXCEPT ![o][s] = Tail(q)]
        /\ retractable_queue' = [retractable_queue EXCEPT ![o] = Append(retractable_queue[o], e)]
        /\ queue \in [Objects -> [Slots -> Seq(Events)]] /\ retractable_queue \in [Objects -> Seq(Events)]
    BY TimeTypes DEF Extract, HasWork, IInv, Held, Holds, Lists, QueueTypes
  <1> HIDE DEF o, s
  <1>2. q \in Seq(Events) /\ retractable_queue[o] \in Seq(Events)
    BY <1>1
  <1>3. Distinct(q) /\ Distinct(retractable_queue[o])
    BY <1>1, OnceLists
  <1>4. /\ e \in Events /\ e \in ToSet(q) /\ ToSet(Tail(q)) \subseteq ToSet(q)
        /\ Distinct(Tail(q)) /\ \A x \in ToSet(Tail(q)) : x.kind # e.kind
    BY <1>1, <1>2, <1>3, EndsElements, EndsType, DistinctTail
  <1>5. \A x \in ToSet(retractable_queue[o]) : x.kind # e.kind
    BY <1>1, <1>4, OnceLists
  <1> HIDE DEF e
  <1>6. /\ Distinct(Append(retractable_queue[o], e))
        /\ ToSet(Append(retractable_queue[o], e)) = ToSet(retractable_queue[o]) \cup {e}
    BY <1>2, <1>3, <1>4, <1>5, DistinctAppend, AppendElements
  <1>7. /\ queue'[o][s] = Tail(q) /\ retractable_queue'[o] = Append(retractable_queue[o], e)
        /\ \A p \in Objects, r \in Slots : <<"slot", p, r>> # a => queue'[p][r] = queue[p][r]
        /\ \A p \in Objects : <<"retractable", p, 0>> # b => retractable_queue'[p] = retractable_queue[p]
    BY <1>1
  <1>8. /\ a \in Places /\ b \in Places /\ a # b
        /\ Contents[a] = q /\ Contents[b] = retractable_queue[o]
        /\ Contents'[a] = Tail(q) /\ Contents'[b] = Append(retractable_queue[o], e)
    BY <1>1, <1>7, ContentsNow, ContentsNext
  <1> HIDE DEF a, b, q
  <1>9. \A c \in Places : c \notin {a, b} => Contents'[c] = Contents[c]
    <2>1. \A p \in Objects, r \in Slots : <<"slot", p, r>> \notin {a, b} => queue'[p][r] = queue[p][r]
      BY <1>7
    <2>2. \A p \in Objects : <<"retractable", p, 0>> \notin {a, b}
                                => retractable_queue'[p] = retractable_queue[p]
      BY <1>7
    <2> QED
      BY <1>1, <2>1, <2>2, OtherPlaces
  <1>10. /\ \E y \in ToSet(Contents[a]) : y.kind = e.kind
         /\ Distinct(Contents'[a]) /\ Distinct(Contents'[b])
         /\ \A x \in ToSet(Contents'[a]) : x \in ToSet(Contents[a]) /\ x.kind # e.kind
         /\ \A x \in ToSet(Contents'[b]) : x \in ToSet(Contents[b]) \/ x.kind = e.kind
    BY <1>4, <1>6, <1>8
  <1> QED
    BY <1>8, <1>9, <1>10, OnceMoved

\* A send is withheld.
LEMMA OnceLater ==
  ASSUME IInv, Once, NEW t \in Threads, SendLater(t), Unsent(NextSend(t))
  PROVE  Once'
  <1>1. PICK c \in Copies :
            speculation_queue' = [speculation_queue EXCEPT ![current[t]] =
                Append(@, [event |-> [kind |-> NextSend(t), copy |-> c],
                           send_time |-> Time(event[t][1])])]
    BY DEF SendLater
  <1> DEFINE o == current[t]
             x == [event |-> [kind |-> NextSend(t), copy |-> c], send_time |-> Time(event[t][1])]
             q == speculation_queue[o]
             b == <<"withheld", o, 0>>
             K == {NextSend(t)}
  <1>2. /\ event[t] \in Seq(Events) /\ event[t] # <<>> /\ o = Dest(event[t][1])
        /\ outbox[t] \in Seq(Kinds) /\ outbox[t] # <<>> /\ ModelOK
        /\ speculation_queue \in [Objects -> Seq(Sends)]
        /\ UNCHANGED <<queue, retractable_queue, fallback_queue>>
    BY DEF SendLater, IInv, ThreadTypes, Held, Holds, Lists, QueueTypes
  <1>3. event[t][1] \in Events /\ NextSend(t) \in Kinds
    BY <1>2 DEF NextSend
  <1>4. o \in Objects /\ Time(event[t][1]) \in Nat
    BY <1>2, <1>3, EventTypes
  <1>5. x \in Sends /\ x.event.kind = NextSend(t)
    BY <1>3, <1>4 DEF Sends, Events
  <1> HIDE DEF o, x
  <1>6. /\ speculation_queue'[o] = Append(q, x)
        /\ \A p \in Objects : <<"withheld", p, 0>> # b => speculation_queue'[p] = speculation_queue[p]
    BY <1>1, <1>2, <1>4 DEF o, x
  <1>7. /\ b \in Places /\ Contents[b] = EventsIn(q) /\ Contents'[b] = EventsIn(Append(q, x))
    BY <1>4, <1>6, ContentsNow, ContentsNext
  <1>8. \A p \in Places : \A y \in ToSet(Contents[p]) : y.kind # NextSend(t)
    BY UnsentPlaces
  <1>9. q \in Seq(Sends) /\ Distinct(EventsIn(q))
    BY <1>2, <1>4, OnceLists
  <1>10. /\ Distinct(Contents'[b])
         /\ \A y \in ToSet(Contents'[b]) : y \in ToSet(Contents[b]) \/ y.kind \in K
    BY <1>5, <1>7, <1>8, <1>9, EventsInAppend
  <1> HIDE DEF b
  <1>11. \A p \in Places : p \notin {b} => Contents'[p] = Contents[p]
    <2>1. \A p \in Objects : <<"withheld", p, 0>> \notin {b} => speculation_queue'[p] = speculation_queue[p]
      BY <1>6
    <2> QED
      BY <1>2, <2>1, OtherPlaces
  <1>12. \A p \in Places : \A y \in ToSet(Contents[p]) : y.kind \notin K
    BY <1>8
  <1> HIDE DEF K
  <1> QED
    BY <1>7, <1>10, <1>11, <1>12, OnceInPlace

LEMMA OnceStep ==
  ASSUME IInv, Once, NEW t \in Threads, Step(t),
         InitSend(t) => Unsent(Head(outbox[t])),
         SendNow(t) \/ SendLater(t) => Unsent(NextSend(t))
  PROVE  Once'
  <1>1. CASE ListsKept(t)
    BY <1>1, NoListMoves, OnceKept
  <1>2. CASE InitSend(t)
    <2>1. PICK c \in Copies : QueueInsert(t, [kind |-> Head(outbox[t]), copy |-> c])
      BY <1>2 DEF InitSend
    <2> DEFINE e == [kind |-> Head(outbox[t]), copy |-> c]
    <2>2. /\ e \in Events /\ e.kind = Head(outbox[t])
          /\ UNCHANGED <<model, retractable_queue, speculation_queue>>
      <3>1. outbox[t] \in Seq(Kinds) /\ outbox[t] # <<>>
        BY <1>2 DEF InitSend, IInv, ThreadTypes
      <3> QED
        BY <1>2, <3>1 DEF InitSend, Events
    <2> HIDE DEF e
    <2>3. QueueInsert(t, e)
      BY <2>1 DEF e
    <2> QED
      BY <1>2, <2>2, <2>3, OnceQueueInsert
  <1>3. CASE SendNow(t)
    <2>1. PICK c \in Copies : /\ [kind |-> NextSend(t), copy |-> c] \in Events
                              /\ Insert([kind |-> NextSend(t), copy |-> c])
      BY <1>3, SendNowEffect
    <2> DEFINE e == [kind |-> NextSend(t), copy |-> c]
    <2>2. e.kind = NextSend(t)
      OBVIOUS
    <2>3. UNCHANGED <<model, fallback_queue, retractable_queue, speculation_queue>>
      BY <1>3 DEF SendNow
    <2> HIDE DEF e
    <2>4. e \in Events /\ Insert(e)
      BY <2>1 DEF e
    <2> QED
      BY <1>3, <2>2, <2>3, <2>4, OnceInsert
  <1> QED
    BY <1>1, <1>2, <1>3, OnceCommit, OnceFallback, OnceRestore, OnceRetract, OnceAnnihilate,
       OnceReinsert, OnceExtract, OnceLater DEF Step, ListsKept

\* What a model promises.
LEMMA ModelFacts ==
  ASSUME ModelOK
  PROVE  /\ \A k \in Kinds : /\ model.next[k] \in Seq(Kinds) /\ IsInjective(model.next[k])
                             /\ model.dest[k] \in Objects /\ model.time[k] \in Nat \ {0}
         /\ \A o \in Objects : model.init[o] \in Seq(Kinds) /\ IsInjective(model.init[o])
         /\ \A p, q \in Kinds : \A k \in ToSet(model.next[p]) : k \in ToSet(model.next[q]) => p = q
         /\ \A o, p \in Objects : \A k \in ToSet(model.init[o]) : k \in ToSet(model.init[p]) => o = p
         /\ \A o \in Objects, p \in Kinds : \A k \in ToSet(model.init[o]) : k \notin ToSet(model.next[p])
         /\ \A p \in Kinds : \A k \in ToSet(model.next[p]) : model.time[k] > model.time[p]
  <1>1. IsModel(model)
    BY ModelsAssumption DEF ModelOK
  <1>2. /\ \A k \in Kinds : /\ model.next[k] \in Seq(Kinds)
                            /\ model.dest[k] \in Objects /\ model.time[k] \in Nat \ {0}
        /\ \A o \in Objects : model.init[o] \in Seq(Kinds)
    BY ModelTypes
  <1>3. /\ \A p, q \in Kinds : \A i \in DOMAIN model.next[p], j \in DOMAIN model.next[q] :
              model.next[p][i] = model.next[q][j] => p = q /\ i = j
        /\ \A o, p \in Objects : \A i \in DOMAIN model.init[o], j \in DOMAIN model.init[p] :
              model.init[o][i] = model.init[p][j] => o = p /\ i = j
        /\ \A o \in Objects, k \in Kinds : ToSet(model.init[o]) \cap ToSet(model.next[k]) = {}
        /\ \A p \in Kinds : \A i \in DOMAIN model.next[p] : model.time[model.next[p][i]] > model.time[p]
    BY <1>1 DEF IsModel
  <1>4. /\ \A p \in Kinds : \A k \in ToSet(model.next[p]) : \E i \in DOMAIN model.next[p] :
              k = model.next[p][i]
        /\ \A o \in Objects : \A k \in ToSet(model.init[o]) : \E i \in DOMAIN model.init[o] :
              k = model.init[o][i]
    BY <1>2, Elements
  <1>5. /\ \A p \in Kinds : IsInjective(model.next[p])
        /\ \A o \in Objects : IsInjective(model.init[o])
    BY <1>3 DEF IsInjective
  <1>6. /\ \A p, q \in Kinds : \A k \in ToSet(model.next[p]) : k \in ToSet(model.next[q]) => p = q
        /\ \A o, p \in Objects : \A k \in ToSet(model.init[o]) : k \in ToSet(model.init[p]) => o = p
    BY <1>3, <1>4
  <1>7. /\ \A o \in Objects, p \in Kinds : \A k \in ToSet(model.init[o]) : k \notin ToSet(model.next[p])
        /\ \A p \in Kinds : \A k \in ToSet(model.next[p]) : model.time[k] > model.time[p]
    BY <1>3, <1>4
  <1> QED
    BY <1>2, <1>5, <1>6, <1>7

LEMMA TailInjective ==
  ASSUME NEW S, NEW q \in Seq(S), q # <<>>, IsInjective(q)
  PROVE  /\ IsInjective(Tail(q)) /\ Head(q) \notin ToSet(Tail(q)) /\ Tail(q) \in Seq(S)
         /\ ToSet(Tail(q)) \subseteq ToSet(q) /\ Head(q) \in ToSet(q) /\ Head(q) \in S
  <1> DEFINE r == Tail(q)
  <1>1. /\ r \in Seq(S) /\ Len(r) = Len(q) - 1 /\ Len(q) \in Nat /\ Head(q) = q[1] /\ Len(q) > 0
        /\ \A i \in 1..(Len(q) - 1) : r[i] = q[i + 1]
        /\ Head(q) \in S
    OBVIOUS
  <1>2. ToSet(r) \subseteq ToSet(q) /\ Head(q) \in ToSet(q)
    BY EndsElements
  <1> HIDE DEF r
  <1>3. DOMAIN q = 1..Len(q) /\ DOMAIN r = 1..(Len(q) - 1)
    BY <1>1, Elements
  <1>4. IsInjective(r)
    BY <1>1, <1>3 DEF IsInjective
  <1>5. Head(q) \notin ToSet(r)
    <2> SUFFICES ASSUME NEW i \in 1..(Len(q) - 1), r[i] = q[1] PROVE FALSE
      BY <1>1, <1>3, Elements
    <2>1. i + 1 \in DOMAIN q /\ 1 \in DOMAIN q /\ q[i + 1] = q[1]
      BY <1>1, <1>3
    <2> QED
      BY <2>1 DEF IsInjective
  <1> QED
    BY <1>1, <1>2, <1>4, <1>5 DEF r

\* What is allocated after a step.
LEMMA AllocatedNext ==
  ASSUME NEW e
  PROVE  e \in Allocated' <=> \/ \E o \in Objects, s \in Slots : e \in ToSet(queue'[o][s])
                              \/ \E o \in Objects : e \in ToSet(retractable_queue'[o])
                              \/ \E t \in Threads : e \in ToSet(fallback_queue'[t])
                              \/ \E o \in Objects : \E x \in ToSet(speculation_queue'[o]) : x.event = e
  <1> DEFINE A == {ToSet(queue'[o][s]) : o \in Objects, s \in Slots}
             B == {ToSet(retractable_queue'[o]) : o \in Objects}
             C == {ToSet(fallback_queue'[t]) : t \in Threads}
             W(o) == {x.event : x \in ToSet(speculation_queue'[o])}
             D == {W(o) : o \in Objects}
  <1>1. e \in Allocated' <=> (\E X \in A : e \in X) \/ (\E X \in B : e \in X)
                             \/ (\E X \in C : e \in X) \/ (\E X \in D : e \in X)
    BY DEF Allocated
  <1>2. (\E X \in A : e \in X) <=> \E o \in Objects, s \in Slots : e \in ToSet(queue'[o][s])
    OBVIOUS
  <1>3. (\E X \in B : e \in X) <=> \E o \in Objects : e \in ToSet(retractable_queue'[o])
    OBVIOUS
  <1>4. (\E X \in C : e \in X) <=> \E t \in Threads : e \in ToSet(fallback_queue'[t])
    OBVIOUS
  <1>5. (\E X \in D : e \in X) <=> \E o \in Objects : e \in W(o)
    OBVIOUS
  <1>6. \A o \in Objects : e \in W(o) <=> \E x \in ToSet(speculation_queue'[o]) : x.event = e
    OBVIOUS
  <1> HIDE DEF A, B, C, D, W
  <1> QED
    BY <1>1, <1>2, <1>3, <1>4, <1>5, <1>6

\* Only a send allocates an event.
LEMMA AllocatedMoves ==
  ASSUME IInv, NEW t \in Threads, Step(t), NEW e \in Allocated'
  PROVE  \/ e \in Allocated
         \/ InitSend(t) /\ e.kind = Head(outbox[t])
         \/ (SendNow(t) \/ SendLater(t)) /\ e.kind = NextSend(t)
  <1>1. ASSUME NEW o \in Objects, NEW x \in ToSet(speculation_queue[o]) PROVE x.event \in Allocated
    BY AllocatedAt
  <1>2. ASSUME NEW o \in Objects, NEW s \in Slots, e \in ToSet(queue'[o][s])
        PROVE  \/ e \in Allocated
               \/ InitSend(t) /\ e.kind = Head(outbox[t])
               \/ (SendNow(t) \/ SendLater(t)) /\ e.kind = NextSend(t)
    <2>1. Commit(t) => target[t] \in Objects
      BY DEF Commit, IInv, Held, Holds
    <2> QED
      BY <1>1, <1>2, <2>1, QueueElements, AllocatedAt
  <1>3. ASSUME NEW o \in Objects, e \in ToSet(retractable_queue'[o]) PROVE e \in Allocated
    <2>1. current_index \in Slots
      BY TimeTypes DEF IInv
    <2> QED
      BY <1>3, <2>1, RetractableElements, AllocatedAt
  <1>4. ASSUME NEW u \in Threads, e \in ToSet(fallback_queue'[u])
        PROVE  e \in Allocated \/ (InitSend(t) /\ e.kind = Head(outbox[t]))
    <2>1. Commit(t) => target[t] \in Objects
      BY DEF Commit, IInv, Held, Holds
    <2> QED
      BY <1>1, <1>4, <2>1, FallbackElements, AllocatedAt
  <1>5. ASSUME NEW o \in Objects, NEW x \in ToSet(speculation_queue'[o]), x.event = e
        PROVE  e \in Allocated \/ (SendLater(t) /\ e.kind = NextSend(t))
    BY <1>1, <1>5, WithheldElements
  <1> QED
    BY <1>2, <1>3, <1>4, <1>5, AllocatedNext

LEMMA SameAllocated ==
  ASSUME UNCHANGED <<queue, retractable_queue, fallback_queue, speculation_queue>>
  PROVE  Allocated' = Allocated
  BY DEF Allocated

-----------------------------------------------------------------------------
(* The start *)

\* What INIT has scheduled is sent once.
Startup ==
    AllIn(Starting) =>
        /\ \A e \in Allocated : \E o \in inited : e.kind \in ToSet(model.init[o])
        /\ \A t \in Threads : IsInjective(outbox[t])
        /\ \A t \in Threads : \A k \in ToSet(outbox[t]) :
              Unsent(k) /\ \E o \in inited : HomeThread[o] = t /\ k \in ToSet(model.init[o])

LEMMA StartupStep ==
  ASSUME IInv, Ownership, Startup, NEW t \in Threads, Step(t)
  PROVE  Startup'
  <1> SUFFICES ASSUME AllIn(Starting)'
               PROVE  /\ \A e \in Allocated' : \E o \in inited' : e.kind \in ToSet(model.init[o])
                      /\ \A u \in Threads : IsInjective(outbox'[u])
                      /\ \A u \in Threads : \A k \in ToSet(outbox'[u]) :
                            /\ \A e \in Allocated' : e.kind # k
                            /\ \E o \in inited' : HomeThread[o] = u /\ k \in ToSet(model.init[o])
    BY LimitsMove DEF Startup, Unsent
  <1>1. AllIn(Starting) /\ OthersStay(t)
    BY OneMoves, PhaseKept DEF Ownership, PhasesStay
  <1>2. InitObject(t) \/ InitSend(t) \/ InitDone(t)
    BY <1>1, RunningSteps DEF AllIn
  <1>3. ModelOK /\ inited \subseteq Objects
    BY DEF IInv, Lists, CounterTypes
  <1>4. /\ \A e \in Allocated : \E o \in inited : e.kind \in ToSet(model.init[o])
        /\ \A u \in Threads : IsInjective(outbox[u]) /\ outbox[u] \in Seq(Kinds)
        /\ \A u \in Threads : \A k \in ToSet(outbox[u]) :
              /\ \A e \in Allocated : e.kind # k
              /\ \E o \in inited : HomeThread[o] = u /\ k \in ToSet(model.init[o])
    BY <1>1 DEF Startup, Unsent, IInv, ThreadTypes
  <1>5. \A u \in Threads \ {t} : outbox'[u] = outbox[u]
    BY <1>1 DEF OthersStay
  <1>6. CASE InitObject(t)
    <2>1. PICK o \in Objects \ inited : /\ HomeThread[o] = t /\ inited' = inited \cup {o}
                                        /\ outbox' = [outbox EXCEPT ![t] = model.init[o]]
      BY <1>6 DEF InitObject
    <2>2. outbox'[t] = model.init[o]
      BY <2>1 DEF IInv, ThreadTypes
    <2>3. Allocated' = Allocated
      BY <1>6, NoListMoves, SameAllocated DEF ListsKept
    <2>4. ASSUME NEW u \in Threads, NEW k \in ToSet(outbox'[u])
          PROVE  /\ \A e \in Allocated' : e.kind # k
                 /\ \E p \in inited' : HomeThread[p] = u /\ k \in ToSet(model.init[p])
      <3>1. CASE u # t
        BY <1>4, <1>5, <2>1, <2>3, <2>4, <3>1
      <3>2. CASE u = t
        <4>1. k \in ToSet(model.init[o]) /\ o \in inited' /\ HomeThread[o] = t
          BY <2>1, <2>2, <2>4, <3>2
        <4>2. ASSUME NEW e \in Allocated, e.kind = k PROVE FALSE
          <5>1. PICK p \in inited : k \in ToSet(model.init[p])
            BY <1>4, <4>2
          <5>2. p = o
            BY <1>3, <2>1, <4>1, <5>1, ModelFacts
          <5> QED
            BY <2>1, <5>2
        <4> QED
          BY <2>3, <3>2, <4>1, <4>2
      <3> QED
        BY <3>1, <3>2
    <2>5. ASSUME NEW u \in Threads PROVE IsInjective(outbox'[u])
      <3>1. IsInjective(model.init[o])
        BY <1>3, <2>1, ModelFacts
      <3> QED
        BY <1>4, <1>5, <2>2, <3>1
    <2>6. ASSUME NEW e \in Allocated' PROVE \E p \in inited' : e.kind \in ToSet(model.init[p])
      BY <1>4, <2>1, <2>3
    <2> QED
      BY <2>4, <2>5, <2>6
  <1>7. CASE InitSend(t)
    <2>1. outbox[t] # <<>> /\ outbox' = [outbox EXCEPT ![t] = Tail(@)] /\ inited' = inited
      BY <1>7 DEF InitSend
    <2>2. outbox'[t] = Tail(outbox[t])
      BY <2>1 DEF IInv, ThreadTypes
    <2> DEFINE k == Head(outbox[t])
    <2>3. /\ IsInjective(outbox'[t]) /\ ToSet(outbox'[t]) \subseteq ToSet(outbox[t])
          /\ k \notin ToSet(outbox'[t]) /\ k \in ToSet(outbox[t])
      BY <1>4, <2>1, <2>2, TailInjective
    <2> HIDE DEF k
    <2>4. \A e \in Allocated' : e \in Allocated \/ e.kind = k
      BY <1>7, AllocatedMoves, RunningSteps DEF k, InitSend, SendNow, SendLater
    <2>5. PICK o \in inited : HomeThread[o] = t /\ k \in ToSet(model.init[o])
      BY <1>4, <2>3
    <2>6. ASSUME NEW u \in Threads, NEW l \in ToSet(outbox'[u])
          PROVE  /\ \A e \in Allocated' : e.kind # l
                 /\ \E p \in inited' : HomeThread[p] = u /\ l \in ToSet(model.init[p])
      <3>1. l \in ToSet(outbox[u])
        BY <1>5, <2>3, <2>6
      <3>2. PICK p \in inited : HomeThread[p] = u /\ l \in ToSet(model.init[p])
        BY <1>4, <3>1
      <3>3. l # k
        <4>1. CASE u = t
          BY <2>3, <2>6, <4>1
        <4>2. CASE u # t
          <5>1. p # o
            BY <2>5, <3>2, <4>2
          <5>2. k \notin ToSet(model.init[p])
            BY <1>3, <2>5, <5>1, ModelFacts
          <5> QED
            BY <3>2, <5>2
        <4> QED
          BY <4>1, <4>2
      <3>4. \A e \in Allocated : e.kind # l
        BY <1>4, <3>1
      <3> QED
        BY <2>1, <2>4, <3>2, <3>3, <3>4
    <2>7. ASSUME NEW u \in Threads PROVE IsInjective(outbox'[u])
      BY <1>4, <1>5, <2>3
    <2>8. ASSUME NEW e \in Allocated' PROVE \E p \in inited' : e.kind \in ToSet(model.init[p])
      BY <1>4, <2>1, <2>4, <2>5
    <2> QED
      BY <2>6, <2>7, <2>8
  <1>8. CASE InitDone(t)
    <2>1. UNCHANGED <<outbox, inited>>
      BY <1>8 DEF InitDone, locals
    <2>2. Allocated' = Allocated
      BY <1>8, NoListMoves, SameAllocated DEF ListsKept
    <2> QED
      BY <1>4, <2>1, <2>2
  <1> QED
    BY <1>2, <1>6, <1>7, <1>8

-----------------------------------------------------------------------------
(* The sends of an epoch and the events that made them *)

\* What an object has sent in this epoch.
SentIn(o) == ToSet(log_queue[o]) \cup ToSet(speculation_queue[o])

\* A send of object o is one that an event of o makes at its time.
MadeBy(x, p, o) ==
    model.dest[p] = o /\ x.event.kind \in ToSet(model.next[p]) /\ x.send_time = model.time[p]

SentBy ==
    AllIn(Running) => \A o \in Objects : \A x \in SentIn(o) : \E p \in Kinds : MadeBy(x, p, o)

\* The event of a kind that another kind schedules: the latter is no later than
\* this epoch, is over when the epoch is turned, and, when it is of this epoch,
\* what it sent is still known to its object.
Known(p, e) ==
    /\ model.time[p] < EpochLimit
    /\ AllIn(Crossing) \/ (AllIn(Turning) /\ \A t \in Threads : pc[t] # "update") =>
          model.time[p] < current_min_limit
    /\ AllIn(Running) /\ current_min_limit <= model.time[p] =>
          \E x \in SentIn(model.dest[p]) : x.event = e

Caused ==
    \A p \in Kinds : \A e \in Allocated : e.kind \in ToSet(model.next[p]) => Known(p, e)

LEMMA SentTypes ==
  ASSUME IInv, NEW o \in Objects
  PROVE  \A x \in SentIn(o) : x \in Sends /\ x.event \in Events /\ x.send_time \in Nat
  <1>1. log_queue[o] \in Seq(Sends) /\ speculation_queue[o] \in Seq(Sends)
    BY DEF IInv, Lists, QueueTypes
  <1>2. \A x \in SentIn(o) : x \in Sends
    BY <1>1, Elements DEF SentIn
  <1> QED
    BY <1>2 DEF Sends

\* The event that is being executed, and what it sends next.
LEMMA SendFacts ==
  ASSUME IInv, SendsNext, NEW t \in Threads, SendNow(t) \/ SendLater(t)
  PROVE  /\ pc[t] = "process" /\ current[t] \in Objects /\ current[t] = Dest(event[t][1])
         /\ event[t][1] \in Events /\ event[t][1].kind \in Kinds /\ NextSend(t) \in Kinds
         /\ NextSend(t) \in ToSet(model.next[event[t][1].kind])
         /\ Time(event[t][1]) \in Nat
         /\ filter_message[current[t]] < Time(event[t][1])
         /\ outbox[t] \in Seq(Kinds) /\ outbox[t] # <<>>
  <1>1. pc[t] = "process" /\ ~Suppressed(t)
    BY DEF SendNow, SendLater
  <1>2. /\ event[t] \in Seq(Events) /\ event[t] # <<>> /\ current[t] = Dest(event[t][1])
        /\ outbox[t] \in Seq(Kinds) /\ outbox[t] # <<>> /\ ModelOK
        /\ filter_message \in [Objects -> Int]
    BY <1>1 DEF IInv, Held, Holds, ThreadTypes, Lists, ObjectTypes
  <1>3. event[t][1] \in Events
    BY <1>2
  <1>4. event[t][1].kind \in Kinds /\ Dest(event[t][1]) \in Objects /\ Time(event[t][1]) \in Nat
    BY <1>2, <1>3, EventTypes
  <1>5. NextSend(t) \in Kinds /\ NextSend(t) \in ToSet(outbox[t])
    BY <1>2, EndsElements, EndsType DEF NextSend
  <1>6. NextSend(t) \in ToSet(model.next[event[t][1].kind])
    BY <1>1, <1>5 DEF SendsNext
  <1>7. filter_message[current[t]] < Time(event[t][1])
    BY <1>1, <1>2, <1>4 DEF Suppressed, Filtered
  <1> QED
    BY <1>1, <1>2, <1>3, <1>4, <1>5, <1>6, <1>7

\* What a send adds.
LEMMA SendMade ==
  ASSUME IInv, SendsNext, NEW t \in Threads, Step(t), SendNow(t) \/ SendLater(t)
  PROVE  \E x \in Sends :
            /\ x.event.kind = NextSend(t) /\ x.send_time = Time(event[t][1])
            /\ \E o \in Objects : o = current[t] /\ x \in SentIn(o)'
            /\ \A o \in Objects : \A y \in SentIn(o)' : y \in SentIn(o) \/ (y = x /\ o = current[t])
            /\ \A o \in Objects : SentIn(o) \subseteq SentIn(o)'
            /\ \A e \in Allocated' : e \in Allocated \/ e = x.event
  <1> DEFINE x(c) == [event |-> [kind |-> NextSend(t), copy |-> c], send_time |-> Time(event[t][1])]
  <1>1. /\ event[t][1] \in Events /\ NextSend(t) \in Kinds /\ Time(event[t][1]) \in Nat
        /\ current[t] \in Objects
    BY SendFacts
  <1>2. \A c \in Copies : /\ x(c) \in Sends /\ x(c).event \in Events
                          /\ x(c).event.kind = NextSend(t) /\ x(c).send_time = Time(event[t][1])
                          /\ x(c).event = [kind |-> NextSend(t), copy |-> c]
    BY <1>1 DEF Sends, Events
  <1>3. CASE SendNow(t)
    <2>1. PICK c \in Copies :
              /\ Insert([kind |-> NextSend(t), copy |-> c])
              /\ log_queue' = [log_queue EXCEPT ![current[t]] = Append(log_queue[current[t]],
                                [event |-> [kind |-> NextSend(t), copy |-> c],
                                 send_time |-> Time(event[t][1])])]
      BY <1>3, SendNowEffect
    <2>2. /\ log_queue' = [log_queue EXCEPT ![current[t]] = Append(log_queue[current[t]], x(c))]
          /\ Insert(x(c).event)
          /\ UNCHANGED <<model, speculation_queue, retractable_queue, fallback_queue>>
          /\ log_queue \in [Objects -> Seq(Sends)]
      BY <1>2, <1>3, <2>1 DEF SendNow, IInv, Lists, QueueTypes
    <2> PICK y \in Sends : y = x(c)
      BY <1>2
    <2> HIDE DEF x
    <2>3. /\ log_queue'[current[t]] = Append(log_queue[current[t]], y)
          /\ \A o \in Objects : o # current[t] => log_queue'[o] = log_queue[o]
          /\ y.event \in Events
      BY <1>1, <1>2, <2>2
    <2>4. ToSet(log_queue'[current[t]]) = ToSet(log_queue[current[t]]) \cup {y}
      BY <1>1, <2>2, <2>3, AppendElements
    <2>5. /\ \E o \in Objects : o = current[t] /\ y \in SentIn(o)'
          /\ \A o \in Objects : \A z \in SentIn(o)' : z \in SentIn(o) \/ (z = y /\ o = current[t])
          /\ \A o \in Objects : SentIn(o) \subseteq SentIn(o)'
      <3> SUFFICES ASSUME NEW o \in Objects
                   PROVE  /\ o = current[t] => y \in SentIn(o)'
                          /\ \A z \in SentIn(o)' : z \in SentIn(o) \/ (z = y /\ o = current[t])
                          /\ SentIn(o) \subseteq SentIn(o)'
        BY <1>1
      <3>1. CASE o = current[t]
        <4>1. ToSet(log_queue'[o]) = ToSet(log_queue[o]) \cup {y}
          BY <2>4, <3>1
        <4> QED
          BY <2>2, <3>1, <4>1 DEF SentIn
      <3>2. CASE o # current[t]
        BY <2>2, <2>3, <3>2 DEF SentIn
      <3> QED
        BY <3>1, <3>2
    <2>6. ASSUME NEW e \in Allocated' PROVE e \in Allocated \/ e = y.event
      <3>1. \A d \in Objects, s \in Slots : e \in ToSet(queue'[d][s]) =>
                e \in ToSet(queue[d][s]) \/ e = y.event
        <4>1. y.event \in Events /\ Insert(y.event) /\ model' = model
          BY <2>2, <2>3
        <4>2. /\ Dest(y.event) \in Objects
              /\ \A p \in Objects \ {Dest(y.event)} : queue'[p] = queue[p]
              /\ \A s \in Slots \ {SlotOf(y.event)} : queue'[Dest(y.event)][s] = queue[Dest(y.event)][s]
              /\ ToSet(queue'[Dest(y.event)][SlotOf(y.event)])
                    = ToSet(queue[Dest(y.event)][SlotOf(y.event)]) \cup {y.event}
          BY <4>1, InsertInto
        <4> QED
          BY <4>2
      <3> QED
        BY <2>2, <2>6, <3>1, AllocatedAt, AllocatedNext
    <2> QED
      BY <1>2, <2>5, <2>6
  <1>4. CASE SendLater(t)
    <2>1. PICK c \in Copies :
              speculation_queue' = [speculation_queue EXCEPT ![current[t]] = Append(@,
                                [event |-> [kind |-> NextSend(t), copy |-> c],
                                 send_time |-> Time(event[t][1])])]
      BY <1>4 DEF SendLater
    <2>2. /\ speculation_queue' = [speculation_queue EXCEPT ![current[t]] =
                                      Append(speculation_queue[current[t]], x(c))]
          /\ UNCHANGED <<queue, log_queue, retractable_queue, fallback_queue>>
          /\ speculation_queue \in [Objects -> Seq(Sends)]
      BY <1>4, <2>1 DEF SendLater, IInv, Lists, QueueTypes
    <2> PICK y \in Sends : y = x(c)
      BY <1>2
    <2> HIDE DEF x
    <2>3. /\ speculation_queue'[current[t]] = Append(speculation_queue[current[t]], y)
          /\ \A o \in Objects : o # current[t] => speculation_queue'[o] = speculation_queue[o]
      BY <1>1, <2>2
    <2>4. ToSet(speculation_queue'[current[t]]) = ToSet(speculation_queue[current[t]]) \cup {y}
      BY <1>1, <2>2, <2>3, AppendElements
    <2>5. /\ \E o \in Objects : o = current[t] /\ y \in SentIn(o)'
          /\ \A o \in Objects : \A z \in SentIn(o)' : z \in SentIn(o) \/ (z = y /\ o = current[t])
          /\ \A o \in Objects : SentIn(o) \subseteq SentIn(o)'
      <3> SUFFICES ASSUME NEW o \in Objects
                   PROVE  /\ o = current[t] => y \in SentIn(o)'
                          /\ \A z \in SentIn(o)' : z \in SentIn(o) \/ (z = y /\ o = current[t])
                          /\ SentIn(o) \subseteq SentIn(o)'
        BY <1>1
      <3>1. CASE o = current[t]
        <4>1. ToSet(speculation_queue'[o]) = ToSet(speculation_queue[o]) \cup {y}
          BY <2>4, <3>1
        <4> QED
          BY <2>2, <3>1, <4>1 DEF SentIn
      <3>2. CASE o # current[t]
        BY <2>2, <2>3, <3>2 DEF SentIn
      <3> QED
        BY <3>1, <3>2
    <2>6. ASSUME NEW e \in Allocated' PROVE e \in Allocated \/ e = y.event
      <3>1. \A o \in Objects : \A z \in ToSet(speculation_queue'[o]) :
                z \in ToSet(speculation_queue[o]) \/ z = y
        BY <2>3, <2>4
      <3> QED
        BY <2>2, <2>6, <3>1, AllocatedAt, AllocatedNext
    <2> QED
      BY <1>2, <2>5, <2>6
  <1> QED
    BY <1>3, <1>4

\* What an object has sent after a step.
LEMMA SentMoves ==
  ASSUME IInv, NEW t \in Threads, Step(t), NEW o \in Objects, NEW x \in SentIn(o)'
  PROVE  \/ x \in SentIn(o)
         \/ /\ SendNow(t) \/ SendLater(t)
            /\ o = current[t] /\ x.event.kind = NextSend(t) /\ x.send_time = Time(event[t][1])
  <1>0. log_queue \in [Objects -> Seq(Sends)] /\ log_queue[o] \in Seq(Sends)
    BY DEF IInv, Lists, QueueTypes
  <1>1. CASE x \in ToSet(speculation_queue'[o])
    BY <1>1, WithheldElements DEF SentIn
  <1>2. CASE x \in ToSet(log_queue'[o])
    <2>1. CASE SendNow(t)
      <3>1. PICK c \in Copies :
              /\ [kind |-> NextSend(t), copy |-> c] \in Events
              /\ log_queue' = [log_queue EXCEPT ![current[t]] = Append(log_queue[current[t]],
                   [event |-> [kind |-> NextSend(t), copy |-> c], send_time |-> Time(event[t][1])])]
        BY <2>1, SendNowEffect
      <3> DEFINE y == [event |-> [kind |-> NextSend(t), copy |-> c], send_time |-> Time(event[t][1])]
      <3>2. pc[t] = "process"
        BY <2>1 DEF SendNow
      <3>3. y \in Sends /\ y.event.kind = NextSend(t) /\ y.send_time = Time(event[t][1])
        BY <3>1, <3>2, Executes DEF Sends
      <3>4. log_queue'[o] = log_queue[o] \/ (o = current[t] /\ log_queue'[o] = Append(log_queue[o], y))
        BY <1>0, <3>1
      <3>6. y \in Sends
        BY <3>3
      <3> HIDE DEF y
      <3>7. ToSet(Append(log_queue[o], y)) = ToSet(log_queue[o]) \cup {y}
        BY <1>0, <3>6, AppendElements
      <3>5. x \in ToSet(log_queue[o]) \/ (o = current[t] /\ x = y)
        BY <1>2, <3>4, <3>7
      <3> QED
        BY <2>1, <3>3, <3>5 DEF SentIn
    <2>2. CASE Annihilate(t)
      <3>1. /\ log_queue' = [log_queue EXCEPT ![target[t]] = Front(log_queue[target[t]])]
            /\ log_queue[target[t]] # <<>>
        BY <2>2, AnnihilateEffect
      <3>2. log_queue'[o] = log_queue[o] \/ (log_queue[o] # <<>> /\ log_queue'[o] = Front(log_queue[o]))
        BY <1>0, <3>1
      <3> QED
        BY <1>0, <1>2, <3>2, EndsElements DEF SentIn
    <2>3. CASE ~SendNow(t) /\ ~Annihilate(t)
      <3>1. log_queue'[o] = log_queue[o] \/ log_queue'[o] = <<>>
        BY <1>0, <2>3 DEF Step, InitObject, InitSend, InitDone, GetEvent, Dispense, Finish, Take,
             TakenByOther, Restore, Reinsert, Release, Keep, Redo, Extract, Process, ReadFreed,
             SendFiltered, SendLater, Retract, Flush, Commit, Checkpoint, FlushDone, UpdateTiming,
             FallbackInsert, FallbackDone, queues
      <3> QED
        BY <1>2, <3>1, EmptyElements DEF SentIn
    <2> QED
      BY <2>1, <2>2, <2>3
  <1> QED
    BY <1>1, <1>2 DEF SentIn

\* While an epoch runs, a rollback alone takes a send back.
LEMMA SentStays ==
  ASSUME IInv, NEW t \in Threads, Step(t), pc[t] \in Running, NEW o \in Objects, NEW x \in SentIn(o)
  PROVE  \/ x \in SentIn(o)'
         \/ Annihilate(t) /\ o = target[t] /\ x = Last(log_queue[o])
         \/ /\ Restore(t) /\ o = target[t] /\ x \in ToSet(speculation_queue[o])
            /\ speculation_queue'[o] = Before(speculation_queue[o], rollback_time[t])
            /\ x \notin ToSet(speculation_queue'[o])
  <1>0. /\ log_queue \in [Objects -> Seq(Sends)] /\ log_queue[o] \in Seq(Sends)
        /\ speculation_queue \in [Objects -> Seq(Sends)]
    BY DEF IInv, Lists, QueueTypes
  <1>1. CASE SendNow(t) \/ SendLater(t)
    <2>1. /\ pc[t] = "process" /\ current[t] \in Objects
          /\ \A c \in Copies : [event |-> [kind |-> NextSend(t), copy |-> c],
                                send_time |-> Time(event[t][1])] \in Sends
      <3>1. pc[t] = "process"
        BY <1>1 DEF SendNow, SendLater
      <3> QED
        BY <3>1, Executes DEF Sends, Events
    <2>2. \/ log_queue'[o] = log_queue[o]
          \/ \E y \in Sends : log_queue'[o] = Append(log_queue[o], y)
      <3>1. SendLater(t) => log_queue' = log_queue
        BY DEF SendLater
      <3>2. SendNow(t) => \E c \in Copies :
              log_queue' = [log_queue EXCEPT ![current[t]] = Append(log_queue[current[t]],
                   [event |-> [kind |-> NextSend(t), copy |-> c], send_time |-> Time(event[t][1])])]
        BY DEF SendNow
      <3> QED
        BY <1>0, <1>1, <2>1, <3>1, <3>2
    <2>3. \/ speculation_queue'[o] = speculation_queue[o]
          \/ \E y \in Sends : speculation_queue'[o] = Append(speculation_queue[o], y)
      <3>1. SendNow(t) => speculation_queue' = speculation_queue
        BY DEF SendNow
      <3>2. SendLater(t) => \E c \in Copies :
              speculation_queue' = [speculation_queue EXCEPT ![current[t]] = Append(speculation_queue[current[t]],
                   [event |-> [kind |-> NextSend(t), copy |-> c], send_time |-> Time(event[t][1])])]
        BY DEF SendLater
      <3> QED
        BY <1>0, <1>1, <2>1, <3>1, <3>2
    <2>4. ToSet(log_queue[o]) \subseteq ToSet(log_queue'[o])
      <3>1. CASE log_queue'[o] = log_queue[o]
        BY <3>1
      <3>2. ASSUME NEW y \in Sends, log_queue'[o] = Append(log_queue[o], y)
            PROVE  ToSet(log_queue[o]) \subseteq ToSet(log_queue'[o])
        <4>1. ToSet(Append(log_queue[o], y)) = ToSet(log_queue[o]) \cup {y}
          BY <1>0, AppendElements
        <4> QED
          BY <3>2, <4>1
      <3> QED
        BY <2>2, <3>1, <3>2
    <2>5. ToSet(speculation_queue[o]) \subseteq ToSet(speculation_queue'[o])
      <3>1. CASE speculation_queue'[o] = speculation_queue[o]
        BY <3>1
      <3>2. ASSUME NEW y \in Sends, speculation_queue'[o] = Append(speculation_queue[o], y)
            PROVE  ToSet(speculation_queue[o]) \subseteq ToSet(speculation_queue'[o])
        <4>1. ToSet(Append(speculation_queue[o], y)) = ToSet(speculation_queue[o]) \cup {y}
          BY <1>0, AppendElements
        <4> QED
          BY <3>2, <4>1
      <3> QED
        BY <2>3, <3>1, <3>2
    <2> QED
      BY <2>4, <2>5 DEF SentIn
  <1>2. CASE Annihilate(t)
    <2>1. /\ log_queue' = [log_queue EXCEPT ![target[t]] = Front(log_queue[target[t]])]
          /\ log_queue[target[t]] # <<>> /\ speculation_queue' = speculation_queue
      BY <1>2, AnnihilateEffect DEF Annihilate
    <2>2. \/ log_queue'[o] = log_queue[o]
          \/ o = target[t] /\ log_queue[o] # <<>> /\ log_queue'[o] = Front(log_queue[o])
      BY <1>0, <2>1
    <2>3. log_queue[o] # <<>> => ToSet(log_queue[o]) = ToSet(Front(log_queue[o])) \cup {Last(log_queue[o])}
      BY <1>0, EndsElements
    <2> QED
      BY <1>2, <2>1, <2>2, <2>3 DEF SentIn
  <1>3. CASE Restore(t)
    <2>1. /\ log_queue' = log_queue
          /\ speculation_queue' = [speculation_queue EXCEPT ![target[t]] =
                Before(speculation_queue[target[t]], rollback_time[t])]
      BY <1>3 DEF Restore
    <2>2. \/ speculation_queue'[o] = speculation_queue[o]
          \/ /\ o = target[t]
             /\ speculation_queue'[o] = Before(speculation_queue[o], rollback_time[t])
      BY <1>0, <2>1
    <2> QED
      BY <1>3, <2>1, <2>2 DEF SentIn
  <1>4. CASE ~(SendNow(t) \/ SendLater(t) \/ Annihilate(t) \/ Restore(t))
    <2>1. UNCHANGED <<log_queue, speculation_queue>>
      BY <1>4, RunningSteps DEF GetEvent, Dispense, Finish, Take, TakenByOther, Reinsert, Release,
             Keep, Redo, Extract, Process, ReadFreed, SendFiltered, queues
    <2> QED
      BY <2>1 DEF SentIn
  <1> QED
    BY <1>1, <1>2, <1>3, <1>4

LEMMA SentByStep ==
  ASSUME IInv, Ownership, SendsNext, SentBy, NEW t \in Threads, Step(t)
  PROVE  SentBy'
  <1>1. PhasesStay /\ model' = model
    BY OneMoves, PhaseKept DEF Ownership, OthersStay
  <1> SUFFICES ASSUME AllIn(Running)', NEW o \in Objects, NEW x \in SentIn(o)'
               PROVE  \E p \in Kinds : MadeBy(x, p, o)
    BY <1>1 DEF SentBy, MadeBy
  <1>2. AllIn(Running)
    BY <1>1 DEF PhasesStay
  <1>3. CASE x \in SentIn(o)
    BY <1>2, <1>3 DEF SentBy
  <1>4. CASE /\ SendNow(t) \/ SendLater(t)
             /\ o = current[t] /\ x.event.kind = NextSend(t) /\ x.send_time = Time(event[t][1])
    <2> DEFINE p == event[t][1].kind
    <2>1. /\ p \in Kinds /\ NextSend(t) \in ToSet(model.next[p]) /\ current[t] = Dest(event[t][1])
      BY <1>4, SendFacts
    <2>2. MadeBy(x, p, o)
      BY <1>4, <2>1 DEF MadeBy, Dest, Time
    <2> QED
      BY <2>1, <2>2
  <1> QED
    BY <1>3, <1>4, SentMoves

\* Nothing has been sent when an epoch starts.
LEMMA NothingSent ==
  ASSUME Cleanup, Committed, AllIn(Starting) \/ AllIn(Crossing), NEW o \in Objects
  PROVE  SentIn(o) = {}
  <1>1. log_queue[o] = <<>>
    BY DEF Cleanup, Fresh
  <1>2. ~(AllIn(Running) \/ AllIn(Closing))
    BY PhaseDiffers
  <1>3. speculation_queue[o] = <<>>
    BY <1>2 DEF Committed
  <1> QED
    BY <1>1, <1>3, EmptyElements DEF SentIn

\* The threads enter an epoch from the start or from the previous one.
LEMMA IntoEpoch ==
  ASSUME Barriers, AllIn(Running)'
  PROVE  AllIn({"started"}) \/ AllIn({"ready"})
  <1>1. Threads # {}
    BY ConstantsAssumption, ConstantTypes
  <1> QED
    BY <1>1 DEF Barriers, Barrier, AllIn, Running

LEMMA SentByBarriers ==
  ASSUME Cleanup, Committed, Barriers
  PROVE  SentBy'
  <1> SUFFICES ASSUME AllIn(Running)' PROVE \A o \in Objects : SentIn(o)' = {}
    BY DEF SentBy
  <1>1. AllIn(Starting) \/ AllIn(Crossing)
    BY IntoEpoch DEF AllIn, Starting, Crossing
  <1>2. UNCHANGED <<log_queue, speculation_queue>>
    BY DEF Barriers, queues
  <1> QED
    BY <1>1, <1>2, NothingSent DEF SentIn

\* The event of the last send in a log is gone once it has been annihilated.
LEMMA AnnihilatedIsGone ==
  ASSUME IInv, Ownership, Order, Logs, Once, NEW t \in Threads, Annihilate(t)
  PROVE  Last(log_queue[target[t]]).event \notin Allocated'
  <1> DEFINE o == target[t]
             e == Last(log_queue[o]).event
  <1>1. /\ pc[t] = "undo" /\ o \in Objects /\ log_queue[o] # <<>> /\ e \in Events /\ Dest(e) \in Objects
    BY AnnihilateEffect
  <1>2. Listed(e)
    <2>1. AllIn(Running)
      BY <1>1, OnePhase DEF Running
    <2>2. log_queue[o] \in Seq(Sends)
      BY <1>1, LogTypes
    <2>3. Len(log_queue[o]) \in DOMAIN log_queue[o] /\ Last(log_queue[o]) = log_queue[o][Len(log_queue[o])]
      BY <1>1, <2>2, FrontEntries
    <2> QED
      BY <1>1, <2>1, <2>3 DEF Logs, Alive
  <1>3. SlotOf(e) = current_index
    <2>1. InputInOrder(Dest(e)) /\ ExecutedInOrder(Dest(e))
      BY <1>1 DEF Order, InOrder
    <2>2. current_index \in Slots
      BY ConstantsAssumption, ConstantTypes DEF IInv, CounterTypes, current_index, Slots
    <2> QED
      BY <1>2, <2>1, <2>2 DEF Listed, InputInOrder, ExecutedInOrder
  <1>4. /\ \A p \in Objects, s \in Slots : e \notin ToSet(queue'[p][s])
        /\ \A p \in Objects : e \notin ToSet(retractable_queue'[p])
        /\ \A u \in Threads : e \notin ToSet(fallback_queue'[u])
        /\ \A p \in Objects : e \notin ToSet(EventsIn(speculation_queue'[p]))
    BY <1>2, <1>3, OnceAnnihilate
  <1>5. speculation_queue' = speculation_queue
    BY DEF Annihilate
  <1>6. \A p \in Objects : \A x \in ToSet(speculation_queue'[p]) : x.event # e
    BY <1>4, <1>5, WindowTypes, EventsInList
  <1> HIDE DEF e
  <1>7. e \notin Allocated'
    BY <1>4, <1>6, AllocatedNext
  <1> QED
    BY <1>7 DEF e

\* A withheld send that a rollback drops is the only one of its event.
LEMMA DroppedIsGone ==
  ASSUME IInv, Once, NEW t \in Threads, Restore(t), NEW o \in Objects,
         NEW x \in ToSet(speculation_queue[o]),
         speculation_queue'[o] = Before(speculation_queue[o], rollback_time[t]),
         x \notin ToSet(speculation_queue'[o])
  PROVE  x.event \notin Allocated'
  <1>1. /\ speculation_queue \in [Objects -> Seq(Sends)] /\ speculation_queue[o] \in Seq(Sends)
        /\ UNCHANGED <<queue, retractable_queue, fallback_queue>>
        /\ \A p \in Objects : \/ speculation_queue'[p] = speculation_queue[p]
                              \/ p = target[t] /\ speculation_queue'[p] = Before(speculation_queue[p], rollback_time[t])
    BY DEF Restore, IInv, Lists, QueueTypes
  <1>2. x.event \in ToSet(EventsIn(speculation_queue[o])) /\ x \in Sends
    BY <1>1, EventsInList, Elements
  <1>3. \A p \in Objects : speculation_queue[p] \in Seq(Sends) /\ ToSet(speculation_queue'[p]) \subseteq ToSet(speculation_queue[p])
    BY <1>1, BeforeElements
  <1>4. ASSUME NEW p \in Objects, NEW y \in ToSet(speculation_queue'[p]), y.event = x.event
        PROVE  FALSE
    <2>1. y \in ToSet(speculation_queue[p])
      BY <1>3, <1>4
    <2>2. y.event \in ToSet(EventsIn(speculation_queue[p]))
      BY <1>3, <2>1, EventsInList
    <2>3. p = o
      <3>1. SUFFICES ASSUME p # o PROVE FALSE
        OBVIOUS
      <3>2. <<"withheld", p, 0>> \in Places /\ <<"withheld", o, 0>> \in Places
        BY DEF Places
      <3>3. <<"withheld", p, 0>> # <<"withheld", o, 0>>
        BY <3>1
      <3>4. /\ Contents[<<"withheld", p, 0>>] = EventsIn(speculation_queue[p])
            /\ Contents[<<"withheld", o, 0>>] = EventsIn(speculation_queue[o])
        BY ContentsNow
      <3> QED
        BY <1>2, <1>4, <2>2, <3>2, <3>3, <3>4 DEF Once, Unique
    <2>4. Distinct(EventsIn(speculation_queue[o]))
      BY OnceLists
    <2>5. PICK i \in DOMAIN speculation_queue[o], j \in DOMAIN speculation_queue[o] :
                x = speculation_queue[o][i] /\ y = speculation_queue[o][j]
      BY <1>1, <2>1, <2>3, Elements
    <2>6. /\ DOMAIN EventsIn(speculation_queue[o]) = DOMAIN speculation_queue[o]
          /\ EventsIn(speculation_queue[o])[i] = x.event /\ EventsIn(speculation_queue[o])[j] = y.event
      BY <1>1, <2>5, EventsInList
    <2>7. i = j
      BY <1>4, <2>4, <2>6 DEF Distinct
    <2> QED
      BY <1>4, <2>3, <2>5, <2>7
  <1>5. /\ \A p \in Objects, s \in Slots : x.event \notin ToSet(queue'[p][s])
        /\ \A u \in Threads : x.event \notin ToSet(fallback_queue'[u])
    BY <1>1, <1>2, OnceLists
  <1>6. \A p \in Objects : x.event \notin ToSet(retractable_queue'[p])
    <2> SUFFICES ASSUME NEW p \in Objects, x.event \in ToSet(retractable_queue[p]) PROVE FALSE
      BY <1>1
    <2>1. <<"withheld", o, 0>> \in Places /\ <<"retractable", p, 0>> \in Places
      BY DEF Places
    <2>2. <<"withheld", o, 0>> # <<"retractable", p, 0>>
      OBVIOUS
    <2>3. /\ Contents[<<"withheld", o, 0>>] = EventsIn(speculation_queue[o])
          /\ Contents[<<"retractable", p, 0>>] = retractable_queue[p]
      BY ContentsNow
    <2> QED
      BY <1>2, <2>1, <2>2, <2>3 DEF Once, Unique
  <1> QED
    BY <1>4, <1>5, <1>6, AllocatedNext

\* A send into the epoch or beyond it is known to its object as long as its
\* event exists.
LEMMA KnownStays ==
  ASSUME IInv, Ownership, Order, Logs, Once, NEW t \in Threads, Step(t), AllIn(Running),
         NEW e \in Allocated', NEW o \in Objects, NEW x \in SentIn(o), x.event = e
  PROVE  \E y \in SentIn(o)' : y.event = e
  <1>1. pc[t] \in Running
    BY DEF AllIn
  <1>2. ~(Annihilate(t) /\ o = target[t] /\ x = Last(log_queue[o]))
    BY AnnihilatedIsGone
  <1>3. ~(/\ Restore(t) /\ o = target[t] /\ x \in ToSet(speculation_queue[o])
          /\ speculation_queue'[o] = Before(speculation_queue[o], rollback_time[t])
          /\ x \notin ToSet(speculation_queue'[o]))
    BY DroppedIsGone
  <1> QED
    BY <1>1, <1>2, <1>3, SentStays

LEMMA CausedStep ==
  ASSUME IInv, Ownership, Order, Logs, Window, Once, Startup, SendsNext, Caused,
         NEW t \in Threads, Step(t)
  PROVE  Caused'
  <1> SUFFICES ASSUME NEW p \in Kinds, NEW e \in Allocated', (e.kind \in ToSet(model.next[p]))'
               PROVE  Known(p, e)'
    BY DEF Caused
  <1>1. /\ PhasesStay /\ OthersStay(t) /\ \A u \in Threads : pc'[u] # "update"
        /\ model' = model /\ e.kind \in ToSet(model.next[p])
    <2>1. Turned
      BY DEF Window
    <2> QED
      BY <2>1, PhaseEnds, LimitsMove
  <1>2. /\ model.time[p] \in Nat /\ model.dest[p] \in Objects
        /\ \A q \in Kinds : e.kind \in ToSet(model.next[q]) => p = q
        /\ \A o \in Objects : e.kind \notin ToSet(model.init[o])
    <2>1. ModelOK
      BY DEF IInv, Lists
    <2> QED
      BY <1>1, <2>1, ModelFacts
  <1>3. /\ current_min_limit \in Nat /\ EpochLimit \in Nat /\ current_min_limit < EpochLimit
        /\ EpochLimit' = EpochLimit \/ EpochLimit' = EpochLimit + LOOKAHEAD
        /\ LOOKAHEAD \in Nat
    <2>1. CounterTypes
      BY DEF IInv
    <2> QED
      BY <2>1, LimitsInOrder, LimitsMove
  <1>4. CASE SendNow(t) \/ SendLater(t)
    <2>1. PICK x \in Sends :
            /\ x.event.kind = NextSend(t) /\ x.send_time = Time(event[t][1])
            /\ \E o \in Objects : o = current[t] /\ x \in SentIn(o)'
            /\ \A f \in Allocated' : f \in Allocated \/ f = x.event
      BY <1>4, SendMade
    <2>2. /\ pc[t] = "process" /\ AllIn(Running) /\ ~UpdateTiming(t)
          /\ event[t][1].kind \in Kinds /\ current[t] = Dest(event[t][1])
          /\ NextSend(t) \in ToSet(model.next[event[t][1].kind])
      <3>1. pc[t] = "process"
        BY <1>4 DEF SendNow, SendLater
      <3> QED
        BY <1>4, <3>1, SendFacts, OnePhase DEF Running, UpdateTiming
    <2>3. EpochLimit' = EpochLimit /\ current_min_limit' = current_min_limit
      BY <2>2, LimitsMove
    <2>4. CASE e \in Allocated
      <3>1. Known(p, e)
        BY <1>1, <2>4 DEF Caused
      <3>2. current_min_limit <= model.time[p] => (\E y \in SentIn(model.dest[p]) : y.event = e)'
        <4> SUFFICES ASSUME current_min_limit <= model.time[p]
                     PROVE  (\E y \in SentIn(model.dest[p]) : y.event = e)'
          OBVIOUS
        <4>1. PICK o \in Objects : o = model.dest[p] /\ \E y \in SentIn(o) : y.event = e
          BY <1>2, <2>2, <3>1 DEF Known
        <4>2. \E y \in SentIn(o)' : y.event = e
          BY <2>2, <4>1, KnownStays
        <4> QED
          BY <1>1, <4>1, <4>2 DEF SentIn
      <3> QED
        BY <1>1, <2>2, <2>3, <3>1, <3>2, PhaseDiffers DEF Known, PhasesStay
    <2>5. CASE e = x.event
      <3>1. p = event[t][1].kind
        BY <1>2, <2>1, <2>2, <2>5
      <3>2. model.time[p] < EpochLimit
        BY <2>2, <3>1 DEF Window, InTime, Time
      <3>3. (\E y \in SentIn(model.dest[p]) : y.event = e)'
        <4>1. PICK o \in Objects : o = current[t] /\ x \in SentIn(o)'
          BY <2>1
        <4> QED
          BY <1>1, <2>2, <2>5, <3>1, <4>1 DEF Dest, SentIn
      <3> QED
        BY <1>1, <2>2, <2>3, <3>2, <3>3, PhaseDiffers DEF Known, PhasesStay
    <2> QED
      BY <2>1, <2>4, <2>5
  <1>5. CASE ~SendNow(t) /\ ~SendLater(t)
    <2>1. e \in Allocated
      <3>1. ASSUME InitSend(t), e.kind = Head(outbox[t]) PROVE FALSE
        <4>1. pc[t] = "init" /\ outbox[t] # <<>> /\ outbox[t] \in Seq(Kinds)
          BY <3>1 DEF InitSend, IInv, ThreadTypes
        <4>2. AllIn(Starting) /\ Head(outbox[t]) \in ToSet(outbox[t])
          BY <4>1, OnePhase, EndsElements DEF Starting
        <4>3. PICK o \in inited : Head(outbox[t]) \in ToSet(model.init[o])
          BY <4>2 DEF Startup
        <4>4. o \in Objects
          BY DEF IInv, CounterTypes
        <4> QED
          BY <1>2, <3>1, <4>3, <4>4
      <3> QED
        BY <1>5, <3>1, AllocatedMoves
    <2>2. Known(p, e)
      BY <1>1, <2>1 DEF Caused
    <2>3. CASE UpdateTiming(t)
      <3>1. current_min_limit' = EpochLimit /\ EpochLimit' = EpochLimit + LOOKAHEAD
        BY <2>3, LimitsMove DEF UpdateTiming
      <3>2. ~AllIn(Running)
        BY <2>3 DEF UpdateTiming, AllIn, Running
      <3> QED
        BY <1>1, <1>2, <1>3, <2>2, <3>1, <3>2 DEF Known, PhasesStay
    <2>4. CASE ~UpdateTiming(t)
      <3>1. EpochLimit' = EpochLimit /\ current_min_limit' = current_min_limit
        BY <2>4, LimitsMove
      <3>2. ~AllIn(Turning)
        BY <2>4, RunningSteps DEF AllIn
      <3>3. AllIn(Running) /\ current_min_limit <= model.time[p] =>
                (\E y \in SentIn(model.dest[p]) : y.event = e)'
        <4> SUFFICES ASSUME AllIn(Running), current_min_limit <= model.time[p]
                     PROVE  (\E y \in SentIn(model.dest[p]) : y.event = e)'
          OBVIOUS
        <4>1. PICK o \in Objects : o = model.dest[p] /\ \E y \in SentIn(o) : y.event = e
          BY <1>2, <2>2 DEF Known
        <4>2. \E y \in SentIn(o)' : y.event = e
          BY <4>1, KnownStays
        <4> QED
          BY <1>1, <4>1, <4>2 DEF SentIn
      <3> QED
        BY <1>1, <2>2, <3>1, <3>2, <3>3 DEF Known, PhasesStay
    <2> QED
      BY <2>3, <2>4
  <1> QED
    BY <1>4, <1>5

LEMMA CausedBarriers ==
  ASSUME IInv, Ownership, Startup, Caused, Barriers
  PROVE  Caused'
  <1>1. UNCHANGED <<model, queues, epochs, inited>>
    BY DEF Barriers
  <1>2. Allocated' = Allocated /\ \A o \in Objects : SentIn(o)' = SentIn(o)
    BY <1>1, SameAllocated DEF queues, SentIn
  <1> SUFFICES ASSUME NEW p \in Kinds, NEW e \in Allocated, e.kind \in ToSet(model.next[p])
               PROVE  Known(p, e)'
    BY <1>1, <1>2 DEF Caused
  <1>3. Known(p, e)
    BY DEF Caused
  <1>4. model.time[p] \in Nat /\ \A o \in Objects : e.kind \notin ToSet(model.init[o])
    <2>1. ModelOK
      BY DEF IInv, Lists
    <2> QED
      BY <2>1, ModelFacts
  <1>5. /\ EpochLimit' = EpochLimit /\ current_min_limit' = current_min_limit
        /\ current_min_limit \in Nat /\ EpochLimit \in Nat
    <2>1. CounterTypes
      BY DEF IInv
    <2> QED
      BY <1>1, <2>1, LimitsInOrder DEF EpochLimit, current_min_limit
  <1>6. Threads # {}
    BY ConstantsAssumption, ConstantTypes
  <1>7. ASSUME AllIn(Crossing)' \/ (AllIn(Turning) /\ \A u \in Threads : pc[u] # "update")'
        PROVE  AllIn(Crossing) \/ (AllIn(Turning) /\ \A u \in Threads : pc[u] # "update")
    <2>1. AllIn({"updated"})
      BY <1>6, <1>7 DEF Barriers, Barrier, AllIn, Crossing, Turning
    <2> QED
      BY <2>1 DEF AllIn, Turning
  <1>8. ASSUME AllIn(Running)' PROVE model.time[p] < current_min_limit
    <2>1. CASE AllIn({"started"})
      <3>1. AllIn(Starting)
        BY <2>1 DEF AllIn, Starting
      <3>2. PICK o \in inited : e.kind \in ToSet(model.init[o])
        BY <3>1 DEF Startup
      <3>3. o \in Objects
        BY DEF IInv, CounterTypes
      <3> QED
        BY <1>4, <3>2, <3>3
    <2>2. CASE AllIn({"ready"})
      <3>1. AllIn(Crossing)
        BY <2>2 DEF AllIn, Crossing
      <3> QED
        BY <1>3, <3>1 DEF Known
    <2> QED
      BY <1>8, <2>1, <2>2, IntoEpoch
  <1>9. ~AllIn(Running)' \/ model.time[p] < current_min_limit
    BY <1>8
  <1>10. (AllIn(Running) /\ current_min_limit <= model.time[p])' => FALSE
    BY <1>1, <1>4, <1>5, <1>9
  <1>11. (AllIn(Crossing) \/ (AllIn(Turning) /\ \A u \in Threads : pc[u] # "update"))'
            => model.time[p] < current_min_limit
    BY <1>3, <1>7 DEF Known
  <1>12. model.time[p] < EpochLimit
    BY <1>3 DEF Known
  <1> QED
    BY <1>1, <1>5, <1>10, <1>11, <1>12 DEF Known

-----------------------------------------------------------------------------
(* The filters and the rollbacks of an epoch *)

\* The time below which an object repeats no send is not before the epoch, nor
\* is that of a rollback it has to make: an object is told so when it is
\* dispensed at the end of the epoch.
UpToDate ==
    /\ \A o \in Objects :
          /\ filter_message[o] >= current_min_limit - Epsilon
          /\ o < shadow_object_identifiers => filter_message[o] >= EpochLimit - Epsilon
          /\ speculation[o].standing_rollback =>
                /\ shadow_object_identifiers <= o
                /\ speculation[o].causality_violation_time >= current_min_limit
    /\ AllIn(Running) => \A o \in Objects : \A i \in DOMAIN log_queue[o] :
          Time(log_queue[o][i].event) >= current_min_limit

\* The earliest of the violations is kept.
LEMMA ViolatedTo ==
  ASSUME NEW s \in Statuses, NEW time \in Nat
  PROVE  LET v == Violated(s, time)
         IN  /\ v \in Statuses /\ v.standing_rollback /\ v.current_time = s.current_time
             /\ v.causality_violation_time <= time
             /\ \/ v.causality_violation_time = time
                \/ s.standing_rollback /\ v.causality_violation_time = s.causality_violation_time
             /\ s.standing_rollback => v.causality_violation_time <= s.causality_violation_time
  <1> DEFINE n == IF s.standing_rollback /\ s.causality_violation_time <= time
                  THEN s.causality_violation_time ELSE time
  <1>1. /\ n \in Nat /\ n <= time
        /\ \/ n = time
           \/ s.standing_rollback /\ n = s.causality_violation_time
        /\ s.standing_rollback => n <= s.causality_violation_time
    BY DEF Statuses
  <1>2. Violated(s, time) = [s EXCEPT !.standing_rollback = TRUE, !.causality_violation_time = n]
    BY DEF Violated
  <1> HIDE DEF n
  <1>3. /\ Violated(s, time) \in Statuses /\ Violated(s, time).standing_rollback
        /\ Violated(s, time).current_time = s.current_time
        /\ Violated(s, time).causality_violation_time = n
    BY <1>1, <1>2 DEF Statuses
  <1> QED
    BY <1>1, <1>3

\* What a step does to the rollback, the clock and the filter of an object.
LEMMA RollbackMoves ==
  ASSUME IInv, NEW t \in Threads, Step(t), NEW o \in Objects
  PROVE  LET s == speculation[o]
             r == speculation'[o]
         IN  \/ /\ r.standing_rollback = s.standing_rollback
                /\ r.causality_violation_time = s.causality_violation_time
                /\ r.current_time = s.current_time /\ filter_message'[o] = filter_message[o]
                /\ Annihilate(t) => o # Dest(Last(log_queue[target[t]]).event)
             \/ /\ Take(t) /\ o = target[t] /\ s.standing_rollback /\ ~r.standing_rollback
                /\ filter_message'[o] = s.causality_violation_time - Epsilon
                /\ pc'[t] = IF s.causality_violation_time > 0 THEN "restore" ELSE "check"
             \/ /\ SendNow(t) /\ r.standing_rollback
                /\ \/ r.causality_violation_time = model.time[NextSend(t)]
                   \/ s.standing_rollback /\ r.causality_violation_time = s.causality_violation_time
                /\ s.standing_rollback => r.causality_violation_time <= s.causality_violation_time
                /\ r.current_time = s.current_time /\ filter_message'[o] = filter_message[o]
             \/ /\ Annihilate(t) /\ o = Dest(Last(log_queue[target[t]]).event) /\ r.standing_rollback
                /\ r.causality_violation_time <= Time(Last(log_queue[target[t]]).event)
                /\ \/ r.causality_violation_time = Time(Last(log_queue[target[t]]).event)
                   \/ s.standing_rollback /\ r.causality_violation_time = s.causality_violation_time
                /\ s.standing_rollback => r.causality_violation_time <= s.causality_violation_time
                /\ r.current_time = s.current_time /\ filter_message'[o] = filter_message[o]
             \/ /\ Extract(t) /\ o = target[t] /\ ~s.standing_rollback /\ ~r.standing_rollback
                /\ r.current_time = Time(Head(queue[o][current_index]))
                /\ filter_message'[o] = filter_message[o]
             \/ /\ Flush(t) /\ o = shadow_object_identifiers /\ ~r.standing_rollback
                /\ filter_message'[o] = EpochLimit - Epsilon
                /\ shadow_object_identifiers' = o + 1
  <1> DEFINE s == speculation[o]
             r == speculation'[o]
  <1>0. /\ speculation \in [Objects -> Statuses] /\ filter_message \in [Objects -> Int]
        /\ target \in [Threads -> Objects \cup {NoObject}] /\ s \in Statuses
        /\ s.causality_violation_time \in Nat
    BY DEF IInv, Held, Lists, ThreadTypes, ObjectTypes, Statuses
  <1>a. /\ Annihilate(t) => pc[t] = "undo"
        /\ Take(t) => pc[t] = "take"
        /\ SendNow(t) => pc[t] = "process"
        /\ Extract(t) => pc[t] = "extract"
        /\ Flush(t) => pc[t] = "flush"
        /\ Release(t) => pc[t] = "check"
    BY DEF Annihilate, Take, SendNow, Extract, Flush, Release
  <1>1. CASE Take(t)
    <2>1. filter_message \in [Objects -> Int] /\ target[t] \in Objects
      BY <1>0, <1>1, TakeStatus
    <2>2. CASE o # target[t]
      <3>1. speculation'[o] = speculation[o]
        BY <1>1, <2>2, TakeStatus
      <3>2. filter_message'[o] = filter_message[o]
        BY <1>1, <2>1, <2>2, TakeStatus
      <3> QED
        BY <1>1, <1>a, <3>1, <3>2
    <2>3. CASE o = target[t] /\ ~s.standing_rollback
      <3>1. speculation' = [speculation EXCEPT ![o] = [Claimed(s, t) EXCEPT !.already_taken = TRUE]]
            /\ UNCHANGED filter_message
        BY <1>0, <1>1, <2>3 DEF Take, Claimed, Statuses
      <3> QED
        BY <1>0, <1>1, <1>a, <3>1 DEF Claimed, Statuses
    <2>4. CASE o = target[t] /\ s.standing_rollback
      <3>1. /\ ~speculation'[o].standing_rollback
            /\ pc'[t] = IF s.causality_violation_time > 0 THEN "restore" ELSE "check"
            /\ filter_message' = [filter_message EXCEPT ![o] = s.causality_violation_time - Epsilon]
        BY <1>1, <2>4, TakeStatus
      <3> QED
        BY <1>0, <1>1, <2>4, <3>1
    <2> QED
      BY <2>2, <2>3, <2>4
  <1>2. CASE SendNow(t)
    <2> DEFINE d == model.dest[NextSend(t)]
               time == model.time[NextSend(t)]
    <2>1. /\ \A p \in Objects \ {d} : speculation'[p] = speculation[p]
          /\ d \in Objects /\ time \in Nat
      BY <1>2, SendNowEffect
    <2>2. filter_message' = filter_message
      BY <1>2 DEF SendNow
    <2>3. CASE o # d
      BY <1>2, <1>a, <2>1, <2>2, <2>3
    <2>4. CASE o = d
      <3> DEFINE v == IF IsStraggler(d, time) THEN Violated(s, time) ELSE s
      <3>1. r = v \/ r = Claimed(v, t)
        BY <1>0, <1>2, <2>4 DEF SendNow
      <3>2. \/ v = s
            \/ /\ v.standing_rollback /\ v.current_time = s.current_time
               /\ \/ v.causality_violation_time = time
                  \/ s.standing_rollback /\ v.causality_violation_time = s.causality_violation_time
               /\ s.standing_rollback => v.causality_violation_time <= s.causality_violation_time
        BY <1>0, <2>1, ViolatedTo
      <3>3. v \in Statuses
        BY <1>0, <2>1, ViolatedTo
      <3> HIDE DEF v
      <3>4. /\ r.standing_rollback = v.standing_rollback /\ r.current_time = v.current_time
            /\ r.causality_violation_time = v.causality_violation_time
        BY <3>1, <3>3 DEF Claimed, Statuses
      <3> QED
        BY <1>2, <1>a, <2>2, <3>2, <3>4
    <2> QED
      BY <2>3, <2>4
  <1>3. CASE Annihilate(t)
    <2> DEFINE e == Last(log_queue[target[t]]).event
    <2>1. /\ \A p \in Objects \ {Dest(e)} : speculation'[p] = speculation[p]
          /\ Dest(e) \in Objects /\ e \in Events
      BY <1>3, AnnihilateEffect
    <2>2. filter_message' = filter_message /\ Time(e) \in Nat
      <3>1. ModelOK
        BY DEF IInv, Lists
      <3> QED
        BY <1>3, <2>1, <3>1, EventTypes DEF Annihilate
    <2>3. CASE o # Dest(e)
      BY <2>1, <2>2, <2>3
    <2>4. CASE o = Dest(e)
      <3> DEFINE v == Violated(s, Time(e))
      <3>1. r = v \/ r = Claimed(v, t)
        BY <1>0, <1>3, <2>4 DEF Annihilate
      <3>2. /\ v.standing_rollback /\ v.current_time = s.current_time
            /\ v.causality_violation_time <= Time(e)
            /\ \/ v.causality_violation_time = Time(e)
               \/ s.standing_rollback /\ v.causality_violation_time = s.causality_violation_time
            /\ s.standing_rollback => v.causality_violation_time <= s.causality_violation_time
        BY <1>0, <2>2, ViolatedTo
      <3>3. v \in Statuses
        BY <1>0, <2>2, ViolatedTo
      <3> HIDE DEF v
      <3>4. /\ r.standing_rollback = v.standing_rollback /\ r.current_time = v.current_time
            /\ r.causality_violation_time = v.causality_violation_time
        BY <3>1, <3>3 DEF Claimed, Statuses
      <3> QED
        BY <1>3, <2>2, <2>4, <3>2, <3>4
    <2> QED
      BY <2>3, <2>4
  <1>4. CASE Extract(t)
    <2>1. filter_message' = filter_message /\ target[t] \in Objects /\ ~speculation[target[t]].standing_rollback
          /\ speculation' = [speculation EXCEPT ![target[t]].current_time =
                                Time(Head(queue[target[t]][current_index]))]
      BY <1>4 DEF Extract, IInv, Held, Holds
    <2> QED
      BY <1>0, <1>4, <1>a, <2>1 DEF Statuses
  <1>5. CASE Flush(t)
    <2>1. /\ speculation' = [speculation EXCEPT ![shadow_object_identifiers] =
                [Released(@) EXCEPT !.causality_violation_time = 0, !.standing_rollback = FALSE,
                                    !.already_taken = FALSE]]
          /\ filter_message' = [filter_message EXCEPT ![shadow_object_identifiers] = EpochLimit - Epsilon]
          /\ shadow_object_identifiers' = shadow_object_identifiers + 1
      BY <1>5 DEF Flush
    <2> QED
      BY <1>0, <1>5, <1>a, <2>1 DEF Released, Statuses
  <1>6. CASE Release(t)
    <2>1. filter_message' = filter_message /\ target[t] \in Objects
          /\ speculation' = [speculation EXCEPT ![target[t]] = Released(@)]
      BY <1>6 DEF Release, IInv, Held, Holds
    <2> QED
      BY <1>0, <1>6, <1>a, <2>1 DEF Released, Statuses
  <1>7. CASE ~(Take(t) \/ SendNow(t) \/ Annihilate(t) \/ Extract(t) \/ Flush(t) \/ Release(t))
    <2>1. UNCHANGED <<speculation, filter_message>>
      BY <1>7 DEF Step, InitObject, InitSend, InitDone, GetEvent, Dispense, Finish, TakenByOther,
           Restore, Reinsert, Keep, Redo, Process, ReadFreed, SendFiltered, SendLater, Retract,
           Commit, Checkpoint, FlushDone, UpdateTiming, FallbackInsert, FallbackDone, objects
    <2> QED
      BY <1>7, <2>1
  <1> QED
    BY <1>1, <1>2, <1>3, <1>4, <1>5, <1>6, <1>7

\* How the dispenser of the end of an epoch moves.
LEMMA ShadowMoves ==
  ASSUME IInv, NEW t \in Threads, Step(t)
  PROVE  \/ shadow_object_identifiers' = shadow_object_identifiers /\ ~Flush(t) /\ ~UpdateTiming(t)
         \/ UpdateTiming(t) /\ shadow_object_identifiers' = 0
         \/ Flush(t) /\ shadow_object_identifiers' = shadow_object_identifiers + 1
  <1>1. CASE Flush(t)
    BY <1>1 DEF Flush
  <1>2. CASE UpdateTiming(t)
    BY <1>2 DEF UpdateTiming
  <1>3. CASE ~Flush(t) /\ ~UpdateTiming(t)
    BY <1>3 DEF Step, InitObject, InitSend, InitDone, GetEvent, Dispense, Finish, Take, TakenByOther,
         Restore, Annihilate, Reinsert, Release, Keep, Redo, Extract, Process, ReadFreed,
         SendFiltered, SendLater, SendNow, Retract, Commit, Checkpoint, FlushDone,
         FallbackInsert, FallbackDone, dispensers
  <1> QED
    BY <1>1, <1>2, <1>3

\* Within an epoch no object has been dispensed at its end.
LEMMA NoShadow ==
  ASSUME Cleanup, AllIn(Running)
  PROVE  shadow_object_identifiers = 0
  BY DEF Cleanup, Reset, AllIn, Running, Closing

\* An event that is logged is of the epoch.
LEMMA LoggedIsDue ==
  ASSUME IInv, Ownership, UpToDate, NEW t \in Threads, Step(t), AllIn(Running)',
         NEW o \in Objects, NEW i \in DOMAIN log_queue'[o]
  PROVE  Time(log_queue'[o][i].event) >= current_min_limit
  <1>1. AllIn(Running) /\ pc[t] \in Running
    BY RunningStays DEF AllIn
  <1>2. log_queue[o] \in Seq(Sends) /\ log_queue \in [Objects -> Seq(Sends)]
    BY DEF IInv, Lists, QueueTypes
  <1>3. CASE SendNow(t)
    <2>1. PICK c \in Copies :
            log_queue' = [log_queue EXCEPT ![current[t]] = Append(log_queue[current[t]],
                             [event |-> [kind |-> NextSend(t), copy |-> c],
                              send_time |-> Time(event[t][1])])]
      BY <1>3, SendNowEffect
    <2> DEFINE x == [event |-> [kind |-> NextSend(t), copy |-> c], send_time |-> Time(event[t][1])]
    <2>2. Time(x.event) >= current_min_limit
      <3>1. ~Suppressed(t) /\ model.time[NextSend(t)] \in Nat /\ current_min_limit \in Nat
        <4>1. CounterTypes
          BY DEF IInv
        <4> QED
          BY <1>3, <4>1, SendNowEffect, LimitsInOrder
      <3> QED
        BY <3>1 DEF Suppressed, Time
    <2> HIDE DEF x
    <2>3. \/ log_queue'[o] = log_queue[o]
          \/ log_queue'[o] = Append(log_queue[o], x)
      BY <1>2, <2>1 DEF x
    <2>4. \/ i \in DOMAIN log_queue[o] /\ log_queue'[o][i] = log_queue[o][i]
          \/ log_queue'[o][i] = x
      BY <1>2, <2>3
    <2> QED
      BY <1>1, <2>2, <2>4 DEF UpToDate
  <1>4. CASE Annihilate(t)
    <2>1. /\ log_queue' = [log_queue EXCEPT ![target[t]] = Front(log_queue[target[t]])]
          /\ log_queue[target[t]] # <<>>
      BY <1>4, AnnihilateEffect
    <2>2. \/ log_queue'[o] = log_queue[o]
          \/ log_queue'[o] = Front(log_queue[o]) /\ log_queue[o] # <<>>
      BY <1>2, <2>1
    <2>3. i \in DOMAIN log_queue[o] /\ log_queue'[o][i] = log_queue[o][i]
      <3>1. CASE log_queue'[o] = log_queue[o]
        BY <3>1
      <3>2. CASE log_queue'[o] = Front(log_queue[o]) /\ log_queue[o] # <<>>
        <4>1. /\ DOMAIN log_queue[o] = 1..Len(log_queue[o]) /\ Len(log_queue[o]) \in Nat \ {0}
              /\ DOMAIN Front(log_queue[o]) = 1..(Len(log_queue[o]) - 1)
              /\ \A j \in 1..(Len(log_queue[o]) - 1) : Front(log_queue[o])[j] = log_queue[o][j]
          BY <1>2, <3>2, FrontEntries
        <4> QED
          BY <3>2, <4>1
      <3> QED
        BY <2>2, <3>1, <3>2
    <2> QED
      BY <1>1, <2>3 DEF UpToDate
  <1>5. CASE ~SendNow(t) /\ ~Annihilate(t)
    <2>1. log_queue' = log_queue
      BY <1>1, <1>5, RunningSteps DEF GetEvent, Dispense, Finish, Take, TakenByOther, Restore, Reinsert,
           Release, Keep, Redo, Extract, Process, ReadFreed, SendFiltered, SendLater, queues
    <2> QED
      BY <1>1, <2>1 DEF UpToDate
  <1> QED
    BY <1>3, <1>4, <1>5

LEMMA UpToDateStep ==
  ASSUME IInv, Ownership, Cleanup, Window, UpToDate, NEW t \in Threads, Step(t)
  PROVE  UpToDate'
  <1>1. CounterTypes /\ PhasesStay
    <2>1. Turned
      BY DEF Window
    <2> QED
      BY <2>1, PhaseEnds DEF IInv
  <1>2. /\ current_min_limit \in Nat /\ EpochLimit \in Nat /\ current_min_limit < EpochLimit
        /\ shadow_object_identifiers \in Nat /\ Epsilon \in Nat
    BY <1>1, LimitsInOrder, ConstantsAssumption DEF CounterTypes
  <1>3. (AllIn(Running) => \A o \in Objects : \A i \in DOMAIN log_queue[o] :
            Time(log_queue[o][i].event) >= current_min_limit)'
    <2>1. AllIn(Running)' => ~UpdateTiming(t)
      BY <1>1 DEF UpdateTiming, PhasesStay, AllIn, Running
    <2>2. AllIn(Running)' => current_min_limit' = current_min_limit /\ model' = model
      BY <2>1, LimitsMove
    <2>3. \A o \in Objects : \A i \in DOMAIN log_queue'[o] :
            AllIn(Running)' => model.time[log_queue'[o][i].event.kind] >= current_min_limit
      BY LoggedIsDue DEF Time
    <2> QED
      BY <2>2, <2>3 DEF Time
  <1>4. ASSUME NEW o \in Objects
        PROVE  /\ filter_message'[o] >= current_min_limit' - Epsilon
               /\ o < shadow_object_identifiers' => filter_message'[o] >= EpochLimit' - Epsilon
               /\ speculation'[o].standing_rollback =>
                     /\ shadow_object_identifiers' <= o
                     /\ speculation'[o].causality_violation_time >= current_min_limit'
    <2> DEFINE s == speculation[o]
               r == speculation'[o]
    <2>1. /\ s.causality_violation_time \in Nat /\ filter_message[o] \in Int /\ o \in Nat /\ o < OBJECTS
          /\ speculation[o] \in Statuses
      <3>1. speculation[o] \in Statuses /\ filter_message[o] \in Int
        BY DEF IInv, Lists, ObjectTypes
      <3>2. s.causality_violation_time \in Nat
        BY <3>1 DEF Statuses
      <3>3. o \in Nat /\ o < OBJECTS
        BY ConstantsAssumption DEF Objects
      <3> QED
        BY <3>1, <3>2, <3>3
    <2>2. /\ filter_message[o] >= current_min_limit - Epsilon
          /\ o < shadow_object_identifiers => filter_message[o] >= EpochLimit - Epsilon
          /\ s.standing_rollback => /\ shadow_object_identifiers <= o
                                    /\ s.causality_violation_time >= current_min_limit
      BY DEF UpToDate
    <2>3. CASE UpdateTiming(t)
      <3>1. current_min_limit' = EpochLimit /\ shadow_object_identifiers' = 0
        BY <2>3, LimitsMove, ShadowMoves DEF UpdateTiming, Flush
      <3>2. UNCHANGED <<speculation, filter_message>>
        BY <2>3 DEF UpdateTiming, objects
      <3>3. shadow_object_identifiers = OBJECTS
        BY <2>3 DEF Window, Turned, UpdateTiming
      <3> QED
        BY <1>2, <2>1, <2>2, <3>1, <3>2, <3>3
    <2>4. CASE Flush(t)
      <3>1. /\ speculation' = [speculation EXCEPT ![shadow_object_identifiers] =
                [Released(@) EXCEPT !.causality_violation_time = 0, !.standing_rollback = FALSE,
                                    !.already_taken = FALSE]]
            /\ filter_message' = [filter_message EXCEPT ![shadow_object_identifiers] = EpochLimit - Epsilon]
            /\ shadow_object_identifiers' = shadow_object_identifiers + 1
            /\ speculation \in [Objects -> Statuses] /\ filter_message \in [Objects -> Int]
        BY <2>4 DEF Flush, IInv, Lists, ObjectTypes
      <3>2. current_min_limit' = current_min_limit /\ EpochLimit' = EpochLimit
        BY <2>4 DEF Flush, current_min_limit, EpochLimit
      <3>3. CASE o = shadow_object_identifiers
        <4>1. ~r.standing_rollback
          BY <2>1, <3>1, <3>3 DEF Released, Statuses
        <4>2. filter_message'[o] = EpochLimit - Epsilon
          BY <3>1, <3>3
        <4> QED
          BY <1>2, <3>2, <4>1, <4>2
      <3>4. CASE o # shadow_object_identifiers
        <4>1. r = s /\ filter_message'[o] = filter_message[o]
          BY <3>1, <3>4
        <4> QED
          BY <1>2, <2>1, <2>2, <3>1, <3>2, <3>4, <4>1
      <3> QED
        BY <3>3, <3>4
    <2>5. CASE ~UpdateTiming(t) /\ ~Flush(t)
      <3>1. /\ current_min_limit' = current_min_limit /\ EpochLimit' = EpochLimit
            /\ shadow_object_identifiers' = shadow_object_identifiers
        BY <2>5, LimitsMove, ShadowMoves
      <3>2. Take(t) \/ SendNow(t) \/ Annihilate(t) \/ Extract(t) => shadow_object_identifiers = 0
        <4>1. Take(t) \/ SendNow(t) \/ Annihilate(t) \/ Extract(t) => pc[t] \in Running
          BY DEF Take, SendNow, Annihilate, Extract, Running
        <4> QED
          BY <4>1, OnePhase, NoShadow
      <3>3. SendNow(t) => model.time[NextSend(t)] >= current_min_limit
        <4> SUFFICES ASSUME SendNow(t) PROVE model.time[NextSend(t)] >= current_min_limit
          OBVIOUS
        <4>1. ~Suppressed(t) /\ model.time[NextSend(t)] \in Nat
          BY SendNowEffect
        <4> QED
          BY <1>2, <4>1 DEF Suppressed
      <3>4. Annihilate(t) => Time(Last(log_queue[target[t]]).event) >= current_min_limit
        <4> SUFFICES ASSUME Annihilate(t)
                     PROVE  Time(Last(log_queue[target[t]]).event) >= current_min_limit
          OBVIOUS
        <4>1. target[t] \in Objects /\ log_queue[target[t]] # <<>> /\ pc[t] = "undo"
          BY AnnihilateEffect
        <4>2. AllIn(Running)
          BY <4>1, OnePhase DEF Running
        <4>3. log_queue[target[t]] \in Seq(Sends)
          BY <4>1, LogTypes
        <4>4. \E i \in DOMAIN log_queue[target[t]] : Last(log_queue[target[t]]) = log_queue[target[t]][i]
          BY <4>1, <4>3, FrontEntries
        <4> QED
          BY <4>1, <4>2, <4>4 DEF UpToDate
      <3>5. /\ filter_message'[o] >= current_min_limit - Epsilon
            /\ filter_message'[o] = filter_message[o] \/ shadow_object_identifiers = 0
            /\ r.standing_rollback => \/ s.standing_rollback /\ r.causality_violation_time = s.causality_violation_time
                                      \/ shadow_object_identifiers = 0 /\ r.causality_violation_time >= current_min_limit
        BY <1>2, <2>1, <2>2, <2>5, <3>2, <3>3, <3>4, RollbackMoves
      <3> QED
        BY <1>2, <2>1, <2>2, <3>1, <3>5
    <2> QED
      BY <2>3, <2>4, <2>5
  <1> QED
    BY <1>3, <1>4 DEF UpToDate

LEMMA UpToDateBarriers ==
  ASSUME Cleanup, UpToDate, Barriers
  PROVE  UpToDate'
  <1>1. UNCHANGED <<model, queues, objects, epochs, dispensers>>
    BY DEF Barriers
  <1>2. /\ current_min_limit' = current_min_limit /\ EpochLimit' = EpochLimit
        /\ \A e : Time(e)' = Time(e)
    BY <1>1 DEF current_min_limit, EpochLimit, Time
  <1>3. ASSUME AllIn(Running)', NEW o \in Objects PROVE log_queue'[o] = <<>>
    <2>1. AllIn(Starting) \/ AllIn(Crossing)
      BY <1>3, IntoEpoch DEF AllIn, Starting, Crossing
    <2> QED
      BY <1>1, <2>1 DEF queues, Cleanup, Fresh
  <1>4. DOMAIN <<>> = {}
    OBVIOUS
  <1>5. ASSUME AllIn(Running)', NEW o \in Objects, NEW i \in DOMAIN log_queue'[o] PROVE FALSE
    BY <1>3, <1>4, <1>5
  <1> QED
    BY <1>1, <1>2, <1>5 DEF UpToDate, objects, dispensers

-----------------------------------------------------------------------------
(* What an object has sent stands *)

\* A send lies before the filter, or the object has come as far as its time, and
\* the event that made it can be undone or is to be undone.
Stood(o, x) ==
    \/ x.send_time <= filter_message[o]
    \/ /\ x.send_time <= speculation[o].current_time
       /\ \/ \E e \in ToSet(retractable_queue[o]) : MadeBy(x, e.kind, o)
          \/ /\ speculation[o].standing_rollback
             /\ speculation[o].causality_violation_time <= x.send_time

Stands ==
    AllIn(Running) =>
        \A o \in Objects : ~RollingBack(o) => \A x \in SentIn(o) : Stood(o, x)

\* So does the event that is being executed.
EventStands ==
    \A t \in Threads, o \in Objects : Working(t, o) =>
        \/ event[t][1] \in ToSet(retractable_queue[o])
        \/ /\ speculation[o].standing_rollback
           /\ speculation[o].causality_violation_time <= Time(event[t][1])

\* The sends that a rollback drops are the last ones withheld.
InSendOrder(q) == \A i, j \in DOMAIN q : i <= j => q[i].send_time <= q[j].send_time

WithheldSorted == \A o \in Objects : InSendOrder(speculation_queue[o])

Undone ==
    \A t \in Threads : pc[t] = "undo" =>
        \A x \in ToSet(speculation_queue[target[t]]) : x.send_time < rollback_time[t]

\* How an executed event leaves the retractable queue within an epoch.
LEMMA RetractableStays ==
  ASSUME IInv, NEW t \in Threads, Step(t), pc[t] \in Running, NEW o \in Objects,
         NEW e \in ToSet(retractable_queue[o])
  PROVE  \/ e \in ToSet(retractable_queue'[o])
         \/ Reinsert(t) /\ o = target[t]
         \/ /\ Annihilate(t) /\ e = Last(log_queue[target[t]]).event
            /\ o = Dest(Last(log_queue[target[t]]).event)
  <1>1. retractable_queue \in [Objects -> Seq(Events)] /\ retractable_queue[o] \in Seq(Events) /\ ModelOK
    BY DEF IInv, Lists, QueueTypes
  <1>2. CASE Reinsert(t)
    <2>1. retractable_queue' = [retractable_queue EXCEPT ![target[t]] = <<>>]
      BY <1>2 DEF Reinsert
    <2> QED
      BY <1>1, <1>2, <2>1
  <1>3. CASE Annihilate(t)
    <2> DEFINE f == Last(log_queue[target[t]]).event
    <2>1. retractable_queue' = [retractable_queue EXCEPT ![Dest(f)] = Without(retractable_queue[Dest(f)], f)]
          /\ f \in Events
      BY <1>3, AnnihilateEffect
    <2>2. ToSet(retractable_queue[o]) \subseteq ToSet(Without(retractable_queue[o], f)) \cup {f}
      BY <1>1, <2>1, Unlinked
    <2> QED
      BY <1>1, <1>3, <2>1, <2>2
  <1>4. CASE Extract(t)
    <2> DEFINE f == Head(queue[target[t]][current_index])
    <2>1. /\ retractable_queue' = [retractable_queue EXCEPT ![target[t]] =
                Append(retractable_queue[target[t]], f)]
          /\ target[t] \in Objects
      BY <1>4 DEF Extract, IInv, Held, Holds
    <2>2. f \in Events
      <3>1. queue[target[t]][current_index] \in Seq(Events) /\ queue[target[t]][current_index] # <<>>
        <4>1. current_index \in Slots
          BY ConstantsAssumption, ConstantTypes DEF IInv, CounterTypes, current_index, Slots
        <4> QED
          BY <1>4, <2>1, <4>1, WindowTypes DEF Extract, HasWork
      <3> QED
        BY <3>1
    <2> HIDE DEF f
    <2>3. ToSet(Append(retractable_queue[o], f)) = ToSet(retractable_queue[o]) \cup {f}
      BY <1>1, <2>2, AppendElements
    <2> QED
      BY <1>1, <2>1, <2>3
  <1>5. CASE ~Reinsert(t) /\ ~Annihilate(t) /\ ~Extract(t)
    <2>1. retractable_queue' = retractable_queue
      BY <1>5, RunningSteps DEF GetEvent, Dispense, Finish, Take, TakenByOther, Restore,
           Release, Keep, Redo, Process, ReadFreed, SendFiltered, SendLater, SendNow, queues
    <2> QED
      BY <2>1
  <1> QED
    BY <1>2, <1>3, <1>4, <1>5

\* Who is rolled back after a step of a thread.
LEMMA RollingMoves ==
  ASSUME IInv, NEW t \in Threads, Step(t), NEW o \in Objects
  PROVE  /\ RollingBack(o) => RollingBack(o)' \/ (Reinsert(t) /\ o = target[t])
         /\ Take(t) /\ o = target[t] /\ pc'[t] = "restore" => RollingBack(o)'
  <1>1. OthersStay(t)
    BY OneMoves
  <1>2. ASSUME NEW u \in Threads \ {t}, pc[u] \in {"restore", "undo"}, target[u] = o
        PROVE  RollingBack(o)'
    BY <1>1, <1>2 DEF OthersStay, RollingBack
  <1>3. ASSUME pc[t] \in {"restore", "undo"}, target[t] = o, ~Reinsert(t)
        PROVE  RollingBack(o)'
    <2>1. Restore(t) \/ Annihilate(t)
      BY <1>3, RunningSteps DEF Running, GetEvent, Dispense, Finish, Take, TakenByOther, Release, Keep,
         Redo, Extract, Process, ReadFreed, SendFiltered, SendLater, SendNow
    <2>2. pc'[t] = "undo" /\ target'[t] = o
      BY <1>3, <2>1 DEF Restore, Annihilate, Goto, IInv, Held, ThreadTypes, locals
    <2> QED
      BY <2>2 DEF RollingBack
  <1>4. Take(t) => target' = target
    BY DEF Take
  <1> QED
    BY <1>2, <1>3, <1>4 DEF RollingBack

\* A send that stands, of an object that is not rolled back, goes on to stand.
LEMMA StoodStays ==
  ASSUME IInv, Order, NEW t \in Threads, Step(t), pc[t] \in Running,
         NEW o \in Objects, ~RollingBack(o), ~RollingBack(o)',
         NEW x \in Sends, Stood(o, x)
  PROVE  Stood(o, x)'
  <1> DEFINE s == speculation[o]
             r == speculation'[o]
             f == Last(log_queue[target[t]]).event
  <1>1. /\ model' = model /\ x.send_time \in Nat /\ filter_message[o] \in Int
        /\ s.causality_violation_time \in Nat /\ s.current_time \in Nat /\ s \in Statuses
        /\ Reinsert(t) => o # target[t]
    <2>1. s \in Statuses /\ filter_message[o] \in Int
      BY DEF IInv, Lists, ObjectTypes
    <2>2. Reinsert(t) => pc[t] = "undo"
      BY DEF Reinsert
    <2> QED
      BY <2>1, <2>2, LimitsMove DEF Sends, Statuses, RollingBack
  <1>2. ~(Take(t) /\ o = target[t] /\ s.standing_rollback /\ ~r.standing_rollback)
    <2> SUFFICES ASSUME Take(t), o = target[t], s.standing_rollback PROVE FALSE
      OBVIOUS
    <2>1. pc'[t] = IF s.causality_violation_time > 0 THEN "restore" ELSE "check"
      BY TakeStatus
    <2>2. \E k \in Kinds : s.causality_violation_time = model.time[k]
      BY DEF Order, InOrder, Standing
    <2>3. s.causality_violation_time > 0
      <3>1. ModelOK
        BY DEF IInv, Lists
      <3> QED
        BY <2>2, <3>1, ModelFacts
    <2> QED
      BY <2>1, <2>3, RollingMoves
  <1>3. CASE x.send_time <= filter_message[o]
    <2>1. filter_message'[o] = filter_message[o]
      <3>1. ~Flush(t)
        BY DEF Flush, Running
      <3> QED
        BY <1>2, <3>1, RollbackMoves
    <2> QED
      BY <1>3, <2>1 DEF Stood
  <1>4. CASE /\ x.send_time <= s.current_time
             /\ \E e \in ToSet(retractable_queue[o]) : MadeBy(x, e.kind, o)
    <2>1. PICK e \in ToSet(retractable_queue[o]) : MadeBy(x, e.kind, o)
      BY <1>4
    <2>2. MadeBy(x, e.kind, o)'
      BY <1>1, <2>1 DEF MadeBy
    <2>3. x.send_time <= r.current_time
      <3>1. CASE Extract(t) /\ o = target[t] /\ ~s.standing_rollback
        <4>1. r.current_time = Time(Head(queue[o][current_index])) \/ r.current_time = s.current_time
          BY <3>1, RollbackMoves DEF Extract, Take, SendNow, Annihilate, Flush
        <4>2. queue[o][current_index] \in Seq(Events) /\ queue[o][current_index] # <<>>
          <5>1. current_index \in Slots
            BY ConstantsAssumption, ConstantTypes DEF IInv, CounterTypes, current_index, Slots
          <5> QED
            BY <3>1, <5>1, WindowTypes DEF Extract, HasWork
        <4>3. Head(queue[o][current_index]) \in ToSet(queue[o][current_index])
          BY <4>2, EndsElements
        <4>4. Settled(o)
          BY <3>1 DEF Settled
        <4>5. Time(e) <= Time(Head(queue[o][current_index]))
          BY <4>3, <4>4 DEF Order, InOrder, ExecutedInOrder
        <4>6. x.send_time = Time(e)
          BY <2>1 DEF MadeBy, Time
        <4> QED
          BY <1>4, <4>1, <4>5, <4>6
      <3>2. CASE ~(Extract(t) /\ o = target[t] /\ ~s.standing_rollback)
        <4>1. ~Flush(t)
          BY DEF Flush, Running
        <4> QED
          BY <1>2, <1>4, <3>2, <4>1, RollbackMoves
      <3> QED
        BY <3>1, <3>2
    <2>4. CASE e \in ToSet(retractable_queue'[o])
      BY <2>2, <2>3, <2>4 DEF Stood
    <2>5. CASE e \notin ToSet(retractable_queue'[o])
      <3>1. Annihilate(t) /\ e = f /\ o = Dest(f)
        BY <1>1, <2>5, RetractableStays
      <3>2. r.standing_rollback /\ r.causality_violation_time <= Time(f)
        BY <3>1, RollbackMoves DEF Annihilate, Take, SendNow, Extract, Flush
      <3>3. x.send_time = Time(e)
        BY <2>1 DEF MadeBy, Time
      <3> QED
        BY <2>3, <3>1, <3>2, <3>3 DEF Stood
    <2> QED
      BY <2>4, <2>5
  <1>5. CASE /\ x.send_time <= s.current_time
             /\ s.standing_rollback /\ s.causality_violation_time <= x.send_time
    <2>1. /\ r.standing_rollback /\ r.current_time = s.current_time
          /\ r.causality_violation_time <= s.causality_violation_time
      <3>1. ~Flush(t)
        BY DEF Flush, Running
      <3> QED
        BY <1>1, <1>2, <1>5, <3>1, RollbackMoves
    <2>2. r.causality_violation_time \in Nat
      <3>1. IInv'
        BY StepPreserves
      <3>2. speculation'[o] \in Statuses
        BY <3>1 DEF IInv, Lists, ObjectTypes
      <3> QED
        BY <3>2 DEF Statuses
    <2> QED
      BY <1>1, <1>5, <2>1, <2>2 DEF Stood
  <1> QED
    BY <1>3, <1>4, <1>5 DEF Stood

\* Sends kept by a rollback are the first ones.
LEMMA BeforeIs ==
  ASSUME NEW q \in Seq(Sends), NEW time
  PROVE  LET D == {i \in DOMAIN q : \A j \in i..Len(q) : q[j].send_time >= time}
             n == Len(q) - Cardinality(D)
         IN  /\ n \in 0..Len(q) /\ Len(q) \in Nat /\ Cardinality(D) \in Nat /\ DOMAIN q = 1..Len(q)
             /\ Before(q, time) \in Seq(Sends) /\ Len(Before(q, time)) = n
             /\ DOMAIN Before(q, time) = 1..n
             /\ \A i \in 1..n : Before(q, time)[i] = q[i]
  <1> DEFINE D == {i \in DOMAIN q : \A j \in i..Len(q) : q[j].send_time >= time}
             n == Len(q) - Cardinality(D)
             r == SubSeq(q, 1, n)
  <1>1. n \in 0..Len(q) /\ Len(q) \in Nat /\ DOMAIN q = 1..Len(q) /\ Cardinality(D) \in Nat
    <2>1. Cardinality(D) \in 0..Len(q)
      BY CountOfIndexes
    <2> QED
      BY <2>1, Elements
  <1>2. Before(q, time) = r
    BY DEF Before
  <1> HIDE DEF n
  <1>3. r \in Seq(Sends) /\ Len(r) = n /\ DOMAIN r = 1..n /\ \A i \in 1..n : r[i] = q[i]
    BY <1>1, SubSeqProperties
  <1> QED
    BY <1>1, <1>2, <1>3 DEF n

LEMMA BeforeSorted ==
  ASSUME NEW q \in Seq(Sends), InSendOrder(q), NEW time \in Nat
  PROVE  /\ InSendOrder(Before(q, time))
         /\ \A x \in ToSet(Before(q, time)) : x.send_time < time
  <1> DEFINE D == {i \in DOMAIN q : \A j \in i..Len(q) : q[j].send_time >= time}
             n == Len(q) - Cardinality(D)
             r == Before(q, time)
  <1>1. /\ n \in 0..Len(q) /\ Len(q) \in Nat /\ Cardinality(D) \in Nat /\ DOMAIN q = 1..Len(q)
        /\ r \in Seq(Sends) /\ Len(r) = n /\ DOMAIN r = 1..n /\ \A i \in 1..n : r[i] = q[i]
    BY BeforeIs
  <1>2. \A i \in 1..Len(q) : q[i].send_time \in Nat
    <2>1. \A x \in Sends : x.send_time \in Nat
      BY DEF Sends
    <2> QED
      BY <1>1, <2>1, Elements
  <1>3. ASSUME NEW i \in 1..n, q[i].send_time >= time PROVE FALSE
    <2>0. n \in Nat /\ i \in 1..Len(q)
      BY <1>1
    <2>1. \A j \in i..Len(q) : q[j].send_time >= time
      <3> HIDE DEF n
      <3> SUFFICES ASSUME NEW j \in i..Len(q) PROVE q[j].send_time >= time
        OBVIOUS
      <3>1. j \in 1..Len(q) /\ i <= j
        BY <1>1, <2>0
      <3>2. q[i].send_time <= q[j].send_time
        BY <1>1, <2>0, <3>1 DEF InSendOrder
      <3> QED
        BY <1>2, <1>3, <2>0, <3>1, <3>2
    <2>2. \A k \in i..Len(q) : k \in D
      BY <1>1, <2>1
    <2>3. IsFiniteSet(D)
      <3>1. IsFiniteSet(1..Len(q)) /\ D \subseteq 1..Len(q)
        BY <1>1, IntervalSize
      <3> QED
        BY <3>1, FS_Subset
    <2>4. Cardinality(i..Len(q)) = (Len(q) - i) + 1 /\ i..Len(q) \subseteq D
      <3>0. i \in Int /\ Len(q) \in Int
        BY <1>1, <2>0
      <3> HIDE DEF n, D
      <3>1. Cardinality(i..Len(q)) = IF i > Len(q) THEN 0 ELSE Len(q) - i + 1
        BY <3>0, FS_Interval
      <3> QED
        BY <1>1, <2>0, <2>2, <3>1
    <2>5. (Len(q) - i) + 1 <= Cardinality(D)
      BY <2>3, <2>4, FS_Subset
    <2> QED
      BY <1>1, <2>5
  <1> HIDE DEF n, r
  <1>4. InSendOrder(r)
    BY <1>1 DEF InSendOrder
  <1>5. \A x \in ToSet(r) : x.send_time < time
    <2> SUFFICES ASSUME NEW x \in ToSet(r) PROVE x.send_time < time
      OBVIOUS
    <2>1. PICK i \in 1..Len(r) : x = r[i]
      BY <1>1, Elements
    <2> QED
      BY <1>1, <1>2, <1>3, <2>1
  <1> QED
    BY <1>4, <1>5 DEF r

\* A withheld send is not earlier than those before it.
LEMMA NewIsLast ==
  ASSUME IInv, Ownership, Clocks, SendsNext, Stands, NEW t \in Threads, SendNow(t) \/ SendLater(t),
         NEW x \in SentIn(current[t])
  PROVE  x.send_time <= Time(event[t][1])
  <1>1. PICK o \in Objects : o = current[t]
    BY SendFacts
  <1>2. pc[t] = "process" /\ filter_message[o] < Time(event[t][1]) /\ Time(event[t][1]) \in Nat
        /\ filter_message[o] \in Int
    BY <1>1, SendFacts DEF IInv, Lists, ObjectTypes
  <1>3. AllIn(Running) /\ Working(t, o) /\ Runs(t, o)
    BY <1>1, <1>2, OnePhase DEF Running, Working, Runs
  <1>4. ~RollingBack(o)
    BY <1>2, <1>3, NotRollingBack
  <1>5. Stood(o, x) /\ x.send_time \in Nat
    BY <1>1, <1>3, <1>4, SentTypes DEF Stands
  <1>6. speculation[o].current_time = Time(event[t][1])
    BY <1>3 DEF Clocks, Clocked, AtTime
  <1> QED
    BY <1>2, <1>5, <1>6 DEF Stood

LEMMA WithheldSortedStep ==
  ASSUME IInv, Ownership, Clocks, SendsNext, Stands, WithheldSorted, NEW t \in Threads, Step(t)
  PROVE  WithheldSorted'
  <1>1. speculation_queue \in [Objects -> Seq(Sends)]
    BY DEF IInv, Lists, QueueTypes
  <1> SUFFICES ASSUME NEW o \in Objects PROVE InSendOrder(speculation_queue'[o])
    BY DEF WithheldSorted, InSendOrder
  <1> DEFINE q == speculation_queue[o]
  <1>2. q \in Seq(Sends) /\ InSendOrder(q)
    BY <1>1 DEF WithheldSorted
  <1>3. CASE SendLater(t)
    <2>1. PICK c \in Copies :
            speculation_queue' = [speculation_queue EXCEPT ![current[t]] =
                Append(@, [event |-> [kind |-> NextSend(t), copy |-> c],
                           send_time |-> Time(event[t][1])])]
      BY <1>3 DEF SendLater
    <2> DEFINE x == [event |-> [kind |-> NextSend(t), copy |-> c], send_time |-> Time(event[t][1])]
    <2>2. x.send_time = Time(event[t][1])
      OBVIOUS
    <2>3. speculation_queue'[o] = q \/ (o = current[t] /\ speculation_queue'[o] = Append(q, x))
      BY <1>1, <2>1
    <2> HIDE DEF x
    <2>4. CASE o = current[t] /\ speculation_queue'[o] = Append(q, x)
      <3>1. /\ DOMAIN q = 1..Len(q) /\ Len(q) \in Nat
            /\ \A i \in 1..Len(q) : q[i].send_time <= x.send_time
        <4>1. \A i \in 1..Len(q) : q[i] \in SentIn(current[t])
          BY <1>2, <2>4, Elements DEF SentIn
        <4> QED
          BY <1>2, <1>3, <2>2, <4>1, NewIsLast, Elements
      <3>2. x.send_time \in Nat
        BY <1>3, <2>2, SendFacts
      <3>3. /\ DOMAIN Append(q, x) = 1..(Len(q) + 1)
            /\ \A i \in 1..Len(q) : Append(q, x)[i] = q[i]
            /\ Append(q, x)[Len(q) + 1] = x
        BY <1>2, AppendProperties
      <3>4. InSendOrder(Append(q, x))
        <4> SUFFICES ASSUME NEW i \in 1..(Len(q) + 1), NEW j \in 1..(Len(q) + 1), i <= j
                     PROVE  Append(q, x)[i].send_time <= Append(q, x)[j].send_time
          BY <3>3 DEF InSendOrder
        <4>1. CASE j \in 1..Len(q)
          BY <1>2, <3>1, <3>3, <4>1 DEF InSendOrder
        <4>2. CASE j = Len(q) + 1 /\ i \in 1..Len(q)
          BY <3>1, <3>3, <4>2
        <4>3. CASE i = Len(q) + 1 /\ j = Len(q) + 1
          BY <3>2, <3>3, <4>3
        <4> QED
          BY <3>1, <4>1, <4>2, <4>3
      <3> QED
        BY <2>4, <3>4
    <2> QED
      BY <1>2, <2>3, <2>4
  <1>4. CASE Restore(t)
    <2>1. /\ speculation_queue' = [speculation_queue EXCEPT ![target[t]] =
                                     Before(speculation_queue[target[t]], rollback_time[t])]
          /\ rollback_time[t] \in Nat
      BY <1>4 DEF Restore, IInv, Held, ThreadTypes
    <2>2. speculation_queue'[o] = q \/ speculation_queue'[o] = Before(q, rollback_time[t])
      BY <1>1, <2>1
    <2> QED
      BY <1>2, <2>1, <2>2, BeforeSorted
  <1>5. CASE Commit(t)
    <2>1. /\ speculation_queue' = [speculation_queue EXCEPT ![target[t]] = Tail(@)]
          /\ speculation_queue[target[t]] # <<>>
      BY <1>5 DEF Commit
    <2>2. speculation_queue'[o] = q \/ (speculation_queue'[o] = Tail(q) /\ q # <<>>)
      BY <1>1, <2>1
    <2>3. q # <<>> => InSendOrder(Tail(q))
      BY <1>2 DEF InSendOrder
    <2> QED
      BY <1>2, <2>2, <2>3
  <1>6. CASE ~SendLater(t) /\ ~Restore(t) /\ ~Commit(t)
    <2>1. speculation_queue' = speculation_queue
      BY <1>6 DEF Step, InitObject, InitSend, InitDone, GetEvent, Dispense, Finish, Take, TakenByOther,
         Annihilate, Reinsert, Release, Keep, Redo, Extract, Process, ReadFreed,
         SendFiltered, SendNow, Retract, Flush, Checkpoint, FlushDone, UpdateTiming,
         FallbackInsert, FallbackDone, queues
    <2> QED
      BY <1>2, <2>1
  <1> QED
    BY <1>3, <1>4, <1>5, <1>6

LEMMA UndoneStep ==
  ASSUME IInv, Ownership, SendsNext, WithheldSorted, Undone, NEW t \in Threads, Step(t)
  PROVE  Undone'
  <1>1. OthersStay(t)
    BY OneMoves
  <1>2. speculation_queue \in [Objects -> Seq(Sends)] /\ target \in [Threads -> Objects \cup {NoObject}]
        /\ rollback_time \in [Threads -> Nat]
    BY DEF IInv, Held, Lists, QueueTypes, ThreadTypes
  <1> SUFFICES ASSUME NEW u \in Threads, pc'[u] = "undo",
                      NEW x \in ToSet(speculation_queue'[target'[u]])
               PROVE  x.send_time < rollback_time'[u]
    BY DEF Undone
  <1>3. CASE Restore(t) /\ u = t
    <2>1. /\ target[t] \in Objects /\ UNCHANGED <<target, rollback_time>>
          /\ speculation_queue' = [speculation_queue EXCEPT ![target[t]] =
                                     Before(speculation_queue[target[t]], rollback_time[t])]
      BY <1>3 DEF Restore, IInv, Held, Holds, locals
    <2>2. x \in ToSet(Before(speculation_queue[target[t]], rollback_time[t]))
      BY <1>2, <1>3, <2>1
    <2> QED
      BY <1>2, <1>3, <2>1, <2>2, BeforeSorted DEF WithheldSorted
  <1>4. CASE ~(Restore(t) /\ u = t)
    <2>1. pc[u] = "undo" /\ target'[u] = target[u] /\ rollback_time'[u] = rollback_time[u]
      <3>1. CASE u # t
        <4>1. rollback_time'[u] = rollback_time[u]
          BY <1>2, <3>1 DEF Step, InitObject, InitSend, InitDone, GetEvent, Dispense, Finish, Take, TakenByOther,
             Restore, Annihilate, Reinsert, Release, Keep, Redo, Extract, Process, ReadFreed,
             SendFiltered, SendLater, SendNow, Retract, Flush, Commit, Checkpoint, FlushDone,
             UpdateTiming, FallbackInsert, FallbackDone, locals
        <4> QED
          BY <1>1, <3>1, <4>1 DEF OthersStay
      <3>2. CASE u = t
        <4>1. pc[t] \in Running
          BY <3>2, OneMoves DEF SamePhase, Starting, Running, Closing, Turning, Crossing
        <4>2. pc \in [Threads -> Labels] /\ ThreadTypes
          BY DEF IInv, Held, ThreadTypes
        <4>3. pc'[t] = "undo"
          BY <3>2
        <4>4. ~GetEvent(t)
          <5> SUFFICES ASSUME GetEvent(t) PROVE FALSE
            OBVIOUS
          <5>1. CASE target[t] # NoObject
            BY <5>1, <4>2, <4>3 DEF GetEvent, Goto
          <5>2. CASE target[t] = NoObject
            <6>1. Resume(t, "dispense")
              BY <5>2 DEF GetEvent
            <6> QED
              BY <6>1, <4>2, <4>3, ResumeStack DEF Labels
          <5> QED
            BY <5>1, <5>2
        <4>5. ~Dispense(t)
          <5> SUFFICES ASSUME Dispense(t) PROVE FALSE
            OBVIOUS
          <5>1. CASE object_identifiers < OBJECTS
            BY <5>1, <4>2, <4>3 DEF Dispense, Goto
          <5>2. CASE ~(object_identifiers < OBJECTS)
            <6>1. Resume(t, "quiet")
              BY <5>2 DEF Dispense
            <6> QED
              BY <6>1, <4>2, <4>3, ResumeStack DEF Labels
          <5> QED
            BY <5>1, <5>2
        <4>6. ~Release(t)
          <5> SUFFICES ASSUME Release(t) PROVE FALSE
            OBVIOUS
          <5>1. Resume(t, "dispense")
            BY DEF Release
          <5> QED
            BY <5>1, <4>2, <4>3, ResumeStack DEF Labels
        <4>7. ~Take(t)
          <5> SUFFICES ASSUME Take(t) PROVE FALSE
            OBVIOUS
          <5> QED
            BY <4>3, TakeStatus
        <4>8. ~(Finish(t) \/ TakenByOther(t) \/ Reinsert(t) \/ Keep(t) \/ Redo(t) \/ Extract(t))
          BY <4>2, <4>3 DEF Finish, TakenByOther, Reinsert, Keep, Redo, Extract, Goto
        <4>9. ~ReadFreed(t)
          BY <4>3 DEF ReadFreed
        <4>10. ~(Process(t) \/ SendFiltered(t) \/ SendLater(t) \/ SendNow(t))
          BY <4>3, SendMoves
        <4>11. Annihilate(t)
          BY <1>4, <3>2, <4>1, <4>4, <4>5, <4>6, <4>7, <4>8, <4>9, <4>10, RunningSteps
        <4> QED
          BY <3>2, <4>11 DEF Annihilate
      <3> QED
        BY <3>1, <3>2
    <2>2. target[u] \in Objects
      BY <2>1 DEF IInv, Held, Holds
    <2>3. PICK o \in Objects : o = target[u]
      BY <2>2
    <2>4. x \in ToSet(speculation_queue[o])
      <3>1. \/ x \in ToSet(speculation_queue[o])
            \/ SendLater(t) /\ o = current[t]
        BY <2>1, <2>3, WithheldElements
      <3>2. SendLater(t) /\ o = current[t] => FALSE
        <4> SUFFICES ASSUME SendLater(t), o = current[t] PROVE FALSE
          OBVIOUS
        <4>1. pc[t] = "process"
          BY DEF SendLater
        <4>2. Working(t, o) /\ u # t /\ Runs(u, o)
          BY <2>1, <2>3, <4>1 DEF Working, Runs
        <4> QED
          BY <4>2, OnlyRunner
      <3> QED
        BY <3>1, <3>2
    <2> QED
      BY <2>1, <2>3, <2>4 DEF Undone
  <1> QED
    BY <1>3, <1>4

\* A thread that executes an event of an object, before and after a step.
LEMMA WorkingMoves ==
  ASSUME IInv, NEW t \in Threads, Step(t), NEW u \in Threads, NEW o \in Objects, Working(u, o)'
  PROVE  \/ Working(u, o) /\ event'[u] = event[u]
         \/ Extract(t) /\ u = t /\ o = target[t]
  <1>1. OthersStay(t) /\ target \in [Threads -> Objects \cup {NoObject}]
    BY OneMoves DEF IInv, Held, ThreadTypes
  <1>2. CASE u # t
    BY <1>1, <1>2 DEF OthersStay, Working
  <1>3. CASE u = t
    <2>1. pc'[t] \in {"copy", "process"}
      BY <1>3 DEF Working
    <2>2. CASE Extract(t)
      <3>1. pc'[t] = "copy" /\ target' = target
        BY <2>2 DEF Extract, Goto, IInv, Held, ThreadTypes
      <3> QED
        BY <1>3, <2>2, <3>1 DEF Working
    <2>3. CASE ReadFreed(t)
      <3>1. UNCHANGED <<pc, target, current, event>>
        BY <2>3 DEF ReadFreed, locals
      <3> QED
        BY <3>1 DEF Working
    <2>4. CASE Process(t) \/ SendFiltered(t) \/ SendLater(t) \/ SendNow(t)
      <3>1. pc'[t] = "process" /\ current'[t] = Dest(event[t][1]) /\ event'[t] = event[t]
            /\ pc[t] = IF Process(t) THEN "copy" ELSE "process"
        BY <2>1, <2>4, SendMoves
      <3>2. /\ pc[t] = "copy" => target[t] = Dest(event[t][1])
            /\ pc[t] = "process" => current[t] = Dest(event[t][1])
        BY <3>1, Executes
      <3> QED
        BY <1>3, <3>1, <3>2 DEF Working
    <2> QED
      BY <2>1, <2>2, <2>3, <2>4, IntoExecution
  <1> QED
    BY <1>2, <1>3

LEMMA EventStandsStep ==
  ASSUME IInv, Ownership, Order, EventStands, NEW t \in Threads, Step(t)
  PROVE  EventStands'
  <1>0. /\ \A e : Time(e)' = Time(e)
        /\ IInv'
    BY LimitsMove, StepPreserves
  <1> SUFFICES ASSUME NEW u \in Threads, NEW o \in Objects, Working(u, o)'
               PROVE  \/ event'[u][1] \in ToSet(retractable_queue'[o])
                      \/ /\ speculation'[o].standing_rollback
                         /\ speculation'[o].causality_violation_time <= model.time[event'[u][1].kind]
    BY LimitsMove DEF EventStands, Time
  <1> DEFINE r == speculation'[o]
             s == speculation[o]
  <1>1. CASE Extract(t) /\ u = t /\ o = target[t]
    <2>1. /\ event' = [event EXCEPT ![t] = <<Head(queue[o][current_index])>>]
          /\ retractable_queue' = [retractable_queue EXCEPT ![o] =
                                     Append(retractable_queue[o], Head(queue[o][current_index]))]
          /\ queue[o][current_index] # <<>>
      BY <1>1 DEF Extract, HasWork
    <2>2. /\ retractable_queue \in [Objects -> Seq(Events)] /\ retractable_queue[o] \in Seq(Events)
          /\ event \in [Threads -> Seq(Events)] /\ queue[o][current_index] \in Seq(Events)
      <3>1. current_index \in Slots
        BY ConstantsAssumption, ConstantTypes DEF IInv, CounterTypes, current_index, Slots
      <3> QED
        BY <3>1 DEF IInv, Held, Lists, QueueTypes, ThreadTypes
    <2>3. event'[u][1] = Head(queue[o][current_index]) /\ Head(queue[o][current_index]) \in Events
      BY <1>1, <2>1, <2>2
    <2>4. ToSet(Append(retractable_queue[o], Head(queue[o][current_index])))
            = ToSet(retractable_queue[o]) \cup {Head(queue[o][current_index])}
      BY <2>2, <2>3, AppendElements
    <2> QED
      BY <2>1, <2>2, <2>3, <2>4
  <1>2. CASE Working(u, o) /\ event'[u] = event[u] /\ ~(Extract(t) /\ u = t /\ o = target[t])
    <2> DEFINE e == event[u][1]
    <2>1. /\ \/ e \in ToSet(retractable_queue[o])
             \/ s.standing_rollback /\ s.causality_violation_time <= Time(e)
          /\ pc[u] \in Running /\ Runs(u, o) /\ e \in Events /\ Dest(e) = o /\ Time(e) \in Nat
      <3>1. pc[u] \in {"copy", "process"}
        BY <1>2 DEF Working
      <3> QED
        BY <1>2, <3>1, Executes DEF EventStands, Working, Running, Runs
    <2>2. pc[t] \in Running
      BY <2>1, OnePhase DEF AllIn
    <2>3. /\ s.causality_violation_time \in Nat /\ r.causality_violation_time \in Nat
      <3>1. s \in Statuses
        BY DEF IInv, Lists, ObjectTypes
      <3>2. r \in Statuses
        BY <1>0 DEF IInv, Lists, ObjectTypes
      <3> QED
        BY <3>1, <3>2 DEF Statuses
    <2>4. ~(Take(t) /\ o = target[t] /\ s.standing_rollback /\ ~r.standing_rollback)
      <3> SUFFICES ASSUME Take(t), o = target[t] PROVE FALSE
        OBVIOUS
      <3>1. pc[t] = "take"
        BY TakeStatus
      <3>2. u # t
        BY <1>2, <3>1 DEF Working
      <3>3. speculation[o].the_state = "BUSY" /\ speculation[o].owner = u
        BY <2>1 DEF IInv, RunnerOwns
      <3>4. Mine(t, o)
        BY TakeStatus
      <3> QED
        BY <3>2, <3>3, <3>4 DEF Mine
    <2>5. CASE s.standing_rollback /\ s.causality_violation_time <= Time(e)
      <3>1. ~Flush(t)
        BY <2>2 DEF Flush, Running
      <3>2. r.standing_rollback /\ r.causality_violation_time <= s.causality_violation_time
        BY <2>3, <2>4, <2>5, <3>1, RollbackMoves
      <3> QED
        BY <1>2, <2>1, <2>3, <2>5, <3>2 DEF Time
    <2>6. CASE e \in ToSet(retractable_queue[o])
      <3>1. ~(Reinsert(t) /\ o = target[t])
        <4> SUFFICES ASSUME Reinsert(t), o = target[t] PROVE FALSE
          OBVIOUS
        <4>1. pc[t] = "undo"
          BY DEF Reinsert
        <4>2. u # t /\ Undoing(t, o)
          BY <1>2, <4>1 DEF Working, Undoing
        <4> QED
          BY <2>1, <4>2, OnlyRunner
      <3>2. CASE Annihilate(t) /\ e = Last(log_queue[target[t]]).event
                 /\ o = Dest(Last(log_queue[target[t]]).event)
        <4>1. r.standing_rollback /\ r.causality_violation_time <= Time(e)
          BY <3>2, RollbackMoves DEF Annihilate, Take, SendNow, Extract, Flush
        <4> QED
          BY <1>2, <4>1 DEF Time
      <3> QED
        BY <1>2, <2>2, <2>6, <3>1, <3>2, RetractableStays
    <2> QED
      BY <2>1, <2>5, <2>6
  <1> QED
    BY <1>1, <1>2, WorkingMoves

\* When a rollback ends, what is left of the sends lies before the filter.
LEMMA LeftBehind ==
  ASSUME TimesApart, IInv, Ownership, Logs, Clocks, SentBy, Undone, NEW t \in Threads, Reinsert(t),
         NEW o \in Objects, o = target[t], NEW x \in SentIn(o)
  PROVE  x.send_time <= filter_message[o]
  <1> DEFINE r == rollback_time[t]
  <1>1. pc[t] = "undo" /\ ~MustUndo(t) /\ AllIn(Running)
    <2>1. pc[t] = "undo"
      BY DEF Reinsert
    <2> QED
      BY <2>1, OnePhase DEF Reinsert, Running
  <1>2. PICK p \in Kinds : x.send_time = model.time[p]
    BY <1>1 DEF SentBy, MadeBy
  <1>3. /\ filter_message[o] = r - Epsilon
        /\ \E l \in Kinds : r = model.time[l]
    BY <1>1 DEF Clocks, Clocked, FilterSet, Undoing
  <1>4. PICK l \in Kinds : r = model.time[l]
    BY <1>3
  <1>5. x.send_time < r
    <2>1. CASE x \in ToSet(speculation_queue[o])
      BY <1>1, <2>1 DEF Undone
    <2>2. CASE x \in ToSet(log_queue[o])
      <3>1. PICK i \in DOMAIN log_queue[o] : x = log_queue[o][i]
        BY <2>2, LogTypes, Elements
      <3>2. Len(log_queue[o]) \in DOMAIN log_queue[o] /\ i <= Len(log_queue[o]) /\ log_queue[o] # <<>>
        BY <3>1, LogTypes
      <3>3. Last(log_queue[o]).send_time = log_queue[o][Len(log_queue[o])].send_time
        BY DEF Last
      <3>4. x.send_time <= Last(log_queue[o]).send_time
        BY <3>1, <3>2, <3>3 DEF Logs, LogSorted
      <3>5. ~(Last(log_queue[o]).send_time >= r)
        BY <1>1, <3>2 DEF MustUndo
      <3>6. x.send_time \in Nat /\ Last(log_queue[o]).send_time \in Nat /\ r \in Nat
        BY <3>1, <3>2, <3>3, LogTypes DEF IInv, Held, ThreadTypes
      <3> QED
        BY <3>4, <3>5, <3>6
    <2> QED
      BY <2>1, <2>2 DEF SentIn
  <1>6. model.time[p] < model.time[l] => model.time[p] <= model.time[l] - Epsilon
    BY DEF IInv, Lists, TimesApart, ModelOK
  <1> QED
    BY <1>2, <1>3, <1>4, <1>5, <1>6

LEMMA StandsStep ==
  ASSUME TimesApart, IInv, Ownership, Order, Logs, Clocks, SendsNext, SentBy, Stands, EventStands,
         Undone, NEW t \in Threads, Step(t)
  PROVE  Stands'
  <1>1. AllIn(Running)' => AllIn(Running)
    BY RunningStays
  <1> SUFFICES ASSUME AllIn(Running)', NEW o \in Objects, ~RollingBack(o)', NEW x \in SentIn(o)'
               PROVE  Stood(o, x)'
    BY DEF Stands
  <1>2. AllIn(Running) /\ pc[t] \in Running
    BY <1>1 DEF AllIn
  <1>3. CASE RollingBack(o)
    <2>1. Reinsert(t) /\ o = target[t]
      BY <1>3, RollingMoves
    <2>2. x \in SentIn(o)
      BY <2>1 DEF Reinsert, SentIn
    <2>3. filter_message' = filter_message
      BY <2>1 DEF Reinsert, objects
    <2> QED
      BY <2>1, <2>2, <2>3, LeftBehind DEF Stood
  <1>4. CASE ~RollingBack(o)
    <2>1. x \in Sends
      <3>1. log_queue'[o] \in Seq(Sends) /\ speculation_queue'[o] \in Seq(Sends)
        <4>1. IInv'
          BY StepPreserves
        <4> QED
          BY <4>1 DEF IInv, Lists, QueueTypes
      <3>2. x \in ToSet(log_queue'[o]) \/ x \in ToSet(speculation_queue'[o])
        BY DEF SentIn
      <3> QED
        BY <3>1, <3>2, Elements
    <2>2. CASE x \in SentIn(o)
      BY <1>2, <1>4, <2>1, <2>2, StoodStays DEF Stands
    <2>3. CASE /\ SendNow(t) \/ SendLater(t)
               /\ o = current[t] /\ x.event.kind = NextSend(t) /\ x.send_time = Time(event[t][1])
      <3> DEFINE e == event[t][1]
      <3>1. /\ pc[t] = "process" /\ o = Dest(e) /\ e.kind \in Kinds
            /\ NextSend(t) \in ToSet(model.next[e.kind]) /\ Time(e) \in Nat
        BY <2>3, SendFacts
      <3>2. Working(t, o)
        BY <2>3, <3>1 DEF Working
      <3>3. x.send_time <= speculation[o].current_time
        BY <2>3, <3>1, <3>2 DEF Clocks, Clocked, AtTime
      <3>4. MadeBy(x, e.kind, o)
        BY <2>3, <3>1 DEF MadeBy, Dest, Time
      <3>5. Stood(o, x)
        BY <2>3, <3>2, <3>3, <3>4 DEF EventStands, Stood
      <3> QED
        BY <1>2, <1>4, <2>1, <3>5, StoodStays
    <2> QED
      BY <2>2, <2>3, SentMoves
  <1> QED
    BY <1>3, <1>4

\* What the thread has still to send when it executes its event.
Pending(t) == IF pc[t] = "copy" THEN model.next[event[t][1].kind] ELSE outbox[t]
Execution(t) == pc[t] \in {"copy", "process"}

\* An execution that is not filtered sends nothing that exists.
OutboxFree ==
    \A t \in Threads : Execution(t) =>
        /\ IsInjective(Pending(t))
        /\ filter_message[Dest(event[t][1])] < Time(event[t][1]) =>
              \A k \in ToSet(Pending(t)) : Unsent(k)

\* An event in the slot of the epoch that the filter lets through is of the
\* epoch: one that has been left behind is of an earlier turn of the slots.
LEMMA NotBefore ==
  ASSUME IInv, UpToDate, SlotsApart, NEW o \in Objects, NEW e, Time(e) \in Nat,
         SlotOf(e) = current_index, filter_message[o] < Time(e)
  PROVE  current_min_limit <= Time(e)
  <1> DEFINE n == Time(e)
             d == LOOKAHEAD
             q == n \div d
  <1>1. /\ n \in Nat /\ d \in Nat \ {0} /\ epochs \in Nat /\ Epsilon \in Nat /\ Epsilon <= d
        /\ NUM_SLOTS \in Nat \ {0} /\ NUM_SLOTS > 1
        /\ filter_message[o] \in Int /\ filter_message[o] >= current_min_limit - Epsilon
        /\ current_min_limit = epochs * d
    BY ConstantsAssumption
       DEF IInv, Lists, ObjectTypes, CounterTypes, UpToDate, SlotsApart, current_min_limit
  <1>2. q \in Nat /\ n % d \in 0..(d - 1) /\ n = d * q + (n % d)
    BY <1>1, Division
  <1>3. q % NUM_SLOTS = epochs % NUM_SLOTS
    BY DEF SlotOf, current_index
  <1>4. CASE epochs <= q
    <2> HIDE DEF n, d, q
    <2>1. d * epochs <= d * q /\ d * epochs \in Nat /\ d * q \in Nat
      BY <1>1, <1>2, <1>4, ProductMonotonic
    <2>2. d * epochs = epochs * d
      BY <1>1
    <2> QED
      BY <1>1, <1>2, <2>1, <2>2 DEF n
  <1>5. CASE q + 1 <= epochs
    <2> HIDE DEF n, d, q
    <2>1. ~(epochs < q + NUM_SLOTS)
      <3> SUFFICES ASSUME epochs < q + NUM_SLOTS PROVE FALSE
        OBVIOUS
      <3>1. epochs % NUM_SLOTS = q % NUM_SLOTS
        BY <1>3 DEF q, n, d
      <3>2. epochs <= q
        BY <1>1, <1>2, <3>1, SameRemainder
      <3> QED
        BY <1>1, <1>2, <1>5, <3>2
    <2>2. (q + 1) + 1 <= epochs
      BY <1>1, <1>2, <2>1
    <2>3. d * ((q + 1) + 1) <= d * epochs /\ d * epochs \in Nat
      BY <1>1, <1>2, <2>2, ProductMonotonic
    <2>4. d * ((q + 1) + 1) = d * (q + 1) + d /\ d * (q + 1) = d * q + d /\ d * q \in Nat
          /\ d * epochs = epochs * d
      BY <1>1, <1>2
    <2>5. n < (d * q) + d
      BY <1>1, <1>2, <2>4
    <2>6. n < current_min_limit - d
      BY <1>1, <2>3, <2>4, <2>5
    <2> QED
      BY <1>1, <2>6 DEF n
  <1> QED
    BY <1>1, <1>2, <1>4, <1>5

\* An event that an object has not yet executed, or has rolled back, has no
\* child of which the filter knows nothing.
LEMMA ExtractUnsent ==
  ASSUME IInv, Ownership, Once, SentBy, Caused, Stands, NEW t \in Threads, Extract(t),
         NEW o \in Objects, o = target[t], NEW e, e = Head(queue[o][current_index]),
         e \in Events, current_min_limit <= Time(e), filter_message[o] < Time(e), Dest(e) = o,
         NEW k \in ToSet(model.next[e.kind])
  PROVE  Unsent(k)
  <1> SUFFICES ASSUME NEW f \in Allocated, f.kind = k PROVE FALSE
    BY DEF Unsent
  <1>1. /\ pc[t] = "extract" /\ AllIn(Running) /\ Runs(t, o) /\ ~speculation[o].standing_rollback
        /\ queue[o][current_index] # <<>> /\ current_index \in Slots
    <2>1. pc[t] = "extract"
      BY DEF Extract
    <2>2. AllIn(Running)
      BY <2>1, OnePhase DEF Running
    <2>3. current_index \in Slots
      BY ConstantsAssumption, ConstantTypes DEF IInv, CounterTypes, current_index, Slots
    <2> QED
      BY <2>1, <2>2, <2>3 DEF Extract, HasWork, Runs
  <1>2. ~RollingBack(o)
    BY <1>1, NotRollingBack
  <1>3. e.kind \in Kinds /\ model.dest[e.kind] = o /\ Time(e) = model.time[e.kind] /\ Time(e) \in Nat
    <2>1. e.kind \in Kinds
      BY DEF Events
    <2> QED
      BY <2>1, ModelFacts DEF Dest, Time, IInv, Lists
  <1>4. PICK x \in SentIn(o) : x.event = f
    BY <1>1, <1>3 DEF Caused, Known
  <1>5. PICK p \in Kinds : MadeBy(x, p, o)
    BY <1>1, <1>4 DEF SentBy
  <1>6. p = e.kind
    BY <1>3, <1>4, <1>5, ModelFacts DEF MadeBy, IInv, Lists
  <1>7. x.send_time = Time(e)
    BY <1>3, <1>5, <1>6 DEF MadeBy
  <1>8. Stood(o, x) /\ filter_message[o] \in Int
    BY <1>1, <1>2 DEF Stands, IInv, Lists, ObjectTypes
  <1>9. PICK g \in ToSet(retractable_queue[o]) : MadeBy(x, g.kind, o)
    BY <1>1, <1>3, <1>7, <1>8 DEF Stood
  <1>10. g.kind = e.kind
    <2>1. g.kind \in Kinds
      BY WindowTypes, <1>9 DEF Events
    <2> QED
      BY <2>1, <1>3, <1>4, <1>9, ModelFacts DEF MadeBy, IInv, Lists
  <1>11. e \in ToSet(queue[o][current_index])
    BY <1>1, WindowTypes, EndsElements
  <1> QED
    BY <1>1, <1>9, <1>10, <1>11, OnceLists

\* The filter of an object whose event is being executed.
LEMMA FilterStays ==
  ASSUME IInv, Ownership, NEW t \in Threads, Step(t), NEW u \in Threads, NEW o \in Objects, Working(u, o)
  PROVE  filter_message'[o] = filter_message[o]
  <1>1. pc[u] \in Running /\ Runs(u, o)
    BY DEF Working, Running, Runs
  <1>2. pc[t] \in Running
    BY <1>1, OnePhase DEF AllIn
  <1>3. ~Flush(t)
    BY <1>2 DEF Flush, Running
  <1>4. ~(Take(t) /\ o = target[t])
    <2> SUFFICES ASSUME Take(t), o = target[t] PROVE FALSE
      OBVIOUS
    <2>1. pc[t] = "take" /\ Mine(t, o)
      BY TakeStatus
    <2>2. u # t
      BY <2>1 DEF Working
    <2>3. speculation[o].the_state = "BUSY" /\ speculation[o].owner = u
      BY <1>1 DEF IInv, RunnerOwns
    <2> QED
      BY <2>1, <2>2, <2>3 DEF Mine
  <1> QED
    BY <1>3, <1>4, RollbackMoves

LEMMA PendingTypes ==
  ASSUME IInv, SendsNext, NEW u \in Threads, Execution(u)
  PROVE  Pending(u) \in Seq(Kinds) /\ ToSet(Pending(u)) \subseteq ToSet(model.next[event[u][1].kind])
  BY Executes DEF Execution, Pending, SendsNext, IInv, Held, ThreadTypes

\* What is still to be sent, after a step, was to be sent before, and is not
\* what is sent now.
LEMMA PendingMoves ==
  ASSUME IInv, OutboxFree, NEW t \in Threads, Step(t), NEW u \in Threads, Execution(u), Execution(u)',
         event'[u] = event[u], ~(Extract(t) /\ u = t)
  PROVE  /\ ToSet(Pending(u)') \subseteq ToSet(Pending(u)) /\ IsInjective(Pending(u)')
         /\ u = t /\ (SendNow(t) \/ SendLater(t)) => NextSend(t) \notin ToSet(Pending(u)')
  <1>1. IsInjective(Pending(u)) /\ model' = model
    BY LimitsMove DEF OutboxFree
  <1>2. CASE u # t
    BY <1>1, <1>2, OneMoves DEF OthersStay, Pending
  <1>3. CASE u = t
    <2>1. CASE ReadFreed(t) /\ UNCHANGED <<pc, target, current, event, outbox>>
      BY <1>1, <1>3, <2>1 DEF Pending, ReadFreed, SendNow, SendLater
    <2>2. CASE Process(t)
      <3>1. /\ pc[t] = "copy" /\ pc'[t] = "process"
            /\ outbox'[t] = model.next[event[t][1].kind]
        BY <1>3, <2>2, SendMoves DEF Process, Continue, IInv, ThreadTypes, Execution
      <3> QED
        BY <1>1, <1>3, <3>1 DEF Pending, SendNow, SendLater
    <2>3. CASE SendFiltered(t) \/ SendLater(t) \/ SendNow(t)
      <3>1. pc[t] = "process" /\ outbox'[t] = Tail(outbox[t]) /\ pc'[t] \in {"copy", "process"}
        BY <1>3, <2>3 DEF SendFiltered, SendLater, SendNow, Continue, IInv, ThreadTypes, Execution
      <3>2. pc'[t] = "process"
        BY <2>3, <3>1, SendMoves
      <3>3. outbox[t] \in Seq(Kinds) /\ outbox[t] # <<>>
        BY <3>1 DEF IInv, Held, Holds, ThreadTypes
      <3>4. Pending(u) = outbox[t] /\ Pending(u)' = Tail(outbox[t])
        BY <1>3, <3>1, <3>2 DEF Pending
      <3> QED
        BY <1>1, <3>3, <3>4, TailInjective DEF NextSend
    <2> QED
      BY <1>3, <2>1, <2>2, <2>3, IntoExecution DEF Execution
  <1> QED
    BY <1>2, <1>3

LEMMA OutboxFreeStep ==
  ASSUME SlotsApart, IInv, Ownership, Order, Once, SendsNext, SentBy, Caused, UpToDate, Stands,
         OutboxFree, NEW t \in Threads, Step(t)
  PROVE  OutboxFree'
  <1>1. IInv' /\ model' = model /\ \A e : Time(e)' = Time(e) /\ Dest(e)' = Dest(e)
    BY StepPreserves, LimitsMove
  <1> SUFFICES ASSUME NEW u \in Threads, Execution(u)'
               PROVE  /\ IsInjective(Pending(u)')
                      /\ filter_message'[Dest(event'[u][1])] < Time(event'[u][1]) =>
                            \A k \in ToSet(Pending(u)') : Unsent(k)'
    BY <1>1 DEF OutboxFree
  <1> DEFINE e == event'[u][1]
  <1>2. /\ e \in Events /\ e.kind \in Kinds /\ Dest(e) \in Objects /\ Time(e) \in Nat
        /\ Time(e) = model.time[e.kind] /\ Dest(e) = model.dest[e.kind]
    <2>1. e \in Events
      BY TypesAfter DEF Execution
    <2> QED
      BY <2>1, EventTypes DEF IInv, Lists, Events, Time, Dest
  <1>3. PICK o \in Objects : o = Dest(e) /\ Working(u, o)'
    <2>1. PICK o \in Objects : o = Dest(e)
      BY <1>2
    <2>2. pc'[u] = "copy" => target'[u] = model'.dest[event'[u][1].kind]
      BY <1>1 DEF IInv, Held, Holds, Dest
    <2>3. pc'[u] = "process" => current'[u] = model'.dest[event'[u][1].kind]
      BY <1>1 DEF IInv, Held, Holds, Dest
    <2> QED
      BY <1>1, <1>2, <2>1, <2>2, <2>3 DEF Working, Execution
  <1>5. CASE Extract(t) /\ u = t /\ o = target[t]
    <2>1. /\ event' = [event EXCEPT ![t] = <<Head(queue[o][current_index])>>] /\ pc'[t] = "copy"
          /\ filter_message' = filter_message
      BY <1>5 DEF Extract, Goto, IInv, Held, ThreadTypes
    <2>2. e = Head(queue[o][current_index])
      BY <1>5, <2>1 DEF IInv, Held, ThreadTypes
    <2>3. Pending(u)' = model.next[e.kind]
      BY <1>1, <1>5, <2>1 DEF Pending
    <2>4. IsInjective(Pending(u)')
      BY <1>2, <2>3, ModelFacts DEF IInv, Lists
    <2> SUFFICES ASSUME filter_message[o] < Time(e), NEW k \in ToSet(model.next[e.kind]) PROVE Unsent(k)'
      BY <1>3, <2>1, <2>3, <2>4
    <2>5. current_min_limit <= Time(e)
      <3>1. queue[o][current_index] # <<>> /\ current_index \in Slots
        BY <1>5, ConstantsAssumption, ConstantTypes
           DEF Extract, HasWork, IInv, CounterTypes, current_index, Slots
      <3>2. e \in ToSet(queue[o][current_index])
        BY <2>2, <3>1, WindowTypes, EndsElements
      <3>3. SlotOf(e) = current_index
        BY <3>1, <3>2 DEF Order, InOrder, InputInOrder
      <3> QED
        BY <1>2, <3>3, NotBefore
    <2>6. Unsent(k)
      BY <1>2, <1>3, <1>5, <2>2, <2>5, ExtractUnsent
    <2>7. ~InitSend(t) /\ ~SendNow(t) /\ ~SendLater(t)
      BY <1>5 DEF Extract, InitSend, SendNow, SendLater
    <2> QED
      BY <2>6, <2>7, AllocatedMoves DEF Unsent
  <1>6. CASE Working(u, o) /\ event'[u] = event[u] /\ ~(Extract(t) /\ u = t)
    <2>1. Execution(u) /\ AllIn(Running) /\ Runs(u, o)
      <3>1. pc[u] \in {"copy", "process"}
        BY <1>6 DEF Working
      <3> QED
        BY <1>6, <3>1, OnePhase DEF Execution, Running, Working, Runs
    <2>2. /\ ToSet(Pending(u)') \subseteq ToSet(Pending(u)) /\ IsInjective(Pending(u)')
          /\ u = t /\ (SendNow(t) \/ SendLater(t)) => NextSend(t) \notin ToSet(Pending(u)')
      BY <1>6, <2>1, PendingMoves
    <2> SUFFICES ASSUME filter_message'[o] < Time(e), NEW k \in ToSet(Pending(u)'),
                        NEW f \in Allocated', f.kind = k
                 PROVE  FALSE
      BY <1>3, <2>2 DEF Unsent
    <2>3. filter_message[o] < Time(e)
      BY <1>6, FilterStays
    <2>4. Unsent(k)
      BY <1>3, <1>6, <2>1, <2>2, <2>3 DEF OutboxFree
    <2>5. ~InitSend(t)
      <3>1. pc[t] \in Running
        BY <2>1 DEF AllIn
      <3> QED
        BY <3>1 DEF InitSend, Running
    <2>6. (SendNow(t) \/ SendLater(t)) /\ k = NextSend(t)
      BY <2>4, <2>5, AllocatedMoves DEF Unsent
    <2>7. u # t
      BY <2>2, <2>6
    <2>8. /\ k \in ToSet(model.next[event[t][1].kind]) /\ event[t][1].kind \in Kinds
          /\ Working(t, Dest(event[t][1]))
      BY <2>6, SendFacts DEF Working
    <2>9. k \in ToSet(model.next[e.kind])
      BY <1>6, <2>1, <2>2, PendingTypes
    <2>10. e.kind = event[t][1].kind
      BY <1>2, <2>8, <2>9, ModelFacts DEF IInv, Lists
    <2>11. Dest(event[t][1]) = o
      BY <1>3, <2>10 DEF Dest
    <2> QED
      BY <2>1, <2>7, <2>8, <2>11, OnlyRunner
  <1>7. Working(u, o) => ~(Extract(t) /\ u = t)
    BY DEF Working, Extract
  <1> QED
    BY <1>3, <1>5, <1>6, <1>7, WorkingMoves

\* What a thread sends does not exist yet.
LEMMA NextUnsent ==
  ASSUME IInv, SendsNext, OutboxFree, NEW t \in Threads, SendNow(t) \/ SendLater(t)
  PROVE  Unsent(NextSend(t))
  <1>1. /\ pc[t] = "process" /\ current[t] = Dest(event[t][1])
        /\ filter_message[current[t]] < Time(event[t][1])
        /\ outbox[t] \in Seq(Kinds) /\ outbox[t] # <<>>
    BY SendFacts
  <1>2. NextSend(t) \in ToSet(Pending(t))
    BY <1>1, EndsElements DEF Pending, NextSend
  <1> QED
    BY <1>1, <1>2 DEF OutboxFree, Execution

\* Nothing is sent twice because nothing exists that is still to be sent; and
\* that is so because what exists was sent by an event that either can be undone
\* or lies before the filter.
Sending ==
    /\ Once /\ Startup /\ SendsNext /\ Caused /\ SentBy /\ UpToDate
    /\ Stands /\ EventStands /\ WithheldSorted /\ Undone /\ OutboxFree

LEMMA SendingStep ==
  ASSUME TimesApart, SlotsApart, IInv, Ownership, Cleanup, Order, Window, Logs, Clocks,
         Sending, NEW t \in Threads, Step(t)
  PROVE  Sending'
  <1>1. Once'
    <2>1. InitSend(t) => Unsent(Head(outbox[t]))
      <3> SUFFICES ASSUME InitSend(t) PROVE Unsent(Head(outbox[t]))
        OBVIOUS
      <3>1. pc[t] = "init" /\ outbox[t] # <<>> /\ outbox[t] \in Seq(Kinds)
        BY DEF InitSend, IInv, ThreadTypes
      <3>2. AllIn(Starting) /\ Head(outbox[t]) \in ToSet(outbox[t])
        BY <3>1, OnePhase, EndsElements DEF Starting
      <3> QED
        BY <3>2 DEF Sending, Startup
    <2>2. SendNow(t) \/ SendLater(t) => Unsent(NextSend(t))
      BY NextUnsent DEF Sending
    <2> QED
      BY <2>1, <2>2, OnceStep DEF Sending
  <1>2. Startup' /\ SendsNext' /\ Caused'
    BY StartupStep, SendsNextStep, CausedStep DEF Sending
  <1>3. SentBy' /\ UpToDate'
    BY SentByStep, UpToDateStep DEF Sending
  <1>4. Stands' /\ EventStands'
    BY StandsStep, EventStandsStep DEF Sending
  <1>5. WithheldSorted' /\ Undone'
    BY WithheldSortedStep, UndoneStep DEF Sending
  <1>6. OutboxFree'
    BY OutboxFreeStep DEF Sending
  <1> QED
    BY <1>1, <1>2, <1>3, <1>4, <1>5, <1>6 DEF Sending

LEMMA SendingBarriers ==
  ASSUME IInv, Ownership, Cleanup, Window, Sending, Barriers
  PROVE  Sending'
  <1>1. UNCHANGED <<model, queue, fallback_queue, retractable_queue, log_queue, speculation_queue>>
    BY DEF Barriers, queues
  <1>2. \A u \in Threads : pc'[u] \in {"idle", "retract", "update", "updated", "fallback", "dispense"}
    BY DEF Barriers, Barrier
  <1>3. Once'
    BY <1>1, OnceKept DEF Sending
  <1>4. Startup'
    <2>1. Threads # {}
      BY ConstantsAssumption, ConstantTypes
    <2>2. ~AllIn(Starting)'
      BY <1>2, <2>1 DEF AllIn, Starting
    <2> QED
      BY <2>2 DEF Startup
  <1>5. Caused' /\ SentBy' /\ UpToDate'
    BY CausedBarriers, SentByBarriers, UpToDateBarriers DEF Sending, Window
  <1>6. Stands'
    <2> SUFFICES ASSUME AllIn(Running)' PROVE \A o \in Objects : SentIn(o)' = {}
      BY DEF Stands
    <2>1. AllIn(Starting) \/ AllIn(Crossing)
      BY IntoEpoch DEF AllIn, Starting, Crossing
    <2> QED
      BY <1>1, <2>1, NothingSent DEF SentIn, Window
  <1>7. WithheldSorted'
    BY <1>1 DEF Sending, WithheldSorted
  <1>8. SendsNext' /\ EventStands' /\ Undone' /\ OutboxFree'
    BY <1>2 DEF SendsNext, EventStands, Undone, OutboxFree, Working, Execution
  <1> QED
    BY <1>3, <1>4, <1>5, <1>6, <1>7, <1>8 DEF Sending

LEMMA SendingUnchanged ==
  ASSUME Sending, UNCHANGED vars
  PROVE  Sending'
  <1>1. /\ UNCHANGED <<model, queue, fallback_queue, retractable_queue, log_queue, speculation_queue>>
        /\ UNCHANGED <<speculation, filter_message, epochs, shadow_object_identifiers, inited>>
        /\ UNCHANGED <<pc, target, current, event, outbox, rollback_time>>
    BY DEF vars, queues, objects, dispensers, locals
  <1>2. /\ current_min_limit' = current_min_limit /\ EpochLimit' = EpochLimit
        /\ \A e : Time(e)' = Time(e) /\ Dest(e)' = Dest(e)
        /\ Allocated' = Allocated /\ \A o \in Objects : SentIn(o)' = SentIn(o)
    BY <1>1, SameTimes, SameAllocated DEF current_min_limit, EpochLimit, SentIn
  <1>3. Once'
    BY <1>1, OnceKept DEF Sending
  <1>4. Startup' /\ SendsNext'
    BY <1>1, <1>2 DEF Sending, Startup, SendsNext, Unsent, AllIn
  <1>5. Caused'
    <2> SUFFICES ASSUME NEW p \in Kinds, NEW e \in Allocated, e.kind \in ToSet(model.next[p])
                 PROVE  Known(p, e)'
      BY <1>1, <1>2 DEF Caused
    <2>1. Known(p, e)
      BY DEF Sending, Caused
    <2>2. (\E x \in SentIn(model.dest[p]) : x.event = e)
            => (\E x \in SentIn(model.dest[p]) : x.event = e)'
      BY <1>1 DEF SentIn
    <2> QED
      BY <1>1, <1>2, <2>1, <2>2 DEF Known, AllIn
  <1>6. SentBy'
    BY <1>1, <1>2 DEF Sending, SentBy, MadeBy, AllIn
  <1>7. UpToDate'
    BY <1>1, <1>2 DEF Sending, UpToDate, AllIn
  <1>8. Stands'
    <2> SUFFICES ASSUME AllIn(Running), NEW o \in Objects, ~RollingBack(o), NEW x \in SentIn(o)
                 PROVE  Stood(o, x)'
      BY <1>1, <1>2 DEF Stands, AllIn, RollingBack
    <2>1. Stood(o, x)
      BY DEF Sending, Stands
    <2> QED
      BY <1>1, <2>1 DEF Stood, MadeBy
  <1>9. EventStands'
    BY <1>1, <1>2 DEF Sending, EventStands, Working
  <1>10. WithheldSorted' /\ Undone'
    BY <1>1 DEF Sending, WithheldSorted, Undone
  <1>11. OutboxFree'
    BY <1>1, <1>2 DEF Sending, OutboxFree, Execution, Pending, Unsent, Dest, Time
  <1> QED
    BY <1>3, <1>4, <1>5, <1>6, <1>7, <1>8, <1>9, <1>10, <1>11 DEF Sending

LEMMA SendingAtFirst == Init => Sending
  <1> SUFFICES ASSUME Init PROVE Sending
    OBVIOUS
  <1>0. Threads # {} /\ \A t \in Threads : pc[t] = "init"
    BY ConstantsAssumption, ConstantTypes DEF Init
  <1>1. IInv
    BY InitEstablishes
  <1>2. /\ \A o \in Objects : /\ \A s \in Slots : queue[o][s] = <<>>
                              /\ retractable_queue[o] = <<>> /\ speculation_queue[o] = <<>>
                              /\ log_queue[o] = <<>> /\ ~speculation[o].standing_rollback
                              /\ filter_message[o] = 0 - Epsilon
        /\ \A t \in Threads : fallback_queue[t] = <<>> /\ outbox[t] = <<>>
        /\ epochs = 0 /\ shadow_object_identifiers = 0
    BY DEF Init
  <1>3. Allocated = {} /\ DOMAIN <<>> = {}
    <2>1. \A e : e \notin Allocated
      BY <1>1, <1>2, AllocatedAt, EmptyElements
    <2> QED
      BY <2>1
  <1>4. Once
    <2>1. EventsIn(<<>>) = <<>>
      BY <1>3 DEF EventsIn
    <2>2. \A c \in Places : Contents[c] = <<>>
      <3> SUFFICES ASSUME NEW c \in Places PROVE Contents[c] = <<>>
        OBVIOUS
      <3>1. CASE \E o \in Objects, s \in Slots : c = <<"slot", o, s>>
        BY <1>2, <3>1, ContentsNow
      <3>2. CASE \E t \in Threads : c = <<"fallback", t, 0>>
        BY <1>2, <3>2, ContentsNow
      <3>3. CASE \E o \in Objects : c = <<"retractable", o, 0>>
        BY <1>2, <3>3, ContentsNow
      <3>4. CASE \E o \in Objects : c = <<"withheld", o, 0>>
        BY <1>2, <2>1, <3>4, ContentsNow
      <3> QED
        BY <3>1, <3>2, <3>3, <3>4, PlaceIs
    <2> QED
      BY <2>2, DistinctEmpty, EmptyElements DEF Once, Unique
  <1>5. Startup /\ Caused
    BY <1>2, <1>3, EmptyElements DEF Startup, Caused, Unsent, IsInjective
  <1>6. SentBy /\ Stands
    BY <1>2, EmptyElements DEF SentBy, Stands, SentIn
  <1>7. UpToDate
    <2>1. current_min_limit = 0 /\ Epsilon \in Nat /\ LOOKAHEAD \in Nat /\ \A o \in Objects : o \in Nat
      BY <1>2, ConstantsAssumption, ConstantTypes DEF current_min_limit, Objects
    <2> QED
      BY <1>2, <1>3, <2>1 DEF UpToDate
  <1>8. SendsNext /\ EventStands /\ Undone /\ OutboxFree
    BY <1>0 DEF SendsNext, EventStands, Undone, OutboxFree, Working, Execution
  <1>9. WithheldSorted
    BY <1>2, <1>3 DEF WithheldSorted, InSendOrder
  <1> QED
    BY <1>4, <1>5, <1>6, <1>7, <1>8, <1>9 DEF Sending

\* No event exists twice: what a rollback repeats, it has undone, and what it
\* has not undone it does not repeat, whatever the threads do meanwhile. An event
\* that exists was sent by one that its object has executed and can still undo,
\* or that lies before the filter (queue.c:441); an event that is executed again
\* is neither. The times of the events have to be epsilon apart, as for the logs,
\* and the constants to be as in run.h and queue.h: with one slot, or an epsilon
\* longer than an epoch, an event that a lost rollback has left behind could be
\* executed right after its epoch, and the filter, which then lies epsilon before
\* the limit, could let its sends pass a second time.
THEOREM SendsAreMadeOnce ==
  ASSUME TimesApart, SlotsApart
  PROVE  Spec => []NothingSentTwice
  <1> DEFINE TheRest == IInv /\ Ownership /\ Cleanup /\ Order /\ Window /\ Logs /\ Clocks
  <1>1. TheRest /\ Sending /\ [Next]_vars => Sending'
    BY SendingStep, SendingBarriers, SendingUnchanged DEF Next
  <1>2. IInv /\ Sending => NothingSentTwice
    BY OnceAllocated DEF Sending, NothingSentTwice
  <1>3. IInv /\ Ownership /\ Cleanup /\ Order /\ Logs /\ Clocks /\ [Next]_vars => Logs' /\ Clocks'
    BY LogBarriers, LogStep, LogUnchanged DEF Next
  <1> QED
    BY <1>1, <1>2, <1>3, LogAtFirst, SendingAtFirst, AlwaysWindow, PTL DEF Spec
=============================================================================
