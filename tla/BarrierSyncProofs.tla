-------------------------- MODULE BarrierSyncProofs --------------------------
(***************************************************************************)
(* For every finite set of threads: the counters of the spin barrier agree *)
(* with the positions of the threads, and the barrier implements the       *)
(* rendezvous its callers rely on.                                         *)
(***************************************************************************)
EXTENDS BarrierSync, FiniteSetTheorems, TLAPS

\* THREADS is a positive number.
LEMMA ThreadsPositive == THREADS \in Nat /\ THREADS > 0
  BY ThreadsAssumption, FS_CardinalityType, FS_EmptySet DEF THREADS

\* A set of threads counts at most THREADS members, and THREADS only when it
\* is the whole set.
LEMMA CountOfThreads ==
  ASSUME NEW S \in SUBSET Threads
  PROVE  /\ Cardinality(S) \in 0..THREADS
         /\ Cardinality(S) = THREADS <=> S = Threads
         /\ Cardinality(S) = 0 <=> S = {}
  <1>1. /\ IsFiniteSet(S)
        /\ Cardinality(S) <= Cardinality(Threads)
        /\ Cardinality(Threads) = Cardinality(S) => Threads = S
    BY ThreadsAssumption, FS_Subset
  <1>2. Cardinality(S) \in Nat /\ (Cardinality(S) = 0 <=> S = {})
    BY <1>1, FS_CardinalityType, FS_EmptySet
  <1> QED
    BY <1>1, <1>2, ThreadsPositive DEF THREADS

\* One more, or one fewer, thread at a label changes the count by one.
LEMMA CountOfOneMore ==
  ASSUME NEW S \in SUBSET Threads, NEW t \in Threads
  PROVE  /\ t \notin S => Cardinality(S \cup {t}) = Cardinality(S) + 1
         /\ t \in S => Cardinality(S \ {t}) = Cardinality(S) - 1
  <1>1. IsFiniteSet(S)
    BY ThreadsAssumption, FS_Subset
  <1> QED
    BY <1>1, FS_AddElement, FS_RemoveElement

\* A thread that moves leaves one label and joins another.
LEMMA Moves ==
  ASSUME TypeOK, NEW t \in Threads, NEW to \in Labels, Goto(t, to)
  PROVE  \A l \in Labels :
            At(l)' = IF l = to THEN At(l) \cup {t} ELSE At(l) \ {t}
  BY DEF TypeOK, Goto, At

\* The invariant that is preserved by every step: the ranges of the counters
\* follow only from their agreement with the positions of the threads.
IInv == TypeOK /\ CountersAgree

LEMMA InitEstablishes == Init => IInv
  <1> SUFFICES ASSUME Init PROVE IInv
    OBVIOUS
  <1>1. TypeOK
    BY ThreadsPositive DEF Init, TypeOK, Labels
  <1>2. At("reset") = {} /\ At("arrive") = {} /\ At("cas") = {} /\ Waiting = {} /\ Leaving = {}
    BY DEF Init, At, Waiting, Leaving
  <1>3. Cardinality(Waiting \cup Leaving) = 0
    BY <1>2, FS_EmptySet
  <1> QED
    BY <1>1, <1>2, <1>3, ThreadsPositive DEF Init, IInv, CountersAgree, Closed

\* One lemma per statement of barrier(). In each, the label sets of the next
\* state come from Moves, and the counts from the counting lemmas.
LEMMA CallPreserves ==
  ASSUME IInv, NEW t \in Threads, Call(t)
  PROVE  IInv'
  <1>1. TypeOK'
    BY DEF IInv, TypeOK, Call, Goto, Labels
  <1>2. \A l \in Labels : At(l)' = IF l = "era_read" THEN At(l) \cup {t} ELSE At(l) \ {t}
    BY Moves DEF IInv, Call, Labels
  <1>3. \A l \in {"reset", "arrive", "cas", "wait", "leave"} : At(l)' = At(l)
    BY <1>2 DEF Call, At, Labels
  <1> QED
    BY <1>1, <1>3 DEF IInv, CountersAgree, Closed, Open, Waiting, Leaving, Call

LEMMA ReadEraPreserves ==
  ASSUME IInv, NEW t \in Threads, ReadEra(t)
  PROVE  IInv'
  <1>1. TypeOK'
    BY DEF IInv, TypeOK, ReadEra, Goto, Labels
  <1>2. \A l \in {"reset", "arrive", "wait", "leave"} : At(l)' = At(l)
    BY Moves DEF IInv, ReadEra, At, Labels
  <1>3. era_counter # THREADS => At("cas")' = At("cas")
    BY Moves DEF IInv, ReadEra, At, Labels
  <1>4. CASE Closed
    <2>1. (At("cas") # {} => Waiting \cup Leaving = {})'
      <3>1. Waiting \cup Leaving \in SUBSET Threads
        BY DEF Waiting, Leaving, At
      <3>2. CASE era_counter = THREADS
        BY <1>2, <1>4, <3>1, <3>2, CountOfThreads, ThreadsPositive DEF Closed, Waiting, Leaving
      <3>3. CASE era_counter # THREADS
        BY <1>2, <1>3, <1>4, <3>3 DEF Closed, Waiting, Leaving
      <3> QED
        BY <3>2, <3>3
    <2> QED
      BY <1>1, <1>2, <1>4, <2>1 DEF IInv, CountersAgree, Closed, Waiting, Leaving, ReadEra
  <1>5. CASE Open
    BY <1>1, <1>2, <1>5 DEF IInv, CountersAgree, Open, Waiting, Leaving, ReadEra
  <1> QED
    BY <1>4, <1>5 DEF IInv, CountersAgree

LEMMA ReadControlPreserves ==
  ASSUME IInv, NEW t \in Threads, ReadControl(t)
  PROVE  IInv'
  <1>1. TypeOK'
    BY DEF IInv, TypeOK, ReadControl, Goto, Labels
  <1>2. \A l \in {"reset", "arrive", "wait", "leave"} : At(l)' = At(l)
    BY Moves DEF IInv, ReadControl, At, Labels
  <1>3. control_counter = THREADS => At("cas")' = At("cas")
    BY Moves DEF IInv, ReadControl, At, Labels
  <1> QED
    BY <1>1, <1>2, <1>3 DEF IInv, CountersAgree, Closed, Open, Waiting, Leaving, ReadControl

LEMMA CompareAndSwapPreserves ==
  ASSUME IInv, NEW t \in Threads, CompareAndSwap(t)
  PROVE  IInv'
  <1>1. TypeOK'
    BY ThreadsPositive DEF IInv, TypeOK, CompareAndSwap, Goto, Labels
  <1>2. t \in At("cas")
    BY DEF CompareAndSwap, At
  <1>3. Waiting' = Waiting /\ Leaving' = Leaving
    BY Moves DEF IInv, CompareAndSwap, At, Labels, Waiting, Leaving
  <1>4. CASE control_counter = THREADS
    <2>1. At("reset")' = At("reset") \cup {t} /\ At("arrive")' = At("arrive") \ {t}
      BY <1>4, Moves DEF IInv, CompareAndSwap, Labels
    <2>2. Closed
      BY <1>4, CountOfThreads DEF IInv, CountersAgree, Open, Waiting, At
    <2>3. Waiting = {} /\ Leaving = {} /\ era_counter = THREADS
      BY <1>2, <2>2, ThreadsPositive, FS_EmptySet DEF Closed
    <2>4. /\ At("reset") = {} /\ At("arrive") = {}
          /\ At("reset")' = {t} /\ At("arrive")' = {}
      BY <2>1, <2>2 DEF Closed
    <2>5. Waiting' = {} /\ Leaving' = {}
      BY <1>3, <2>3
    <2>6. control_counter' = 0 /\ era_counter' = THREADS /\ ret'[t] = TRUE
      BY <1>4, <2>3, ThreadsPositive DEF CompareAndSwap, IInv, TypeOK
    <2>7. Cardinality(Waiting') = 0 /\ Waiting' # Threads
      BY <2>5, FS_EmptySet
    <2>8. Open'
      BY <2>4, <2>5, <2>6, <2>7 DEF Open
    <2> QED
      BY <1>1, <2>8 DEF IInv, CountersAgree
  <1>5. CASE control_counter # THREADS
    <2>1. At("reset")' = At("reset") /\ At("arrive")' = At("arrive") \cup {t}
      BY <1>5, Moves DEF IInv, CompareAndSwap, Labels, At
    <2>2. Open
      BY <1>5 DEF IInv, CountersAgree, Closed
    <2>3. t \notin At("reset") \cup At("arrive") \cup Waiting
      BY <1>2 DEF At, Waiting
    <2>4. PICK w \in At("reset") \cup At("arrive") \cup Waiting :
             ret[w] /\ \A u \in At("reset") \cup At("arrive") \cup Waiting : ret[u] => u = w
      BY <2>2 DEF Open
    <2>5. w # t /\ ret'[w] /\ \A u \in At("reset") \cup At("arrive") \cup Waiting \cup {t} : ret'[u] => u = w
      BY <1>5, <2>3, <2>4 DEF CompareAndSwap, IInv, TypeOK, At, Waiting
    <2>6. Open'
      BY <1>3, <1>5, <2>1, <2>2, <2>3, <2>4, <2>5 DEF Open, CompareAndSwap, At, IInv, TypeOK
    <2> QED
      BY <1>1, <2>6 DEF IInv, CountersAgree
  <1> QED
    BY <1>4, <1>5

LEMMA ResetEraPreserves ==
  ASSUME IInv, NEW t \in Threads, ResetEra(t)
  PROVE  IInv'
  <1>1. TypeOK'
    BY ThreadsPositive DEF IInv, TypeOK, ResetEra, Goto, Labels
  <1>2. t \in At("reset")
    BY DEF ResetEra, At
  <1>3. /\ Waiting' = Waiting /\ Leaving' = Leaving
        /\ At("reset")' = At("reset") \ {t} /\ At("arrive")' = At("arrive") \cup {t}
    BY Moves DEF IInv, ResetEra, At, Labels, Waiting, Leaving
  <1>4. Open
    BY <1>2 DEF IInv, CountersAgree, Closed
  <1>5. At("reset") = {t}
    BY <1>2, <1>4 DEF Open
  <1>6. Open'
    BY <1>3, <1>4, <1>5 DEF Open, ResetEra
  <1> QED
    BY <1>1, <1>6 DEF IInv, CountersAgree

LEMMA ArrivePreserves ==
  ASSUME IInv, NEW t \in Threads, Arrive(t)
  PROVE  IInv'
  <1>1. t \in At("arrive") /\ t \notin Waiting
    BY DEF Arrive, At, Waiting
  <1>2. /\ Waiting' = Waiting \cup {t} /\ Leaving' = Leaving
        /\ At("reset")' = At("reset") /\ At("arrive")' = At("arrive") \ {t}
        /\ At("cas")' = At("cas")
    BY Moves DEF IInv, Arrive, At, Labels, Waiting, Leaving
  <1>3. Open
    BY <1>1 DEF IInv, CountersAgree, Closed
  <1>4. Waiting \in SUBSET Threads /\ Waiting' \in SUBSET Threads
    BY <1>2 DEF Waiting, At
  <1>5. Cardinality(Waiting') = Cardinality(Waiting) + 1
    BY <1>1, <1>2, <1>4, CountOfOneMore
  <1>6. control_counter' = Cardinality(Waiting')
    BY <1>3, <1>5 DEF Open, Arrive
  <1>7. TypeOK'
    BY <1>4, <1>6, CountOfThreads, ThreadsPositive DEF IInv, TypeOK, Arrive, Goto, Labels
  <1>8. CASE Waiting' = Threads
    <2>1. control_counter' = THREADS
      BY <1>6, <1>8 DEF THREADS
    <2>2. \A l \in Labels : l # "wait" => At(l)' = {}
      BY <1>8 DEF At, Waiting
    <2>3. era_counter' = 0
      BY <1>2, <1>3, <2>2 DEF Open, Arrive, Labels
    <2>4. Closed'
      BY <1>8, <2>1, <2>2, <2>3, ThreadsPositive DEF Closed, Labels, Leaving, THREADS
    <2> QED
      BY <1>7, <2>4 DEF IInv, CountersAgree
  <1>9. CASE Waiting' # Threads
    <2>1. Open'
      BY <1>1, <1>2, <1>3, <1>6, <1>9 DEF Open, Arrive
    <2> QED
      BY <1>7, <2>1 DEF IInv, CountersAgree
  <1> QED
    BY <1>8, <1>9

LEMMA StopWaitingPreserves ==
  ASSUME IInv, NEW t \in Threads, StopWaiting(t)
  PROVE  IInv'
  <1>1. TypeOK'
    BY DEF IInv, TypeOK, StopWaiting, Goto, Labels
  <1>2. t \in Waiting
    BY DEF StopWaiting, At, Waiting
  <1>3. /\ Waiting' = Waiting \ {t} /\ Leaving' = Leaving \cup {t}
        /\ At("reset")' = At("reset") /\ At("arrive")' = At("arrive")
        /\ At("cas")' = At("cas")
    BY Moves DEF IInv, StopWaiting, At, Labels, Waiting, Leaving
  <1>4. Closed
    BY CountOfThreads DEF IInv, CountersAgree, Open, StopWaiting, Waiting, At
  <1>5. (Waiting \cup Leaving)' = Waiting \cup Leaving
    BY <1>2, <1>3
  <1>6. Closed'
    BY <1>3, <1>4, <1>5 DEF Closed, StopWaiting
  <1> QED
    BY <1>1, <1>6 DEF IInv, CountersAgree

LEMMA LeavePreserves ==
  ASSUME IInv, NEW t \in Threads, Leave(t)
  PROVE  IInv'
  <1>1. t \in Leaving /\ t \notin Waiting
    BY DEF Leave, At, Waiting, Leaving
  <1>2. /\ Waiting' = Waiting /\ Leaving' = Leaving \ {t}
        /\ At("reset")' = At("reset") /\ At("arrive")' = At("arrive")
        /\ At("cas")' = At("cas")
    BY Moves DEF IInv, Leave, At, Labels, Waiting, Leaving
  <1>3. Closed
    BY <1>1 DEF IInv, CountersAgree, Open
  <1>4. /\ Waiting \cup Leaving \in SUBSET Threads
        /\ (Waiting \cup Leaving)' = (Waiting \cup Leaving) \ {t}
    BY <1>1, <1>2 DEF Waiting, Leaving, At
  <1>5. /\ Cardinality(Waiting \cup Leaving) \in 0..THREADS
        /\ Cardinality((Waiting \cup Leaving)') = Cardinality(Waiting \cup Leaving) - 1
    BY <1>1, <1>4, CountOfThreads, CountOfOneMore
  <1>6. era_counter' = THREADS - Cardinality((Waiting \cup Leaving)')
    BY <1>3, <1>5, ThreadsPositive DEF Closed, Leave
  <1>7. At("cas") = {}
    BY <1>1, <1>3 DEF Closed
  <1>8. Closed'
    BY <1>2, <1>3, <1>6, <1>7 DEF Closed, Leave
  <1>9. Cardinality((Waiting \cup Leaving)') \in 0..THREADS
    BY <1>4, CountOfThreads
  <1>10. TypeOK'
    BY <1>6, <1>9, ThreadsPositive DEF IInv, TypeOK, Leave, Goto, Labels
  <1> QED
    BY <1>8, <1>10 DEF IInv, CountersAgree

LEMMA StepPreserves == IInv /\ [Next]_vars => IInv'
  <1> SUFFICES ASSUME IInv, [Next]_vars PROVE IInv'
    OBVIOUS
  <1>1. CASE UNCHANGED vars
    BY <1>1 DEF vars, IInv, TypeOK, CountersAgree, Closed, Open, Waiting, Leaving, At
  <1>2. ASSUME NEW t \in Threads, Call(t) \/ Inside(t) PROVE IInv'
    BY <1>2, CallPreserves, ReadEraPreserves, ReadControlPreserves, CompareAndSwapPreserves,
       ResetEraPreserves, ArrivePreserves, StopWaitingPreserves, LeavePreserves DEF Inside
  <1> QED
    BY <1>1, <1>2 DEF Next

LEMMA Inductive == Spec => []IInv
  BY InitEstablishes, StepPreserves, PTL DEF Spec

\* The counters, the statements the threads are at and the elected threads stay
\* within their types for any number of threads.
THEOREM TypeCorrect == Spec => []TypeOK
  BY Inductive, PTL DEF IInv

\* The two counters of barrier-synchronization.c agree with where the threads
\* are, whatever the order of their reads and increments.
THEOREM CountersAlwaysAgree == Spec => []CountersAgree
  BY Inductive, PTL DEF IInv

-----------------------------------------------------------------------------
\* Every statement of barrier() is, for its callers, one step of the rendezvous
\* or none: only the arrival that completes the round releases anybody.
LEMMA StepIsPromised ==
  IInv /\ IInv' /\ [Next]_vars => [Promise!Next]_(Promise!vars)
  <1> SUFFICES ASSUME IInv, IInv', [Next]_vars
               PROVE  Promise!Next \/ UNCHANGED Promise!vars
    BY Zenon
  <1>1. CASE UNCHANGED vars
    BY <1>1 DEF vars, Promise!vars, Phase
  <1>2. ASSUME NEW t \in Threads, Call(t)
        PROVE  Promise!Enter(t)
    BY <1>2 DEF Call, Goto, Promise!Enter, Phase, IInv, TypeOK
  <1>3. ASSUME NEW t \in Threads, ReadEra(t) \/ ReadControl(t) \/ StopWaiting(t)
        PROVE  UNCHANGED Promise!vars
    <2>1. \A u \in Threads : Phase(u)' = Phase(u)
      BY <1>3 DEF ReadEra, ReadControl, StopWaiting, Goto, Phase, IInv, TypeOK
    <2>2. ret' = ret
      BY <1>3 DEF ReadEra, ReadControl, StopWaiting
    <2> QED
      BY <2>1, <2>2 DEF Promise!vars
  <1>4. ASSUME NEW t \in Threads, ResetEra(t)
        PROVE  UNCHANGED Promise!vars
    <2>1. \A u \in Threads : Phase(u)' = Phase(u)
      BY <1>4 DEF ResetEra, Goto, Phase, IInv, TypeOK
    <2> QED
      BY <1>4, <2>1 DEF Promise!vars, ResetEra
  <1>5. ASSUME NEW t \in Threads, CompareAndSwap(t)
        PROVE  UNCHANGED Promise!vars
    <2>1. Phase(t) = "in" /\ Phase(t)' = "in"
      BY <1>5, ThreadsPositive DEF CompareAndSwap, Goto, Phase, IInv, TypeOK
    <2>2. control_counter = THREADS => Waiting = {} /\ Leaving = {}
      <3>1. t \in At("cas")
        BY <1>5 DEF CompareAndSwap, At
      <3> QED
        BY <3>1, CountOfThreads DEF IInv, CountersAgree, Closed, Open, Waiting, At
    <2>3. control_counter # THREADS => control_counter' = control_counter
      BY <1>5 DEF CompareAndSwap
    <2>4. ASSUME NEW u \in Threads, u # t
          PROVE  Phase(u)' = Phase(u) /\ ret'[u] = ret[u]
      BY <1>5, <2>2, <2>3, <2>4 DEF CompareAndSwap, Goto, Phase, IInv, TypeOK, Waiting, Leaving, At
    <2>5. \A u \in Threads : /\ Phase(u)' = Phase(u)
                             /\ (Phase(u) = "leaving" /\ ret[u])' = (Phase(u) = "leaving" /\ ret[u])
      BY <2>1, <2>4
    <2> QED
      BY <2>5 DEF Promise!vars
  <1>6. ASSUME NEW t \in Threads, Arrive(t)
        PROVE  Promise!Release \/ UNCHANGED Promise!vars
    <2>1. t \in At("arrive")
      BY <1>6 DEF Arrive, At
    <2>2. Open
      BY <2>1 DEF IInv, CountersAgree, Closed
    <2>3. control_counter # THREADS
      BY <2>2, CountOfThreads DEF Open, Waiting, At
    <2>4. Phase(t) = "in"
      BY <1>6, <2>3 DEF Arrive, Phase
    <2>5. CASE control_counter' # THREADS
      <3>1. \A u \in Threads : Phase(u)' = Phase(u)
        BY <1>6, <2>3, <2>5 DEF Arrive, Goto, Phase, IInv, TypeOK
      <3> QED
        BY <1>6, <3>1 DEF Promise!vars, Arrive
    <2>6. CASE control_counter' = THREADS
      <3>1. Waiting' = Threads
        <4>1. t \in Waiting'
          BY <1>6 DEF Arrive, Goto, Waiting, At, IInv, TypeOK
        <4>2. CASE Open'
          BY <2>6, <4>2, CountOfThreads DEF Open, Waiting, At
        <4>3. CASE Closed'
          <5>1. Cardinality(Waiting) = THREADS - 1
            BY <1>6, <2>2, <2>6, CountOfThreads DEF Open, Arrive, Waiting, At, IInv, TypeOK
          <5>2. t \notin Waiting /\ Waiting \in SUBSET Threads
            BY <1>6 DEF Arrive, Waiting, At
          <5>3. Cardinality(Waiting \cup {t}) = THREADS
            BY <5>1, <5>2, CountOfOneMore, ThreadsPositive
          <5>4. Waiting \cup {t} = Threads
            BY <5>2, <5>3, CountOfThreads
          <5>5. Waiting' = Waiting \cup {t}
            BY <1>6 DEF Arrive, Goto, Waiting, At, IInv, TypeOK
          <5> QED
            BY <5>4, <5>5
        <4> QED
          BY <4>2, <4>3 DEF IInv, CountersAgree
      <3>2. \A u \in Threads : Phase(u)' = "leaving"
        BY <2>6, <3>1 DEF Phase, Waiting, At
      <3>3. \A u \in Threads : u = t \/ pc[u] = "wait"
        BY <1>6, <3>1 DEF Arrive, Goto, Waiting, At, IInv, TypeOK
      <3>4. \A u \in Threads : Phase(u) = "in"
        BY <2>3, <2>4, <3>3 DEF Phase
      <3>5. PICK w \in Threads : ret[w] /\ \A u \in Threads : ret[u] => u = w
        BY <2>1, <2>2, <3>3 DEF Open, At, Waiting
      <3>6. \A u \in Threads : ret'[u] = (u = w)
        BY <1>6, <3>5 DEF Arrive, IInv, TypeOK
      <3>7. [u \in Threads |-> Phase(u) = "leaving" /\ ret[u]]' = [u \in Threads |-> u = w]
        BY <3>2, <3>6
      <3>8. [u \in Threads |-> Phase(u)]' = [u \in Threads |-> "leaving"]
        BY <3>2
      <3> QED
        BY <3>4, <3>7, <3>8 DEF Promise!Release
    <2> QED
      BY <2>5, <2>6
  <1>7. ASSUME NEW t \in Threads, Leave(t)
        PROVE  Promise!Return(t)
    <2>1. \A u \in Threads : Phase(u)' = IF u = t THEN "out" ELSE Phase(u)
      BY <1>7 DEF Leave, Goto, Phase, IInv, TypeOK
    <2>2. Phase(t) = "leaving" /\ ret' = ret
      BY <1>7 DEF Leave, Phase
    <2> QED
      BY <2>1, <2>2 DEF Promise!Return
  <1>8. ASSUME NEW t \in Threads, Call(t) \/ Inside(t)
        PROVE  Promise!Next \/ UNCHANGED Promise!vars
    BY <1>2, <1>3, <1>4, <1>5, <1>6, <1>7, <1>8 DEF Inside, Promise!Next
  <1> QED
    BY <1>1, <1>8 DEF Next

\* For any number of threads nobody passes the barrier before everybody has
\* reached it, and each round tells exactly one thread that it is elected.
THEOREM BarrierImplementsRendezvous == Spec => ImplementsRendezvous
  <1>1. Init => Promise!Init
    BY DEF Init, Promise!Init, Phase
  <1> QED
    BY <1>1, Inductive, StepIsPromised, PTL DEF Spec, ImplementsRendezvous, Promise!Spec
=============================================================================
