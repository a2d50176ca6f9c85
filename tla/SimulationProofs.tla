-------------------------- MODULE SimulationProofs --------------------------
(***************************************************************************)
(* Why a window of LOOKAHEAD ticks needs no rollback: for all objects,     *)
(* events and models that respect the lookahead, every object executes its *)
(* events in the order of their timestamps.  ConservativeEngine, which is  *)
(* checked to implement this specification, rests on it.                   *)
(***************************************************************************)
EXTENDS Simulation, SequenceTheorems, TLAPS

-----------------------------------------------------------------------------
(* The inductive invariant *)

\* No event pending is due before the current window.
Ahead == \A p \in pending : model.time[p] + LOOKAHEAD >= limit

\* Every event executed was due before the end of the current window.
Behind == \A o \in Objects : \A i \in DOMAIN executed[o] : model.time[executed[o][i]] < limit

\* What is pending for an object is due no earlier than what it has executed.
NoStraggler ==
    \A p \in pending : \A i \in DOMAIN executed[model.dest[p]] :
        model.time[executed[model.dest[p]][i]] <= model.time[p]

IInv == TypeOK /\ Ahead /\ Behind /\ NoStraggler /\ InTimeOrder

-----------------------------------------------------------------------------
LEMMA ModelTypes ==
  ASSUME SimulationAssumption, model \in Models
  PROVE  /\ LOOKAHEAD \in Nat /\ LOOKAHEAD > 0
         /\ model.init \in [Objects -> Seq(Kinds)]
         /\ model.dest \in [Kinds -> Objects]
         /\ model.time \in [Kinds -> Nat]
         /\ model.next \in [Kinds -> Seq(Kinds)]
  BY DEF SimulationAssumption, IsModel

\* What an event schedules: events due later, and a LOOKAHEAD later at another
\* object.
LEMMA Schedules ==
  ASSUME SimulationAssumption, model \in Models,
         NEW k \in Kinds, NEW c \in ToSet(model.next[k])
  PROVE  /\ c \in Kinds
         /\ model.time[c] > model.time[k]
         /\ model.dest[c] # model.dest[k] => model.time[c] >= model.time[k] + LOOKAHEAD
  <1>1. PICK i \in DOMAIN model.next[k] : c = model.next[k][i]
    BY DEF ToSet
  <1>2. model.next[k] \in Seq(Kinds)
    BY ModelTypes
  <1>3. c \in Kinds
    BY <1>1, <1>2, ElementOfSeq
  <1> QED
    BY <1>1, <1>3 DEF SimulationAssumption, IsModel

LEMMA InitEstablishes ==
  ASSUME SimulationAssumption, Init
  PROVE  IInv
  <1>1. pending \subseteq Kinds
    <2> SUFFICES ASSUME NEW o \in Objects, NEW k \in ToSet(model.init[o]) PROVE k \in Kinds
      BY DEF Init
    <2>1. model.init[o] \in Seq(Kinds)
      BY ModelTypes DEF Init
    <2> QED
      BY <2>1 DEF ToSet
  <1>2. TypeOK
    BY <1>1, ModelTypes DEF Init, TypeOK
  <1>3. Ahead
    BY <1>1, ModelTypes DEF Init, Ahead
  <1>4. Behind /\ NoStraggler /\ InTimeOrder
    BY <1>1, ModelTypes DEF Init, Behind, NoStraggler, InTimeOrder
  <1> QED
    BY <1>2, <1>3, <1>4 DEF IInv

LEMMA AdvancePreserves ==
  ASSUME SimulationAssumption, IInv, Advance
  PROVE  IInv'
  <1>1. TypeOK'
    BY ModelTypes DEF IInv, TypeOK, Advance
  <1>2. Ahead'
    BY ModelTypes DEF IInv, TypeOK, Advance, Ahead
  <1>3. Behind'
    <2> SUFFICES ASSUME NEW o \in Objects, NEW i \in DOMAIN executed[o]
                 PROVE  model.time[executed[o][i]] < limit + LOOKAHEAD
      BY DEF Advance, Behind
    <2>1. executed[o][i] \in Kinds
      BY ElementOfSeq DEF IInv, TypeOK
    <2> QED
      BY <2>1, ModelTypes DEF IInv, TypeOK, Behind
  <1>4. NoStraggler' /\ InTimeOrder'
    BY DEF IInv, Advance, NoStraggler, InTimeOrder
  <1> QED
    BY <1>1, <1>2, <1>3, <1>4 DEF IInv

LEMMA ExecutePreserves ==
  ASSUME SimulationAssumption, IInv, NEW k \in Kinds, Execute(k)
  PROVE  IInv'
  <1> DEFINE o == model.dest[k]
             old == executed[o]
  <1>t. /\ model \in Models /\ model' = model /\ limit' = limit /\ limit \in Nat
        /\ pending \subseteq Kinds /\ executed \in [Objects -> Seq(Kinds)]
        /\ o \in Objects /\ old \in Seq(Kinds)
    BY ModelTypes DEF IInv, TypeOK, Execute
  <1>m. \A c \in Kinds : model.time[c] \in Nat /\ model.dest[c] \in Objects
    BY <1>t, ModelTypes
  <1>l. LOOKAHEAD \in Nat
    BY <1>t, ModelTypes
  <1>k. /\ k \in pending /\ model.time[k] < limit
        /\ \A p \in pending : model.dest[p] = o => model.time[k] <= model.time[p]
    BY DEF Execute
  <1>p. /\ pending' = (pending \ {k}) \cup ToSet(model.next[k])
        /\ \A c \in ToSet(model.next[k]) :
              /\ c \in Kinds /\ model.time[c] > model.time[k]
              /\ model.dest[c] # o => model.time[c] >= model.time[k] + LOOKAHEAD
    BY <1>t, Schedules DEF Execute
  <1>e. /\ executed' \in [Objects -> Seq(Kinds)]
        /\ executed'[o] = Append(old, k)
        /\ \A q \in Objects : q # o => executed'[q] = executed[q]
    BY <1>t DEF Execute
  <1>a. /\ DOMAIN executed'[o] = 1..(Len(old) + 1) /\ DOMAIN old = 1..Len(old) /\ Len(old) \in Nat
        /\ executed'[o][Len(old) + 1] = k
        /\ \A i \in 1..Len(old) : executed'[o][i] = old[i] /\ old[i] \in Kinds
    BY <1>t, <1>e
  <1>s. \A i \in 1..Len(old) : model.time[old[i]] <= model.time[k]
    BY <1>a, <1>k DEF IInv, NoStraggler
  <1>1. TypeOK'
    BY <1>t, <1>p, <1>e DEF TypeOK
  <1>2. Ahead'
    <2> SUFFICES ASSUME NEW p \in pending' PROVE model.time[p] + LOOKAHEAD >= limit
      BY <1>t DEF Ahead
    <2>1. CASE p \in pending
      BY <2>1 DEF IInv, Ahead
    <2>2. CASE p \in ToSet(model.next[k])
      <3>1. model.time[k] + LOOKAHEAD >= limit
        BY <1>k DEF IInv, Ahead
      <3> QED
        BY <3>1, <2>2, <1>p, <1>m, <1>l, <1>t
    <2> QED
      BY <2>1, <2>2, <1>p
  <1>3. Behind'
    <2> SUFFICES ASSUME NEW q \in Objects, NEW i \in DOMAIN executed'[q]
                 PROVE  model.time[executed'[q][i]] < limit
      BY <1>t DEF Behind
    <2>1. CASE q # o
      BY <2>1, <1>e DEF IInv, Behind
    <2>2. CASE q = o
      <3>1. CASE i = Len(old) + 1
        BY <3>1, <2>2, <1>a, <1>k
      <3>2. CASE i \in 1..Len(old)
        BY <3>2, <2>2, <1>a DEF IInv, Behind
      <3> QED
        BY <3>1, <3>2, <2>2, <1>a
    <2> QED
      BY <2>1, <2>2
  <1>4. NoStraggler'
    <2> SUFFICES ASSUME NEW p \in pending', NEW i \in DOMAIN executed'[model.dest[p]]
                 PROVE  model.time[executed'[model.dest[p]][i]] <= model.time[p]
      BY <1>t DEF NoStraggler
    <2> DEFINE q == model.dest[p]
    <2>p. p \in Kinds /\ q \in Objects /\ model.time[p] \in Nat
      BY <1>p, <1>t, <1>m
    <2>1. CASE q # o
      <3>1. executed'[q] = executed[q] /\ i \in DOMAIN executed[q]
        BY <2>1, <2>p, <1>e
      <3>2. CASE p \in pending
        BY <3>1, <3>2 DEF IInv, NoStraggler
      <3>3. CASE p \in ToSet(model.next[k])
        <4>1. model.time[p] >= limit
          <5>1. model.time[k] + LOOKAHEAD >= limit
            BY <1>k DEF IInv, Ahead
          <5>2. model.time[p] >= model.time[k] + LOOKAHEAD
            BY <3>3, <2>1, <1>p
          <5> QED
            BY <5>1, <5>2, <2>p, <1>m, <1>l, <1>t
        <4>2. executed[q][i] \in Kinds /\ model.time[executed[q][i]] < limit
          <5>1. executed[q] \in Seq(Kinds)
            BY <2>p, <1>t
          <5> QED
            BY <5>1, <3>1, <2>p DEF IInv, Behind
        <4> QED
          BY <4>1, <4>2, <3>1, <2>p, <1>m, <1>t
      <3> QED
        BY <3>2, <3>3, <1>p
    <2>2. CASE q = o
      <3>1. model.time[k] <= model.time[p]
        BY <2>2, <2>p, <1>p, <1>k, <1>m
      <3>2. CASE i = Len(old) + 1
        BY <3>1, <3>2, <2>2, <1>a
      <3>3. CASE i \in 1..Len(old)
        <4>1. executed'[q][i] = old[i] /\ old[i] \in Kinds
          BY <3>3, <2>2, <1>a
        <4>2. model.time[old[i]] \in Nat /\ model.time[k] \in Nat
          BY <4>1, <1>m
        <4>3. model.time[old[i]] <= model.time[k]
          BY <3>3, <1>s
        <4>4. model.time[old[i]] <= model.time[p]
          BY <4>2, <4>3, <3>1, <2>p
        <4> QED
          BY <4>1, <4>4
      <3>4. i \in 1..(Len(old) + 1)
        BY <2>2, <1>a
      <3> QED
        BY <3>2, <3>3, <3>4, <1>a
    <2> QED
      BY <2>1, <2>2
  <1>5. InTimeOrder'
    <2> SUFFICES ASSUME NEW q \in Objects, NEW i \in DOMAIN executed'[q],
                        NEW j \in DOMAIN executed'[q], i < j
                 PROVE  model.time[executed'[q][i]] <= model.time[executed'[q][j]]
      BY <1>t DEF InTimeOrder
    <2>1. CASE q # o
      BY <2>1, <1>e DEF IInv, InTimeOrder
    <2>2. CASE q = o
      <3>1. CASE j = Len(old) + 1
        BY <3>1, <2>2, <1>a, <1>s
      <3>2. CASE j \in 1..Len(old)
        <4>1. i \in 1..Len(old)
          BY <3>2, <2>2, <1>a
        <4>2. executed'[q][i] = old[i] /\ executed'[q][j] = old[j]
          BY <4>1, <3>2, <2>2, <1>a
        <4>3. model.time[old[i]] <= model.time[old[j]]
          BY <4>1, <3>2, <1>a, <1>t DEF IInv, InTimeOrder
        <4> QED
          BY <4>2, <4>3
      <3>3. j \in 1..(Len(old) + 1)
        BY <2>2, <1>a
      <3> QED
        BY <3>1, <3>2, <3>3, <1>a
    <2> QED
      BY <2>1, <2>2
  <1> QED
    BY <1>1, <1>2, <1>3, <1>4, <1>5 DEF IInv

LEMMA StepPreserves ==
  ASSUME SimulationAssumption
  PROVE  IInv /\ [Next]_vars => IInv'
  <1> SUFFICES ASSUME IInv, [Next]_vars PROVE IInv'
    OBVIOUS
  <1>1. CASE Advance
    BY <1>1, AdvancePreserves
  <1>2. CASE \E k \in Kinds : Execute(k)
    BY <1>2, ExecutePreserves
  <1>3. CASE UNCHANGED vars
    BY <1>3 DEF vars, IInv, TypeOK, Ahead, Behind, NoStraggler, InTimeOrder
  <1> QED
    BY <1>1, <1>2, <1>3 DEF Next

-----------------------------------------------------------------------------
(* Theorems *)

LEMMA Inductive ==
  ASSUME SimulationAssumption
  PROVE  Spec => []IInv
  <1>1. Init => IInv
    BY InitEstablishes
  <1>2. IInv /\ [Next]_vars => IInv'
    BY StepPreserves
  <1> QED
    BY <1>1, <1>2, PTL DEF Spec

\* Every variable keeps its type, for any objects, events and models.
THEOREM TypeCorrect ==
  ASSUME SimulationAssumption
  PROVE  Spec => []TypeOK
  <1>1. IInv => TypeOK
    BY DEF IInv
  <1> QED
    BY <1>1, Inductive, PTL

\* Whatever the order in which the objects of a window are run, every object
\* executes its events in the order of their timestamps, although nothing is
\* ever undone: models that schedule for other objects at least LOOKAHEAD ahead
\* (setup.h) are what the conservative engine needs and all it needs.
THEOREM CausalityRespected ==
  ASSUME SimulationAssumption
  PROVE  Spec => []InTimeOrder
  <1>1. IInv => InTimeOrder
    BY DEF IInv
  <1> QED
    BY <1>1, Inductive, PTL
=============================================================================
