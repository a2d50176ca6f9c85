------------------------- MODULE NumaDispenserProofs -------------------------
(***************************************************************************)
(* For any threads, nodes and ranges: the dispensers of NumaDispenser keep  *)
(* the promise of Dispenser.                                               *)
(***************************************************************************)
EXTENDS NumaDispenser, TLAPS

\* How many moves lead from one node to another.
Distance(m, n) == IF n >= m THEN n - m ELSE n - m + TOT_NUMA_NODES

\* A thread has moved on as often as it has counted, and only past nodes that
\* are exhausted; a thread at the barrier has found all of them exhausted.
Tried ==
    \A t \in Threads :
        /\ Distance(myNUMAnode[t], myNUMAindex[t]) =
              (IF stealNUMAindex[t] = TOT_NUMA_NODES THEN 0 ELSE stealNUMAindex[t])
        /\ \A n \in Nodes : Distance(myNUMAnode[t], n) < stealNUMAindex[t] => Exhausted(n)
        /\ pc[t] = "quiet" => \A n \in Nodes : Exhausted(n)

IInv == TypeOK /\ Tried

LEMMA NextNodeType ==
  ASSUME NEW n \in Nodes
  PROVE  NextNode(n) = IF n + 1 = TOT_NUMA_NODES THEN 0 ELSE n + 1
  BY DispenserAssumption DEF NextNode, Nodes

LEMMA NextNodeInNodes ==
  ASSUME NEW n \in Nodes
  PROVE  NextNode(n) \in Nodes
  <1>1. CASE n + 1 = TOT_NUMA_NODES
    <2>1. NextNode(n) = 0
      BY <1>1, NextNodeType
    <2> QED
      BY <2>1, DispenserAssumption DEF Nodes
  <1>2. CASE n + 1 # TOT_NUMA_NODES
    <2>1. NextNode(n) = n + 1
      BY <1>2, NextNodeType
    <2>2. n \in 0..(TOT_NUMA_NODES - 1)
      BY DEF Nodes
    <2>3. n + 1 \in 0..(TOT_NUMA_NODES - 1)
      BY <1>2, <2>2, DispenserAssumption
    <2> QED
      BY <2>1, <2>3 DEF Nodes
  <1> QED
    BY <1>1, <1>2

\* An object that a counter hands out is an object.
LEMMA HandedOut ==
  ASSUME TypeOK, NEW n \in Nodes, ~Exhausted(n)
  PROVE  /\ object_identifiers_vector[n] + _min[n] \in Objects
         /\ object_identifiers_vector[n] + 1 <= _c[n]
         /\ object_identifiers_vector[n] + 1 \in 0..OBJECTS
  <1>1. IsLayout(layout)
    BY DispenserAssumption DEF TypeOK
  <1> QED
    BY <1>1, DispenserAssumption DEF TypeOK, IsLayout, Exhausted, _c, _min, Objects

\* A counter that moves leaves the others alone and exhausts nothing back.
LEMMA HandOutKeepsInvariant ==
  ASSUME IInv, NEW t \in Threads, HandOut(t), pc[t] # "quiet"
  PROVE  IInv'
  <1> DEFINE n == myNUMAindex[t]
  <1>1. n \in Nodes
    BY DEF IInv, TypeOK
  <1>2. /\ ~Exhausted(n)
        /\ object_identifiers_vector' = [object_identifiers_vector EXCEPT ![n] = @ + 1]
        /\ target' = [target EXCEPT ![t] = object_identifiers_vector[n] + _min[n]]
        /\ pc' = [pc EXCEPT ![t] = "object"]
        /\ UNCHANGED <<layout, myNUMAnode, myNUMAindex, stealNUMAindex>>
    BY DEF HandOut
  <1>3. TypeOK'
    BY <1>1, <1>2, HandedOut DEF IInv, TypeOK, _c
  <1>4. \A m \in Nodes : Exhausted(m) => Exhausted(m)'
    BY <1>1, <1>2 DEF IInv, TypeOK, Exhausted, _c
  <1>5. Tried'
    BY <1>2, <1>4 DEF IInv, TypeOK, Tried, Distance
  <1> QED
    BY <1>3, <1>5 DEF IInv

LEMMA StealKeepsInvariant ==
  ASSUME IInv, NEW t \in Threads, Steal(t)
  PROVE  IInv'
  <1>1. TypeOK'
    <2>1. /\ UNCHANGED <<layout, myNUMAnode, object_identifiers_vector, target>>
          /\ \A n \in Nodes : _c[n]' = _c[n]
      BY DEF Steal, _c
    <2>2. NextNode(myNUMAindex[t]) \in Nodes
      BY NextNodeInNodes DEF IInv, TypeOK
    <2>3. myNUMAindex' \in [Threads -> Nodes]
      BY <2>2 DEF IInv, TypeOK, Steal
    <2>4. stealNUMAindex[t] \in Nat /\ stealNUMAindex[t] + 1 \in 0..TOT_NUMA_NODES
      BY DispenserAssumption DEF IInv, TypeOK, Steal
    <2>5. stealNUMAindex' \in [Threads -> 0..TOT_NUMA_NODES]
      BY <2>4 DEF IInv, TypeOK, Steal
    <2>6. pc' \in [Threads -> {"retry", "object", "stack", "quiet"}]
      BY DEF IInv, TypeOK, Steal
    <2> QED
      BY <2>1, <2>3, <2>5, <2>6 DEF IInv, TypeOK
  <1>2. \A n \in Nodes : Exhausted(n)' <=> Exhausted(n)
    BY DEF Steal, Exhausted, _c
  <1>3. \A u \in Threads \ {t} :
          /\ pc'[u] = pc[u] /\ myNUMAnode'[u] = myNUMAnode[u]
          /\ myNUMAindex'[u] = myNUMAindex[u] /\ stealNUMAindex'[u] = stealNUMAindex[u]
    BY DEF IInv, TypeOK, Steal
  <1>4. /\ myNUMAindex'[t] = NextNode(myNUMAindex[t])
        /\ stealNUMAindex'[t] = stealNUMAindex[t] + 1
        /\ myNUMAnode'[t] = myNUMAnode[t]
        /\ pc'[t] = "retry"
    BY DEF IInv, TypeOK, Steal
  <1>5. /\ myNUMAnode[t] \in Nodes /\ myNUMAindex[t] \in Nodes
        /\ stealNUMAindex[t] \in 0..TOT_NUMA_NODES /\ stealNUMAindex[t] < TOT_NUMA_NODES
        /\ Exhausted(myNUMAindex[t])
    BY DEF IInv, TypeOK, Steal
  <1>6. Distance(myNUMAnode[t], myNUMAindex[t]) = stealNUMAindex[t]
    BY <1>5 DEF IInv, Tried
  <1>7. Distance(myNUMAnode[t], NextNode(myNUMAindex[t])) =
          IF stealNUMAindex[t] + 1 = TOT_NUMA_NODES THEN 0 ELSE stealNUMAindex[t] + 1
    BY <1>5, <1>6, NextNodeType, DispenserAssumption DEF Distance, Nodes
  <1>8. \A n \in Nodes : Distance(myNUMAnode[t], n) = stealNUMAindex[t] => n = myNUMAindex[t]
    BY <1>5, <1>6, DispenserAssumption DEF Distance, Nodes
  <1>9. ASSUME NEW n \in Nodes, Distance(myNUMAnode[t], n) < stealNUMAindex[t] + 1
        PROVE  Exhausted(n)
    <2>1. Distance(myNUMAnode[t], n) \in Int
      BY <1>5, DispenserAssumption DEF Distance, Nodes
    <2>2. CASE Distance(myNUMAnode[t], n) < stealNUMAindex[t]
      BY <2>2 DEF IInv, Tried
    <2>3. CASE Distance(myNUMAnode[t], n) = stealNUMAindex[t]
      BY <2>3, <1>5, <1>8
    <2>4. Distance(myNUMAnode[t], n) < stealNUMAindex[t]
            \/ Distance(myNUMAnode[t], n) = stealNUMAindex[t]
      BY <2>1, <1>5, <1>9, DispenserAssumption
    <2> QED
      BY <2>2, <2>3, <2>4
  <1>10. \A m, n : Distance(m, n)' = Distance(m, n)
    BY DEF Distance
  <1>11. Tried'
    <2> SUFFICES ASSUME NEW u \in Threads
                 PROVE  /\ Distance(myNUMAnode'[u], myNUMAindex'[u]) =
                             (IF stealNUMAindex'[u] = TOT_NUMA_NODES THEN 0 ELSE stealNUMAindex'[u])
                        /\ \A n \in Nodes : Distance(myNUMAnode'[u], n) < stealNUMAindex'[u]
                             => Exhausted(n)'
                        /\ pc'[u] = "quiet" => \A n \in Nodes : Exhausted(n)'
      BY <1>10 DEF Tried, Distance, Nodes
    <2>1. CASE u = t
      BY <2>1, <1>2, <1>4, <1>7, <1>9
    <2>2. CASE u # t
      BY <2>2, <1>2, <1>3 DEF IInv, Tried
    <2> QED
      BY <2>1, <2>2
  <1> QED
    BY <1>1, <1>11 DEF IInv

\* All the nodes lie within TOT_NUMA_NODES moves.
LEMMA AllTried ==
  ASSUME IInv, NEW t \in Threads, stealNUMAindex[t] >= TOT_NUMA_NODES
  PROVE  \A n \in Nodes : Exhausted(n)
  <1> SUFFICES ASSUME NEW n \in Nodes
               PROVE  Distance(myNUMAnode[t], n) < stealNUMAindex[t]
    BY DEF IInv, Tried
  <1>1. myNUMAnode[t] \in Nodes /\ stealNUMAindex[t] \in 0..TOT_NUMA_NODES
    BY DEF IInv, TypeOK
  <1> QED
    BY <1>1, DispenserAssumption DEF Distance, Nodes

\* The steps that touch no counter and no node number.
LEMMA MoveKeepsInvariant ==
  ASSUME IInv, NEW t \in Threads,
         UNCHANGED <<layout, myNUMAnode, object_identifiers_vector, myNUMAindex, stealNUMAindex>>,
         target' = [target EXCEPT ![t] = Nothing],
         NEW label \in {"retry", "object", "stack", "quiet"},
         pc' = [pc EXCEPT ![t] = label],
         label = "quiet" => \A n \in Nodes : Exhausted(n)
  PROVE  IInv'
  <1>1. TypeOK'
    BY DEF IInv, TypeOK, _c
  <1>2. Tried'
    BY DEF IInv, TypeOK, Tried, Distance, Exhausted, _c
  <1> QED
    BY <1>1, <1>2 DEF IInv

LEMMA EndEpochKeepsInvariant ==
  ASSUME IInv, EndEpoch
  PROVE  IInv'
  <1>1. TypeOK'
    <2>1. IsLayout(layout)
      BY DispenserAssumption DEF IInv, TypeOK
    <2> QED
      BY <2>1, DispenserAssumption DEF IInv, TypeOK, EndEpoch, IsLayout, _c
  <1>2. Tried'
    BY DispenserAssumption DEF IInv, TypeOK, EndEpoch, Tried, Distance, Nodes
  <1> QED
    BY <1>1, <1>2 DEF IInv

LEMMA InitEstablishes == Init => IInv
  <1> SUFFICES ASSUME Init PROVE IInv
    OBVIOUS
  <1>1. IsLayout(layout)
    BY DispenserAssumption DEF Init
  <1>2. TypeOK
    BY <1>1, DispenserAssumption DEF Init, TypeOK, IsLayout, _c
  <1>3. Tried
    BY DispenserAssumption DEF Init, Tried, Distance, Nodes
  <1> QED
    BY <1>2, <1>3 DEF IInv

LEMMA StepPreserves == IInv /\ [Next]_vars => IInv'
  <1> SUFFICES ASSUME IInv, [Next]_vars PROVE IInv'
    OBVIOUS
  <1>1. CASE EndEpoch
    BY <1>1, EndEpochKeepsInvariant
  <1>2. ASSUME NEW t \in Threads, Take(t) \/ Proceed(t) PROVE IInv'
    BY <1>2, HandOutKeepsInvariant DEF Take, Proceed
  <1>3. ASSUME NEW t \in Threads, Steal(t) PROVE IInv'
    BY <1>3, StealKeepsInvariant
  <1>4. ASSUME NEW t \in Threads, GiveUp(t) PROVE IInv'
    <2>1. \A n \in Nodes : Exhausted(n)
      BY <1>4, AllTried DEF GiveUp
    <2> QED
      BY <1>4, <2>1, MoveKeepsInvariant DEF GiveUp
  <1>5. ASSUME NEW t \in Threads, StartAgain(t) PROVE IInv'
    BY <1>5, MoveKeepsInvariant DEF StartAgain
  <1>6. ASSUME NEW t \in Threads, FromStack(t) PROVE IInv'
    BY <1>6, MoveKeepsInvariant DEF FromStack
  <1>7. CASE UNCHANGED vars
    BY <1>7 DEF IInv, TypeOK, Tried, Distance, Exhausted, _c, vars
  <1> QED
    BY <1>1, <1>2, <1>3, <1>4, <1>5, <1>6, <1>7 DEF Next, Search

LEMMA Inductive == Spec => []IInv
  BY InitEstablishes, StepPreserves, PTL DEF Spec

\* Counters, node numbers and what is handed out keep their types.
THEOREM TypeCorrect == Spec => []TypeOK
  BY Inductive, PTL DEF IInv

-----------------------------------------------------------------------------
(* The refinement *)

Left == {o \in Objects : \E n \in Nodes :
            o \in (_min[n] + object_identifiers_vector[n])..(_min[n] + _c[n] - 1)}

Quiet == {t \in Threads : pc[t] = "quiet"}

\* Handing out an object takes exactly this object from those that are left.
LEMMA HandOutGives ==
  ASSUME IInv, NEW t \in Threads, HandOut(t)
  PROVE  \E o \in Left : Left' = Left \ {o} /\ target' = [target EXCEPT ![t] = o]
  <1> DEFINE n == myNUMAindex[t]
             o == object_identifiers_vector[n] + _min[n]
  <1>1. /\ n \in Nodes /\ object_identifiers_vector \in [Nodes -> 0..OBJECTS]
        /\ IsLayout(layout)
    BY DispenserAssumption DEF IInv, TypeOK
  <1>2. /\ ~Exhausted(n)
        /\ object_identifiers_vector' = [object_identifiers_vector EXCEPT ![n] = @ + 1]
        /\ target' = [target EXCEPT ![t] = o]
        /\ layout' = layout
    BY DEF HandOut
  <1>3. /\ _c \in [Nodes -> 0..OBJECTS] /\ _min \in [Nodes -> 0..OBJECTS]
        /\ OBJECTS \in Nat
    BY <1>1, DispenserAssumption DEF IsLayout, _c, _min
  <1>4. o \in Objects
    BY <1>1, <1>2, HandedOut DEF IInv
  <1>5. object_identifiers_vector[n] < _c[n]
    <2>1. object_identifiers_vector[n] + 1 <= _c[n]
      BY <1>1, <1>2, HandedOut DEF IInv
    <2> QED
      BY <1>1, <1>3, <2>1
  <1>6. o \in Left
    BY <1>1, <1>3, <1>4, <1>5 DEF Left
  <1>7. \A m \in Nodes : o \in _min[m].._min[m] + _c[m] - 1 => m = n
    <2>1. o \in _min[n].._min[n] + _c[n] - 1
      BY <1>1, <1>3, <1>5
    <2>2. PICK k \in Nodes : \A m \in Nodes : o \in _min[m]..(_min[m] + _c[m] - 1) <=> m = k
      BY <1>1, <1>4 DEF IsLayout, _c, _min
    <2> QED
      BY <1>1, <2>1, <2>2
  <1>8. Left' = Left \ {o}
    <2>1. \A x \in Objects : x \in Left' <=> \E m \in Nodes :
             x \in (_min[m] + object_identifiers_vector'[m])..(_min[m] + _c[m] - 1)
      BY <1>2 DEF Left, _min, _c
    <2>2. ASSUME NEW x \in Objects, x \in Left'
          PROVE  x \in Left /\ x # o
      <3>1. PICK m \in Nodes :
               x \in (_min[m] + object_identifiers_vector'[m])..(_min[m] + _c[m] - 1)
        BY <2>1, <2>2
      <3>2. object_identifiers_vector'[m] =
              IF m = n THEN object_identifiers_vector[n] + 1 ELSE object_identifiers_vector[m]
        BY <1>1, <1>2
      <3>3. x \in Left
        BY <3>1, <3>2, <1>1, <1>3 DEF Left, Objects
      <3>4. x # o
        BY <3>1, <3>2, <1>1, <1>3, <1>7 DEF Objects
      <3> QED
        BY <3>3, <3>4
    <2>3. ASSUME NEW x \in Objects, x \in Left, x # o
          PROVE  x \in Left'
      <3>1. PICK m \in Nodes :
               x \in (_min[m] + object_identifiers_vector[m])..(_min[m] + _c[m] - 1)
        BY <2>3 DEF Left
      <3>2. object_identifiers_vector'[m] =
              IF m = n THEN object_identifiers_vector[n] + 1 ELSE object_identifiers_vector[m]
        BY <1>1, <1>2
      <3>3. x \in (_min[m] + object_identifiers_vector'[m])..(_min[m] + _c[m] - 1)
        BY <3>1, <3>2, <2>3, <1>1, <1>3 DEF Objects
      <3> QED
        BY <3>3, <2>1
    <2> QED
      BY <2>2, <2>3 DEF Left
  <1> QED
    BY <1>2, <1>6, <1>8

\* With every counter exhausted nothing is left.
LEMMA NothingLeft ==
  ASSUME IInv, \A n \in Nodes : Exhausted(n)
  PROVE  Left = {}
  <1>1. IsLayout(layout)
    BY DispenserAssumption DEF IInv, TypeOK
  <1> QED
    BY <1>1, DispenserAssumption DEF IInv, TypeOK, IsLayout, Exhausted, Left, _c, _min, Objects

LEMMA InitRefines == Init => Promise!Init
  <1> SUFFICES ASSUME Init PROVE Promise!Init
    OBVIOUS
  <1>1. IsLayout(layout)
    BY DispenserAssumption DEF Init
  <1>2. Left = Objects
    BY <1>1, DispenserAssumption DEF Init, IsLayout, Left, _c, _min, Objects
  <1> QED
    BY <1>2 DEF Init, Promise!Init, Left, Objects

LEMMA StepRefines == IInv /\ [Next]_vars => [Promise!Next]_(Promise!vars)
  <1> SUFFICES ASSUME IInv, [Next]_vars PROVE [Promise!Next]_(Promise!vars)
    OBVIOUS
  <1>1. CASE EndEpoch
    <2>1. IsLayout(layout) /\ layout' = layout
      BY <1>1, DispenserAssumption DEF IInv, TypeOK, EndEpoch
    <2>2. Left' = Objects
      BY <2>1, <1>1, DispenserAssumption DEF EndEpoch, IsLayout, Left, _c, _min, Objects
    <2>3. Quiet = Threads /\ Quiet' = {}
      BY <1>1 DEF EndEpoch, Quiet
    <2> QED
      BY <2>2, <2>3, <1>1 DEF EndEpoch, Promise!Next, Promise!NewEpoch, Left, Quiet
  <1>2. ASSUME NEW t \in Threads, Take(t) \/ Proceed(t) PROVE Promise!Next
    <2>1. HandOut(t) /\ pc[t] # "quiet"
      BY <1>2 DEF Take, Proceed
    <2>2. Quiet' = Quiet /\ t \notin Quiet
      BY <2>1 DEF HandOut, Quiet, IInv, TypeOK
    <2>3. \E o \in Left : Left' = Left \ {o} /\ target' = [target EXCEPT ![t] = o]
      BY <2>1, HandOutGives
    <2>4. Promise!Give(t)
      BY <2>2, <2>3 DEF Promise!Give, Left, Quiet
    <2> QED
      BY <2>4 DEF Promise!Next
  <1>3. ASSUME NEW t \in Threads, Steal(t) PROVE UNCHANGED Promise!vars
    BY <1>3 DEF Steal, Promise!vars, _c, _min
  <1>4. ASSUME NEW t \in Threads, GiveUp(t) PROVE Promise!Next
    <2>1. Left = {}
      BY <1>4, AllTried, NothingLeft DEF GiveUp
    <2>2. Left' = Left
      BY <1>4 DEF GiveUp, Left, _c, _min
    <2>3. Quiet' = Quiet \cup {t}
      BY <1>4 DEF GiveUp, Quiet, IInv, TypeOK
    <2>4. Promise!Refuse(t)
      BY <2>1, <2>2, <2>3, <1>4 DEF GiveUp, Promise!Refuse, Left, Quiet
    <2> QED
      BY <2>4 DEF Promise!Next
  <1>5. ASSUME NEW t \in Threads, StartAgain(t) \/ FromStack(t) PROVE Promise!Next
    <2>1. Left' = Left
      BY <1>5 DEF StartAgain, FromStack, Left, _c, _min
    <2>2. Quiet' = Quiet \ {t}
      BY <1>5 DEF StartAgain, FromStack, Quiet, IInv, TypeOK
    <2>3. Promise!PutDown(t)
      BY <2>1, <2>2, <1>5 DEF StartAgain, FromStack, Promise!PutDown, Left, Quiet
    <2> QED
      BY <2>3 DEF Promise!Next
  <1>6. CASE UNCHANGED vars
    BY <1>6 DEF vars, Promise!vars, _c, _min
  <1> QED
    BY <1>1, <1>2, <1>3, <1>4, <1>5, <1>6 DEF Next, Search

\* However many threads steal from however many nodes: every object is handed
\* out once per epoch, and no thread goes to the barrier while one is left.
THEOREM DispenserIsExact == Spec => HandsOutEveryObjectOnce
  <1>1. Spec => Promise!Init
    BY InitRefines DEF Spec
  <1>2. IInv /\ [Next]_vars => [Promise!Next]_(Promise!vars)
    BY StepRefines
  <1> QED
    BY <1>1, <1>2, Inductive, PTL DEF Spec, HandsOutEveryObjectOnce, Promise!Spec
=============================================================================
