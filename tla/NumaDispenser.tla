---------------------------- MODULE NumaDispenser ----------------------------
(***************************************************************************)
(* The dispensers of the NUMA_BALANCING build: each node has a counter over *)
(* its range of objects, and a thread whose node is exhausted steals from   *)
(* the others before it turns to the barrier. Sources: the object choice of *)
(* queue_extract and its reset at the end of an epoch, in queue/queue.c.    *)
(***************************************************************************)
EXTENDS Integers, FiniteSets

CONSTANTS
    Threads,
    OBJECTS,
    TOT_NUMA_NODES,
    Nothing,    \* no object
    Layouts     \* the ranges main() may lay out: [c, min], functions of the node

Objects == 0..(OBJECTS - 1)
Nodes == 0..(TOT_NUMA_NODES - 1)

\* Range n is min[n] .. min[n] + c[n] - 1; the ranges partition the objects
\* (invariant NodesPartitionObjects of Startup).
IsLayout(l) ==
    /\ l.c \in [Nodes -> 0..OBJECTS] /\ l.min \in [Nodes -> 0..OBJECTS]
    /\ \A o \in Objects : \E n \in Nodes :
          \A m \in Nodes : o \in l.min[m]..(l.min[m] + l.c[m] - 1) <=> m = n
    /\ \A n \in Nodes : l.min[n] + l.c[n] <= OBJECTS

ASSUME DispenserAssumption ==
    /\ OBJECTS \in Nat /\ TOT_NUMA_NODES \in Nat \ {0}
    /\ Nothing \notin Objects
    /\ \A l \in Layouts : IsLayout(l)

VARIABLES
    layout,                     \* _c and _min
    myNUMAnode,                 \* the node of each thread
    object_identifiers_vector,  \* the counter of each node
    myNUMAindex,                \* the node from which each thread takes objects
    stealNUMAindex,             \* how often it has moved on in this epoch
    target,                     \* the object handed out to each thread, or Nothing
    pc

vars == <<layout, myNUMAnode, object_identifiers_vector, myNUMAindex, stealNUMAindex, target, pc>>

_c == layout.c
_min == layout.min

Init ==
    /\ layout \in Layouts
    /\ myNUMAnode \in [Threads -> Nodes]
    /\ object_identifiers_vector = [n \in Nodes |-> 0]
    /\ myNUMAindex = myNUMAnode
    /\ stealNUMAindex = [t \in Threads |-> 0]
    /\ target = [t \in Threads |-> Nothing]
    /\ pc = [t \in Threads |-> "retry"]

Exhausted(n) == object_identifiers_vector[n] >= _c[n]

\* The fetch-and-add on a counter that is not exhausted hands out an object.
\* (Beyond c[n] all values of a counter are alike, and the counter stays.)
HandOut(t) ==
    LET n == myNUMAindex[t]
    IN  /\ ~Exhausted(n)
        /\ object_identifiers_vector' = [object_identifiers_vector EXCEPT ![n] = @ + 1]
        /\ target' = [target EXCEPT ![t] = object_identifiers_vector[n] + _min[n]]
        /\ pc' = [pc EXCEPT ![t] = "object"]
        /\ UNCHANGED <<layout, myNUMAnode, myNUMAindex, stealNUMAindex>>

Take(t) == pc[t] = "retry" /\ HandOut(t)

\* A defect the checks must notice: the nodes are not wrapped around.
NextNode_Unwrapped(n) == n + 1

NextNode(n) == (n + 1) % TOT_NUMA_NODES

\* A defect: the move to another node is not counted.
Steal_Uncounted(t) ==
    /\ pc[t] = "retry"
    /\ Exhausted(myNUMAindex[t])
    /\ stealNUMAindex[t] < TOT_NUMA_NODES
    /\ myNUMAindex' = [myNUMAindex EXCEPT ![t] = NextNode(@)]
    /\ UNCHANGED <<layout, myNUMAnode, object_identifiers_vector, stealNUMAindex, target, pc>>

\* The counter is exhausted: the thread tries the next node.
Steal(t) ==
    /\ pc[t] = "retry"
    /\ Exhausted(myNUMAindex[t])
    /\ stealNUMAindex[t] < TOT_NUMA_NODES
    /\ stealNUMAindex' = [stealNUMAindex EXCEPT ![t] = @ + 1]
    /\ myNUMAindex' = [myNUMAindex EXCEPT ![t] = NextNode(@)]
    /\ UNCHANGED <<layout, myNUMAnode, object_identifiers_vector, target, pc>>

\* All nodes have been tried: target = OBJECTS leads to the end of the epoch.
GiveUp(t) ==
    /\ pc[t] = "retry"
    /\ Exhausted(myNUMAindex[t])
    /\ stealNUMAindex[t] >= TOT_NUMA_NODES
    /\ target' = [target EXCEPT ![t] = Nothing]
    /\ pc' = [pc EXCEPT ![t] = "quiet"]
    /\ UNCHANGED <<layout, myNUMAnode, object_identifiers_vector, myNUMAindex, stealNUMAindex>>

\* The object has no event left: another identifier of the same node.
Proceed(t) == pc[t] \in {"object", "stack"} /\ HandOut(t)

\* That node has none, or the object belongs to another thread: start again.
StartAgain(t) ==
    /\ pc[t] \in {"object", "stack"}
    /\ target' = [target EXCEPT ![t] = Nothing]
    /\ pc' = [pc EXCEPT ![t] = "retry"]
    /\ UNCHANGED <<layout, myNUMAnode, object_identifiers_vector, myNUMAindex, stealNUMAindex>>

\* In the speculative build a thread may find an object on its stack.
FromStack(t) ==
    /\ pc[t] \in {"object", "stack", "quiet"}
    /\ target' = [target EXCEPT ![t] = Nothing]
    /\ pc' = [pc EXCEPT ![t] = "stack"]
    /\ UNCHANGED <<layout, myNUMAnode, object_identifiers_vector, myNUMAindex, stealNUMAindex>>

\* A defect: the number of moves is not reset.
EndEpoch_StealKept ==
    /\ \A t \in Threads : pc[t] = "quiet"
    /\ object_identifiers_vector' = [n \in Nodes |-> 0]
    /\ myNUMAindex' = myNUMAnode
    /\ target' = [t \in Threads |-> Nothing]
    /\ pc' = [t \in Threads |-> "retry"]
    /\ UNCHANGED <<layout, myNUMAnode, stealNUMAindex>>

\* The barriers of the end of the epoch, update_timing and the reset after it.
EndEpoch ==
    /\ \A t \in Threads : pc[t] = "quiet"
    /\ object_identifiers_vector' = [n \in Nodes |-> 0]
    /\ myNUMAindex' = myNUMAnode
    /\ stealNUMAindex' = [t \in Threads |-> 0]
    /\ target' = [t \in Threads |-> Nothing]
    /\ pc' = [t \in Threads |-> "retry"]
    /\ UNCHANGED <<layout, myNUMAnode>>

Search(t) == Take(t) \/ Steal(t) \/ GiveUp(t)

Next ==
    \/ EndEpoch
    \/ \E t \in Threads : Search(t) \/ Proceed(t) \/ StartAgain(t) \/ FromStack(t)

Spec == Init /\ [][Next]_vars

\* A thread that searches is running: the search has no waiting in it.
FairSpec == Spec /\ \A t \in Threads : WF_vars(Search(t))

-----------------------------------------------------------------------------
\* Counters stay within the ranges, and node numbers are nodes.
TypeOK ==
    /\ layout \in Layouts
    /\ myNUMAnode \in [Threads -> Nodes]
    /\ object_identifiers_vector \in [Nodes -> 0..OBJECTS]
    /\ \A n \in Nodes : object_identifiers_vector[n] <= _c[n]
    /\ myNUMAindex \in [Threads -> Nodes]
    /\ stealNUMAindex \in [Threads -> 0..TOT_NUMA_NODES]
    /\ target \in [Threads -> Objects \cup {Nothing}]
    /\ pc \in [Threads -> {"retry", "object", "stack", "quiet"}]

Promise == INSTANCE Dispenser WITH
    left <- {o \in Objects : \E n \in Nodes :
                o \in (_min[n] + object_identifiers_vector[n])..(_min[n] + _c[n] - 1)},
    has <- target,
    refused <- {t \in Threads : pc[t] = "quiet"}

\* However the threads steal from each other's nodes, every object is handed out
\* once per epoch, and a thread that goes to the barrier has left none behind.
HandsOutEveryObjectOnce == Promise!Spec

\* The search ends, with an object or at the barrier: the threads do not chase
\* each other around the nodes.
SearchEnds == \A t \in Threads : pc[t] = "retry" ~> pc[t] # "retry"
=============================================================================
