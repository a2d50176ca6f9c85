------------------------------- MODULE Startup -------------------------------
(***************************************************************************)
(* How main() spreads objects and threads over the NUMA nodes: the parser   *)
(* of the hardware description (get_hw_config) and the loop that fills      *)
(* startup_info and the ranges c, min and max of the dispenser.             *)
(* Source: engine/engine.c.                                                 *)
(***************************************************************************)
EXTENDS Integers, Sequences, FiniteSets

CONSTANT Configurations
    \* The set of [objects, threads, hw]: OBJECTS, THREADS, and for each NUMA
    \* node the list of CPUs lscpu prints, a sequence of single CPUs and ranges.

CPULists == Seq(Seq([first : Nat, last : Nat]))

ASSUME ConfigurationsAssumption ==
    \A k \in Configurations :
        /\ k \in [objects : Nat \ {0}, threads : Nat \ {0}, hw : CPULists]
        /\ k.hw # <<>>

VARIABLES
    config,
    phase,          \* "parse", "threads" or "done"
    node, token,    \* the parser: the node and its next token
    lower, upper,   \* the parser: the last range of this node, -1 before one
    cpu_id_per_numa_node,
    current_min, numaNodeRound, numaNodeInit,
    c, min, max,    \* objects hosted on each node: how many, first, last
    startup_info    \* what each thread set up so far is started with

parser == <<node, token, lower, upper>>
vars == <<config, phase, parser, cpu_id_per_numa_node, current_min, numaNodeRound,
          numaNodeInit, c, min, max, startup_info>>

OBJECTS == config.objects
THREADS == config.threads
NUMA_NODES == Len(config.hw)
Nodes == 0..(NUMA_NODES - 1)
Objects == 0..(OBJECTS - 1)

\* The CPUs that the description really gives a node.
CPUsOf(n) == UNION {config.hw[n + 1][i].first..config.hw[n + 1][i].last :
                       i \in DOMAIN config.hw[n + 1]}
CPUs == UNION {CPUsOf(n) : n \in Nodes}

-----------------------------------------------------------------------------
\* scripts/remove-file deletes the description of a machine with one node, and
\* the default configuration is used instead.
Init ==
    /\ config \in Configurations
    /\ config.threads <= Cardinality(CPUs)      \* checked at line 229
    /\ phase = IF NUMA_NODES = 1 THEN "threads" ELSE "parse"
    /\ node = 0 /\ token = 1
    /\ lower = -1 /\ upper = -1
    /\ cpu_id_per_numa_node =
          [n \in Nodes |-> IF NUMA_NODES = 1 THEN [i \in 1..Cardinality(CPUs) |-> i - 1] ELSE <<>>]
    /\ current_min = 0 /\ numaNodeRound = 0 /\ numaNodeInit = 0
    /\ c = [n \in Nodes |-> IF NUMA_NODES = 1 THEN OBJECTS ELSE 0]
    /\ min = [n \in Nodes |-> 0]
    /\ max = [n \in Nodes |-> IF NUMA_NODES = 1 THEN OBJECTS - 1 ELSE 0]
    /\ startup_info = <<>>

\* A token is a range or a single CPU. What is stored for it depends on the last
\* range of the node, if there was one.
ParseToken ==
    /\ phase = "parse"
    /\ token <= Len(config.hw[node + 1])
    /\ LET t == config.hw[node + 1][token]
           isRange == t.first # t.last
       IN  /\ lower' = IF isRange THEN t.first ELSE lower
           /\ upper' = IF isRange THEN t.last ELSE upper
           /\ cpu_id_per_numa_node' = [cpu_id_per_numa_node EXCEPT ![node] =
                 @ \o IF lower' # -1
                      THEN [z \in 1..(upper' - lower' + 1) |-> lower' + t.first + z - 1]
                      ELSE <<t.first>>]
    /\ token' = token + 1
    /\ UNCHANGED <<config, phase, node, current_min, numaNodeRound, numaNodeInit,
                   c, min, max, startup_info>>

NextNode ==
    /\ phase = "parse"
    /\ token > Len(config.hw[node + 1])
    /\ token' = 1 /\ lower' = -1 /\ upper' = -1
    /\ node' = node + 1
    /\ phase' = IF node' < NUMA_NODES THEN "parse" ELSE "threads"
    /\ UNCHANGED <<config, cpu_id_per_numa_node, current_min, numaNodeRound, numaNodeInit,
                   c, min, max, startup_info>>

-----------------------------------------------------------------------------
\* A defect the checks must notice: the remainder of the division is dropped.
Share_Truncated == IF OBJECTS < THREADS THEN 1 ELSE OBJECTS \div THREADS

\* (int)ratio + corrector: the objects each thread starts up.
Share == (OBJECTS \div THREADS) + (IF OBJECTS % THREADS > 0 THEN 1 ELSE 0)

maxID == IF current_min + Share - 1 > OBJECTS - 1 THEN OBJECTS - 1 ELSE current_min + Share - 1

\* (int)(maxID / NUMAratio). NUMAratio is a float: when the quotient is integral
\* and the ratio is not, rounding may yield the integer below.
NodeAt(o) ==
    {(o * NUMA_NODES) \div OBJECTS}
    \cup (IF o > 0 /\ (o * NUMA_NODES) % OBJECTS = 0 /\ OBJECTS % NUMA_NODES > 0
          THEN {((o * NUMA_NODES) \div OBJECTS) - 1} ELSE {})

\* The CPU is crossed out of the list of its node.
Taken(n, j) == [cpu_id_per_numa_node EXCEPT ![n][j] = -1]

Free(n) == {j \in DOMAIN cpu_id_per_numa_node[n] : cpu_id_per_numa_node[n][j] # -1}

\* The node whose turn it is, or the next one with a free CPU.
IsTurnOf(n) ==
    \E step \in Nodes :
        /\ n = (numaNodeRound + step) % NUMA_NODES
        /\ \A s \in 0..(step - 1) : Free((numaNodeRound + s) % NUMA_NODES) = {}

\* A defect: the thread is told the node whose turn it was.
Launch_OnTurn(cpu, n) ==
    startup_info' = Append(startup_info,
        [minID |-> current_min, maxID |-> maxID, cpuID |-> cpu,
         numaNodeID |-> IF NUMA_NODES = 1 THEN n ELSE numaNodeRound,
         numaNodePerObjects |-> IF NUMA_NODES = 1 THEN 0 ELSE numaNodeInit])

Launch(cpu, n) ==
    startup_info' = Append(startup_info,
        [minID |-> current_min, maxID |-> maxID, cpuID |-> cpu, numaNodeID |-> n,
         numaNodePerObjects |-> IF NUMA_NODES = 1 THEN 0 ELSE numaNodeInit])

\* A defect: the next node starts at the last object of this one.
FirstAfter_Shared(o) == o

\* The first object of the next node.
FirstAfter(o) == o + 1

\* The objects of the thread are counted for the current node; the next node is
\* opened when the last of them lies beyond the share of this one.
HostObjects ==
    IF NUMA_NODES = 1 \/ maxID < current_min
    THEN UNCHANGED <<c, min, max, numaNodeInit>>
    ELSE /\ c' = [c EXCEPT ![numaNodeInit] = @ + (maxID - current_min + 1)]
         /\ max' = [max EXCEPT ![numaNodeInit] = maxID]
         /\ \E n \in NodeAt(maxID) :
               IF n > numaNodeInit
               THEN /\ numaNodeInit' = numaNodeInit + 1
                    /\ min' = [min EXCEPT ![numaNodeInit + 1] = FirstAfter(maxID)]
               ELSE UNCHANGED <<numaNodeInit, min>>

\* One iteration of the loop over the threads: the CPUs of a single node are
\* taken in turn, those of several nodes from one node after the other.
SetupThread ==
    /\ phase = "threads"
    /\ Len(startup_info) < THREADS
    /\ \/ /\ NUMA_NODES = 1
          /\ Launch(cpu_id_per_numa_node[0][Len(startup_info) + 1], 1)
          /\ UNCHANGED <<cpu_id_per_numa_node, numaNodeRound>>
       \/ /\ NUMA_NODES > 1
          /\ \E n \in Nodes : \E j \in Free(n) :
                /\ IsTurnOf(n)
                /\ \A k \in Free(n) : j <= k
                /\ Launch(cpu_id_per_numa_node[n][j], n)
                /\ cpu_id_per_numa_node' = Taken(n, j)
                /\ numaNodeRound' = (n + 1) % NUMA_NODES
    /\ current_min' = current_min + Share
    /\ HostObjects
    /\ UNCHANGED <<config, phase, parser>>

Start ==
    /\ phase = "threads"
    /\ Len(startup_info) = THREADS
    /\ phase' = "done"
    /\ UNCHANGED <<config, parser, cpu_id_per_numa_node, current_min, numaNodeRound,
                   numaNodeInit, c, min, max, startup_info>>

Next == ParseToken \/ NextNode \/ SetupThread \/ Start \/ (phase = "done" /\ UNCHANGED vars)

Spec == Init /\ [][Next]_vars

-----------------------------------------------------------------------------
Done == phase = "done"

TypeOK ==
    /\ phase \in {"parse", "threads", "done"}
    /\ node \in 0..NUMA_NODES /\ token \in Nat \ {0}
    /\ lower \in Nat \cup {-1} /\ upper \in Nat \cup {-1}
    /\ cpu_id_per_numa_node \in [Nodes -> Seq(Nat \cup {-1})]
    /\ current_min \in Nat /\ numaNodeRound \in Nodes /\ numaNodeInit \in Nodes
    /\ c \in [Nodes -> 0..OBJECTS] /\ min \in [Nodes -> 0..OBJECTS] /\ max \in [Nodes -> Objects]
    /\ startup_info \in Seq([minID : Nat, maxID : Objects, cpuID : Nat, numaNodeID : Nat,
                             numaNodePerObjects : Nodes])

StartedBy(i) == startup_info[i].minID..startup_info[i].maxID
HostedOn(n) == min[n]..(min[n] + c[n] - 1)

\* Every object gets its INIT event, from one thread only (engine.c:127).
EveryObjectStartedOnce ==
    Done => \A o \in Objects : Cardinality({i \in DOMAIN startup_info : o \in StartedBy(i)}) = 1

\* The ranges that the dispensers hand out object by object (queue.c:391-399)
\* stay within bounds and, in the end, hold every object exactly once and
\* nothing else: none is forgotten in any epoch, and none is handed out by two
\* dispensers.  The dispenser of an object is that of the node on which the
\* thread that started it has placed its memory.
NodesPartitionObjects ==
    /\ TypeOK
    /\ Done => /\ \A o \in Objects : Cardinality({n \in Nodes : o \in HostedOn(n)}) = 1
               /\ \A n \in Nodes : HostedOn(n) \subseteq Objects
               /\ \A i \in DOMAIN startup_info :
                     StartedBy(i) \subseteq HostedOn(startup_info[i].numaNodePerObjects)

\* Where there are several nodes, their lists name each CPU once, and no range.
PlainLists ==
    \A k \in Configurations : Len(k.hw) > 1 =>
        /\ \A n \in DOMAIN k.hw : \A i \in DOMAIN k.hw[n] : k.hw[n][i].first = k.hw[n][i].last
        /\ \A m, n \in DOMAIN k.hw : \A i \in DOMAIN k.hw[m], j \in DOMAIN k.hw[n] :
              k.hw[m][i].first = k.hw[n][j].first => m = n /\ i = j

\* "the thread need to pin to this CPU ID in order to correctly stay on the NUMA
\* node ID" (engine.c:34): the CPU belongs to the node, also when the nodes run
\* out of CPUs at different times. (Only where no list of CPUs has a range.)  And
\* no two worker threads are pinned to the same CPU: each can spin at the
\* barrier without keeping another one from running.
PinnedToItsNode ==
    /\ NUMA_NODES > 1 =>
          \A i \in DOMAIN startup_info : startup_info[i].cpuID \in CPUsOf(startup_info[i].numaNodeID)
    /\ \A i, j \in DOMAIN startup_info : startup_info[i].cpuID = startup_info[j].cpuID => i = j
=============================================================================
