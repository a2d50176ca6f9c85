---------------------------- MODULE StartupProofs ----------------------------
(***************************************************************************)
(* For all machines and all numbers of objects and threads: every object   *)
(* is started once, the dispensers of the nodes share out the objects, and *)
(* threads are pinned to CPUs of their own. The list of CPUs of a node and *)
(* the ranges of objects are built by two loops; the invariants say what   *)
(* they have done so far.                                                  *)
(***************************************************************************)
EXTENDS Startup, FiniteSetTheorems, TLAPS

Tokens == [first : Nat, last : Nat]

-----------------------------------------------------------------------------
(* Division *)

LEMMA DivMod ==
  ASSUME NEW a \in Nat, NEW b \in Nat \ {0}
  PROVE  a \div b \in Nat /\ a % b \in 0..(b - 1) /\ a = b * (a \div b) + (a % b)
  <1>1. a \div b \in Nat
    OBVIOUS
  <1>2. a % b \in 0..(b - 1)
    OBVIOUS
  <1>3. a = b * (a \div b) + (a % b)
    OBVIOUS
  <1> QED
    BY <1>1, <1>2, <1>3

LEMMA Monotone ==
  ASSUME NEW a \in Nat, NEW b \in Nat, NEW n \in Nat, a <= b
  PROVE  a * n <= b * n
  OBVIOUS

\* As many shares as there are threads are enough for all objects.
LEMMA SharesSuffice ==
  ASSUME NEW a \in Nat, NEW b \in Nat \ {0}
  PROVE  /\ (a \div b) + (IF a % b > 0 THEN 1 ELSE 0) \in Nat
         /\ a > 0 => (a \div b) + (IF a % b > 0 THEN 1 ELSE 0) > 0
         /\ b * ((a \div b) + (IF a % b > 0 THEN 1 ELSE 0)) >= a
  <1> DEFINE q == a \div b
             r == a % b
  <1>1. q \in Nat /\ r \in 0..(b - 1) /\ a = b * q + r
    BY DivMod
  <1> HIDE DEF q, r
  <1>2. b * (q + 1) = b * q + b
    BY <1>1
  <1>3. q = 0 => b * q = 0
    BY <1>1
  <1>4. CASE r > 0
    BY <1>1, <1>2, <1>4 DEF q, r
  <1>5. CASE r = 0
    BY <1>1, <1>3, <1>5 DEF q, r
  <1> QED
    BY <1>1, <1>4, <1>5

\* The node to which an object belongs is one of the nodes.
LEMMA QuotientBelow ==
  ASSUME NEW x \in Nat, NEW o \in Nat \ {0}, NEW n \in Nat \ {0}, x <= o - 1
  PROVE  (x * n) \div o \in 0..(n - 1)
  <1> DEFINE a == x * n
             q == a \div o
  <1>1. a \in Nat
    OBVIOUS
  <1>2. q \in Nat /\ a % o \in 0..(o - 1) /\ a = o * q + (a % o)
    BY <1>1, DivMod
  <1>3. a <= (o - 1) * n
    BY Monotone
  <1>4. (o - 1) * n = o * n - n
    OBVIOUS
  <1> HIDE DEF a, q
  <1>5. ASSUME q >= n PROVE FALSE
    <2>1. n * o <= q * o
      BY <1>2, <1>5, Monotone
    <2>2. o * n <= o * q
      BY <2>1, <1>2
    <2>3. a % o >= 0 /\ a >= o * q
      BY <1>2
    <2>4. o * n \in Nat /\ o * q \in Nat
      BY <1>2
    <2> QED
      BY <1>1, <1>3, <1>4, <2>2, <2>3, <2>4
  <1> QED
    BY <1>2, <1>5 DEF q, a

-----------------------------------------------------------------------------
(* Configurations *)

ConfigOK == config \in Configurations /\ THREADS <= Cardinality(CPUs)

LEMMA ConfigTypes ==
  ASSUME ConfigOK
  PROVE  /\ OBJECTS \in Nat \ {0} /\ THREADS \in Nat \ {0} /\ NUMA_NODES \in Nat \ {0}
         /\ config.hw \in Seq(Seq(Tokens))
         /\ \A n \in Nodes : n \in Nat /\ n + 1 \in DOMAIN config.hw
         /\ 0 \in Nodes
  <1>1. /\ config.objects \in Nat \ {0} /\ config.threads \in Nat \ {0}
        /\ config.hw \in Seq(Seq(Tokens)) /\ config.hw # <<>>
    BY ConfigurationsAssumption DEF ConfigOK, CPULists, Tokens
  <1>2. NUMA_NODES \in Nat \ {0} /\ DOMAIN config.hw = 1..NUMA_NODES
    BY <1>1 DEF NUMA_NODES
  <1> QED
    BY <1>1, <1>2 DEF OBJECTS, THREADS, Nodes

LEMMA ShareTypes ==
  ASSUME ConfigOK
  PROVE  Share \in Nat \ {0} /\ THREADS * Share >= OBJECTS
  <1>1. OBJECTS \in Nat /\ OBJECTS > 0 /\ THREADS \in Nat \ {0}
    BY ConfigTypes
  <1>2. Share \in Nat /\ (OBJECTS > 0 => Share > 0) /\ THREADS * Share >= OBJECTS
    BY <1>1, SharesSuffice DEF Share
  <1> QED
    BY <1>1, <1>2

LEMMA CPUsFinite ==
  ASSUME ConfigOK
  PROVE  IsFiniteSet(CPUs) /\ Cardinality(CPUs) \in Nat
  <1>1. \A n \in Nodes : IsFiniteSet(CPUsOf(n))
    <2> TAKE n \in Nodes
    <2> DEFINE q == config.hw[n + 1]
               interval(i) == q[i].first..q[i].last
    <2>1. q \in Seq(Tokens) /\ DOMAIN q = 1..Len(q) /\ Len(q) \in Nat
      BY ConfigTypes
    <2> HIDE DEF q
    <2>2. \A i \in DOMAIN q : IsFiniteSet(interval(i))
      <3> TAKE i \in DOMAIN q
      <3>1. q[i] \in Tokens
        BY <2>1
      <3>2. q[i].first \in Int /\ q[i].last \in Int
        BY <3>1 DEF Tokens
      <3> QED
        BY <3>2, FS_Interval
    <2>3. IsFiniteSet(DOMAIN q)
      BY <2>1, FS_Interval
    <2> HIDE DEF interval
    <2>4. IsFiniteSet({interval(i) : i \in DOMAIN q})
      <3> DEFINE f == [i \in DOMAIN q |-> interval(i)]
      <3>1. f \in Surjection(DOMAIN q, {interval(i) : i \in DOMAIN q})
        BY DEF Surjection
      <3> HIDE DEF f
      <3> QED
        BY <2>3, <3>1, FS_Surjection
    <2>5. IsFiniteSet(UNION {interval(i) : i \in DOMAIN q})
      BY <2>2, <2>4, FS_UNION
    <2> QED
      BY <2>5 DEF CPUsOf, q, interval
  <1>2. IsFiniteSet(Nodes)
    BY ConfigTypes, FS_Interval DEF Nodes
  <1>3. IsFiniteSet({CPUsOf(n) : n \in Nodes})
    <2> DEFINE f == [n \in Nodes |-> CPUsOf(n)]
    <2>1. f \in Surjection(Nodes, {CPUsOf(n) : n \in Nodes})
      BY DEF Surjection
    <2> HIDE DEF f
    <2> QED
      BY <1>2, <2>1, FS_Surjection
  <1>4. IsFiniteSet(CPUs)
    BY <1>1, <1>3, FS_UNION DEF CPUs
  <1> QED
    BY <1>4, FS_CardinalityType

\* The configuration does not change, and nothing that depends on it does.
LEMMA SameConfig ==
  ASSUME config' = config
  PROVE  /\ ConfigOK' <=> ConfigOK
         /\ OBJECTS' = OBJECTS /\ THREADS' = THREADS /\ NUMA_NODES' = NUMA_NODES
         /\ Nodes' = Nodes /\ Objects' = Objects /\ Share' = Share /\ CPUs' = CPUs
         /\ \A n : CPUsOf(n)' = CPUsOf(n)
  <1>1. \A n : CPUsOf(n)' = CPUsOf(n)
    BY DEF CPUsOf
  <1>2. Nodes' = Nodes /\ OBJECTS' = OBJECTS /\ THREADS' = THREADS /\ NUMA_NODES' = NUMA_NODES
    BY DEF Nodes, OBJECTS, THREADS, NUMA_NODES
  <1>3. CPUs' = CPUs
    BY <1>1, <1>2 DEF CPUs
  <1> QED
    BY <1>1, <1>2, <1>3 DEF ConfigOK, Objects, Share

-----------------------------------------------------------------------------
(* Types *)

Infos == [minID : Nat, maxID : Objects, cpuID : Nat, numaNodeID : Nat, numaNodePerObjects : Nodes]

\* The parser works on a node as long as it works, and there are as many threads
\* as there are to be.
Progress ==
    /\ phase = "parse" => node \in Nodes /\ startup_info = <<>>
    /\ Len(startup_info) <= THREADS
    /\ Done => Len(startup_info) = THREADS

\* With one node, the CPUs are taken to be those from zero on.
OneNode ==
    NUMA_NODES = 1 =>
        /\ phase # "parse"
        /\ cpu_id_per_numa_node[0] = [i \in 1..Cardinality(CPUs) |-> i - 1]
        /\ numaNodeInit = 0
        /\ min[0] = 0 /\ c[0] = OBJECTS

Types ==
    /\ ConfigOK
    /\ phase \in {"parse", "threads", "done"}
    /\ node \in 0..NUMA_NODES /\ token \in Nat \ {0}
    /\ lower \in Nat \cup {-1} /\ upper \in Nat \cup {-1}
    /\ cpu_id_per_numa_node \in [Nodes -> Seq(Nat \cup {-1})]
    /\ current_min \in Nat /\ numaNodeRound \in Nodes /\ numaNodeInit \in Nodes
    /\ c \in [Nodes -> Nat] /\ min \in [Nodes -> Nat] /\ max \in [Nodes -> Objects]
    /\ startup_info \in Seq(Infos)
    /\ Progress /\ OneNode

LEMMA LastIsObject ==
  ASSUME ConfigOK, current_min \in Nat
  PROVE  /\ maxID \in Objects /\ maxID < current_min + Share
         /\ maxID = current_min + Share - 1 \/ maxID = OBJECTS - 1
  <1>1. OBJECTS \in Nat \ {0} /\ Share \in Nat \ {0}
    BY ConfigTypes, ShareTypes
  <1>2. CASE current_min + Share - 1 > OBJECTS - 1
    BY <1>1, <1>2 DEF maxID, Objects
  <1>3. CASE ~(current_min + Share - 1 > OBJECTS - 1)
    BY <1>1, <1>3 DEF maxID, Objects
  <1> QED
    BY <1>2, <1>3

LEMMA NodesOf ==
  ASSUME ConfigOK, NEW o \in Objects
  PROVE  NodeAt(o) \subseteq Int /\ \A n \in NodeAt(o) : n <= NUMA_NODES - 1
  <1>1. (o * NUMA_NODES) \div OBJECTS \in 0..(NUMA_NODES - 1)
    <2>1. OBJECTS \in Nat \ {0} /\ NUMA_NODES \in Nat \ {0} /\ o \in Nat /\ o <= OBJECTS - 1
      BY ConfigTypes DEF Objects
    <2> QED
      BY <2>1, QuotientBelow
  <1> QED
    BY <1>1, ConfigTypes DEF NodeAt

\* What one iteration of the loop over the threads does.
LEMMA ThreadSetUp ==
  ASSUME Types, SetupThread
  PROVE  /\ config' = config /\ phase' = phase /\ UNCHANGED parser
         /\ phase = "threads" /\ Len(startup_info) < THREADS
         /\ current_min' = current_min + Share
         /\ \E info \in Infos :
               /\ startup_info' = Append(startup_info, info)
               /\ info.minID = current_min /\ info.maxID = maxID
               /\ info.numaNodePerObjects = numaNodeInit
               /\ \/ /\ NUMA_NODES = 1
                     /\ info.cpuID = Len(startup_info)
                     /\ UNCHANGED <<cpu_id_per_numa_node, numaNodeRound>>
                  \/ /\ NUMA_NODES > 1
                     /\ \E n \in Nodes : \E j \in Free(n) :
                           /\ info.cpuID = cpu_id_per_numa_node[n][j] /\ info.numaNodeID = n
                           /\ cpu_id_per_numa_node' = Taken(n, j)
                           /\ numaNodeRound' = (n + 1) % NUMA_NODES
  <1> DEFINE Info(cpu, n) == [minID |-> current_min, maxID |-> maxID, cpuID |-> cpu, numaNodeID |-> n,
                              numaNodePerObjects |-> IF NUMA_NODES = 1 THEN 0 ELSE numaNodeInit]
  <1>1. maxID \in Objects /\ NUMA_NODES \in Nat \ {0} /\ 0 \in Nodes
    BY LastIsObject, ConfigTypes DEF Types
  <1>2. \A cpu, n \in Nat : /\ Info(cpu, n) \in Infos
                            /\ Info(cpu, n).numaNodePerObjects = numaNodeInit
    BY <1>1 DEF Types, OneNode, Infos
  <1>3. CASE NUMA_NODES = 1
    <2>1. /\ startup_info' = Append(startup_info, Info(cpu_id_per_numa_node[0][Len(startup_info) + 1], 1))
          /\ UNCHANGED <<cpu_id_per_numa_node, numaNodeRound>>
      BY <1>3 DEF SetupThread, Launch
    <2>2. Len(startup_info) + 1 \in 1..Cardinality(CPUs) /\ Len(startup_info) \in Nat
      <3>1. /\ THREADS \in Nat /\ Cardinality(CPUs) \in Nat /\ Len(startup_info) \in Nat
            /\ THREADS <= Cardinality(CPUs) /\ Len(startup_info) < THREADS
        <4>1. ConfigOK /\ startup_info \in Seq(Infos)
          BY DEF Types
        <4> QED
          BY <4>1, ConfigTypes, CPUsFinite DEF SetupThread, ConfigOK
      <3> QED
        BY <3>1
    <2>3. cpu_id_per_numa_node[0][Len(startup_info) + 1] = Len(startup_info)
      <3>1. cpu_id_per_numa_node[0] = [i \in 1..Cardinality(CPUs) |-> i - 1]
        BY <1>3 DEF Types, OneNode
      <3>2. \A k \in 1..Cardinality(CPUs) : cpu_id_per_numa_node[0][k] = k - 1
        BY <3>1
      <3>3. cpu_id_per_numa_node[0][Len(startup_info) + 1] = (Len(startup_info) + 1) - 1
        BY <2>2, <3>2
      <3> QED
        BY <2>2, <3>3
    <2>4. Info(Len(startup_info), 1) \in Infos
      BY <1>2, <2>2
    <2> QED
      BY <1>2, <1>3, <2>1, <2>2, <2>3, <2>4 DEF SetupThread, parser
  <1>4. CASE NUMA_NODES > 1
    <2>1. PICK n \in Nodes : \E j \in Free(n) :
              /\ startup_info' = Append(startup_info, Info(cpu_id_per_numa_node[n][j], n))
              /\ cpu_id_per_numa_node' = Taken(n, j)
              /\ numaNodeRound' = (n + 1) % NUMA_NODES
      BY <1>4 DEF SetupThread, Launch
    <2>2. PICK j \in Free(n) :
              /\ startup_info' = Append(startup_info, Info(cpu_id_per_numa_node[n][j], n))
              /\ cpu_id_per_numa_node' = Taken(n, j)
              /\ numaNodeRound' = (n + 1) % NUMA_NODES
      BY <2>1
    <2>3. cpu_id_per_numa_node[n][j] \in Nat /\ n \in Nat
      <3>1. cpu_id_per_numa_node[n] \in Seq(Nat \cup {-1}) /\ j \in DOMAIN cpu_id_per_numa_node[n]
            /\ cpu_id_per_numa_node[n][j] # -1
        BY DEF Types, Free
      <3>2. cpu_id_per_numa_node[n][j] \in Nat \cup {-1}
        BY <3>1
      <3> QED
        BY <3>1, <3>2 DEF Nodes
    <2>4. Info(cpu_id_per_numa_node[n][j], n) \in Infos
      BY <1>2, <2>3
    <2> QED
      BY <1>2, <1>4, <2>3, <2>4, <2>2 DEF SetupThread, parser
  <1> QED
    BY <1>1, <1>3, <1>4

LEMMA TypesSetupThread ==
  ASSUME Types, SetupThread
  PROVE  Types'
  <1>1. PICK info \in Infos :
            /\ startup_info' = Append(startup_info, info)
            /\ \/ UNCHANGED <<cpu_id_per_numa_node, numaNodeRound>>
               \/ \E n \in Nodes : \E j \in Free(n) :
                     /\ cpu_id_per_numa_node' = Taken(n, j)
                     /\ numaNodeRound' = (n + 1) % NUMA_NODES
                     /\ NUMA_NODES > 1
    BY ThreadSetUp
  <1>2. /\ config' = config /\ phase' = phase /\ UNCHANGED parser /\ phase = "threads"
        /\ current_min' = current_min + Share /\ Len(startup_info) < THREADS
    BY ThreadSetUp
  <1>3. /\ numaNodeRound' \in Nodes
        /\ cpu_id_per_numa_node' \in [Nodes -> Seq(Nat \cup {-1})]
        /\ NUMA_NODES = 1 => UNCHANGED cpu_id_per_numa_node
    <2>1. CASE UNCHANGED <<cpu_id_per_numa_node, numaNodeRound>>
      BY <2>1 DEF Types
    <2>2. ASSUME NEW n \in Nodes, NEW j \in Free(n), cpu_id_per_numa_node' = Taken(n, j),
                 numaNodeRound' = (n + 1) % NUMA_NODES, NUMA_NODES > 1
          PROVE  /\ numaNodeRound' \in Nodes
                 /\ cpu_id_per_numa_node' \in [Nodes -> Seq(Nat \cup {-1})]
      <3>1. n + 1 \in Nat /\ NUMA_NODES \in Nat \ {0}
        <4>1. NUMA_NODES \in Nat \ {0}
          BY ConfigTypes DEF Types
        <4> QED
          BY <4>1 DEF Nodes
      <3>2. (n + 1) % NUMA_NODES \in Nodes
        BY <3>1, DivMod DEF Nodes
      <3>3. cpu_id_per_numa_node[n] \in Seq(Nat \cup {-1}) /\ j \in DOMAIN cpu_id_per_numa_node[n]
        BY DEF Types, Free
      <3>4. [cpu_id_per_numa_node[n] EXCEPT ![j] = -1] \in Seq(Nat \cup {-1})
        BY <3>3
      <3> QED
        BY <2>2, <3>2, <3>4 DEF Types, Taken
    <2> QED
      BY <1>1, <2>1, <2>2
  <1>4. HostObjects
    BY DEF SetupThread
  <1>5. /\ numaNodeInit' \in Nodes /\ c' \in [Nodes -> Nat]
        /\ min' \in [Nodes -> Nat] /\ max' \in [Nodes -> Objects]
        /\ NUMA_NODES = 1 => UNCHANGED <<c, min, max, numaNodeInit>>
    <2>1. maxID \in Objects /\ maxID \in Nat
      BY LastIsObject DEF Types, Objects
    <2>2. CASE NUMA_NODES = 1 \/ maxID < current_min
      BY <1>4, <2>2 DEF HostObjects, Types
    <2>3. CASE ~(NUMA_NODES = 1 \/ maxID < current_min)
      <3>1. /\ c' = [c EXCEPT ![numaNodeInit] = @ + (maxID - current_min + 1)]
            /\ max' = [max EXCEPT ![numaNodeInit] = maxID]
            /\ \/ \E n \in NodeAt(maxID) :
                     /\ n > numaNodeInit /\ numaNodeInit' = numaNodeInit + 1
                     /\ min' = [min EXCEPT ![numaNodeInit + 1] = FirstAfter(maxID)]
               \/ UNCHANGED <<numaNodeInit, min>>
        BY <1>4, <2>3 DEF HostObjects
      <3>2. maxID - current_min + 1 \in Nat
        BY <2>1, <2>3 DEF Types
      <3>3. c' \in [Nodes -> Nat] /\ max' \in [Nodes -> Objects]
        BY <2>1, <3>1, <3>2 DEF Types
      <3>4. ASSUME NEW n \in NodeAt(maxID), n > numaNodeInit
            PROVE  numaNodeInit + 1 \in Nodes
        BY <2>1, <3>4, NodesOf, ConfigTypes DEF Types, Nodes
      <3>5. numaNodeInit' \in Nodes /\ min' \in [Nodes -> Nat]
        <4>1. numaNodeInit \in Nodes /\ min \in [Nodes -> Nat]
          BY DEF Types
        <4>2. FirstAfter(maxID) \in Nat
          BY <2>1 DEF FirstAfter
        <4> QED
          BY <3>1, <3>4, <4>1, <4>2
      <3> QED
        BY <2>3, <3>3, <3>5
    <2> QED
      BY <2>2, <2>3
  <1>6. /\ startup_info' \in Seq(Infos) /\ Len(startup_info') = Len(startup_info) + 1
    BY <1>1 DEF Types
  <1>7. Infos' = Infos /\ UNCHANGED <<node, token, lower, upper>>
    BY <1>2, SameConfig DEF Infos, parser
  <1>8. Progress' /\ OneNode' /\ current_min' \in Nat
    <2>1. /\ Share \in Nat /\ THREADS \in Nat /\ Len(startup_info) \in Nat
          /\ current_min \in Nat /\ 0 \in Nodes
      BY ConfigTypes, ShareTypes DEF Types
    <2>2. Progress'
      BY <1>2, <1>6, <1>7, <2>1, SameConfig DEF Progress, Done
    <2>3. OneNode'
      BY <1>2, <1>3, <1>5, SameConfig DEF Types, OneNode
    <2> QED
      BY <1>2, <2>1, <2>2, <2>3
  <1> QED
    BY <1>2, <1>3, <1>5, <1>6, <1>7, <1>8, SameConfig DEF Types

\* What the parser stores for a token, when there was no range before it in
\* the list of the node, or the last one was lower..upper.
Numbers(t, low, up) ==
    IF low # -1 THEN [z \in 1..(up - low + 1) |-> low + t.first + z - 1] ELSE <<t.first>>

LEMMA NumbersTypes ==
  ASSUME NEW t \in Tokens, NEW low \in Nat \cup {-1}, NEW up \in Nat \cup {-1}
  PROVE  Numbers(t, low, up) \in Seq(Nat \cup {-1})
  <1>1. t.first \in Nat
    BY DEF Tokens
  <1>2. CASE low = -1
    BY <1>1, <1>2 DEF Numbers
  <1>3. CASE low # -1
    <2> DEFINE n == IF up - low + 1 > 0 THEN up - low + 1 ELSE 0
               f == [z \in 1..n |-> low + t.first + z - 1]
    <2>1. n \in Nat /\ 1..(up - low + 1) = 1..n
      OBVIOUS
    <2>2. \A z \in 1..n : low + t.first + z - 1 \in Nat
      BY <1>1, <1>3, <2>1
    <2> HIDE DEF n
    <2>3. f \in Seq(Nat \cup {-1})
      BY <2>1, <2>2
    <2> QED
      BY <1>3, <2>1, <2>3 DEF Numbers
  <1> QED
    BY <1>2, <1>3

LEMMA TypesParseToken ==
  ASSUME Types, ParseToken
  PROVE  Types'
  <1>1. /\ node \in Nodes /\ NUMA_NODES # 1 /\ node + 1 \in DOMAIN config.hw
        /\ config.hw \in Seq(Seq(Tokens))
    BY ConfigTypes DEF ParseToken, Types, Progress, OneNode
  <1> DEFINE t == config.hw[node + 1][token]
  <1>2. t \in Tokens /\ t.first \in Nat /\ t.last \in Nat
    <2>1. config.hw[node + 1] \in Seq(Tokens)
      BY <1>1
    <2>2. token \in 1..Len(config.hw[node + 1])
      <3>1. token \in Nat \ {0} /\ token <= Len(config.hw[node + 1])
        BY DEF ParseToken, Types
      <3> QED
        BY <2>1, <3>1
    <2>3. t \in Tokens
      BY <2>1, <2>2
    <2> QED
      BY <2>3 DEF Tokens
  <1> HIDE DEF t
  <1>3. lower' \in Nat \cup {-1} /\ upper' \in Nat \cup {-1}
    BY <1>2 DEF ParseToken, Types, t
  <1>4. cpu_id_per_numa_node' = [cpu_id_per_numa_node EXCEPT ![node] = @ \o Numbers(t, lower', upper')]
    BY DEF ParseToken, Numbers, t
  <1>5. cpu_id_per_numa_node' \in [Nodes -> Seq(Nat \cup {-1})]
    <2>1. Numbers(t, lower', upper') \in Seq(Nat \cup {-1})
      BY <1>2, <1>3, NumbersTypes
    <2>2. cpu_id_per_numa_node[node] \in Seq(Nat \cup {-1})
      BY <1>1 DEF Types
    <2>3. cpu_id_per_numa_node[node] \o Numbers(t, lower', upper') \in Seq(Nat \cup {-1})
      BY <2>1, <2>2
    <2> QED
      BY <1>4, <2>3 DEF Types
  <1>6. config' = config
    BY DEF ParseToken
  <1>7. Infos' = Infos
    BY <1>6, SameConfig DEF Infos
  <1>8. Progress' /\ OneNode'
    BY <1>1, <1>6, SameConfig DEF ParseToken, Types, Progress, OneNode, Done
  <1> QED
    <2>1. /\ token' \in Nat \ {0}
          /\ UNCHANGED <<phase, node, current_min, numaNodeRound, numaNodeInit, c, min, max, startup_info>>
      <3>1. token \in Nat \ {0} /\ token' = token + 1
        BY DEF ParseToken, Types
      <3>2. token' \in Nat \ {0}
        BY <3>1
      <3>3. UNCHANGED <<phase, node, current_min, numaNodeRound, numaNodeInit, c, min, max, startup_info>>
        BY DEF ParseToken
      <3> QED
        BY <3>2, <3>3
    <2> QED
      BY <1>3, <1>5, <1>6, <1>7, <1>8, <2>1, SameConfig DEF Types

LEMMA TypesNextNode ==
  ASSUME Types, NextNode
  PROVE  Types'
  <1>1. node \in Nodes /\ NUMA_NODES # 1 /\ NUMA_NODES \in Nat
    BY ConfigTypes DEF NextNode, Types, Progress, OneNode
  <1>2. config' = config
    BY DEF NextNode
  <1>3. node' \in 0..NUMA_NODES /\ (phase' = "parse" => node' \in Nodes)
    BY <1>1 DEF NextNode, Nodes
  <1>4. Infos' = Infos
    BY <1>2, SameConfig DEF Infos
  <1>5. Progress' /\ OneNode'
    BY <1>1, <1>2, <1>3, SameConfig DEF NextNode, Types, Progress, OneNode, Done
  <1> QED
    BY <1>2, <1>3, <1>4, <1>5, SameConfig DEF NextNode, Types

LEMMA TypesElse ==
  ASSUME Types, Start \/ UNCHANGED vars
  PROVE  Types'
  <1>1. /\ UNCHANGED <<config, node, token, lower, upper, cpu_id_per_numa_node, current_min,
                       numaNodeRound, numaNodeInit, c, min, max, startup_info>>
        /\ phase' = phase \/ (phase' = "done" /\ Len(startup_info) = THREADS)
    BY DEF Start, vars, parser
  <1>2. Infos' = Infos
    BY <1>1, SameConfig DEF Infos
  <1>3. Progress' /\ OneNode'
    BY <1>1, SameConfig DEF Types, Progress, OneNode, Done
  <1> QED
    BY <1>1, <1>2, <1>3, SameConfig DEF Types

LEMMA TypesAtFirst == Init => Types
  <1> SUFFICES ASSUME Init PROVE Types
    OBVIOUS
  <1>1. ConfigOK
    BY DEF Init, ConfigOK, THREADS
  <1>2. /\ 0 \in Nodes /\ OBJECTS \in Nat \ {0} /\ THREADS \in Nat \ {0} /\ NUMA_NODES \in Nat \ {0}
        /\ 0 \in Objects /\ OBJECTS - 1 \in Objects
    BY <1>1, ConfigTypes DEF Objects
  <1>3. [i \in 1..Cardinality(CPUs) |-> i - 1] \in Seq(Nat \cup {-1})
    <2>1. Cardinality(CPUs) \in Nat
      BY <1>1, CPUsFinite
    <2> QED
      BY <2>1
  <1>4. cpu_id_per_numa_node \in [Nodes -> Seq(Nat \cup {-1})]
    <2> DEFINE all == [i \in 1..Cardinality(CPUs) |-> i - 1]
    <2> HIDE DEF all
    <2>1. cpu_id_per_numa_node = [n \in Nodes |-> IF NUMA_NODES = 1 THEN all ELSE <<>>]
      BY DEF Init, all
    <2>2. all \in Seq(Nat \cup {-1}) /\ <<>> \in Seq(Nat \cup {-1})
      BY <1>3 DEF all
    <2> QED
      BY <2>1, <2>2
  <1>5. startup_info \in Seq(Infos) /\ Len(startup_info) = 0
    BY DEF Init
  <1>6. Progress /\ OneNode
    BY <1>2, <1>5 DEF Init, Progress, OneNode, Done
  <1> QED
    BY <1>1, <1>2, <1>4, <1>5, <1>6 DEF Init, Types

-----------------------------------------------------------------------------
(* The objects of the threads *)

\* The threads set up so far start the objects before current_min, each once.
Chunks ==
    /\ current_min = Len(startup_info) * Share
    /\ \A i \in DOMAIN startup_info : \A o \in StartedBy(i) :
          /\ o \in Objects /\ o < current_min
          /\ \A j \in DOMAIN startup_info : o \in StartedBy(j) => i = j
    /\ \A o \in Objects : o < current_min => \E i \in DOMAIN startup_info : o \in StartedBy(i)

\* One more thread starts the objects from current_min to maxID.
LEMMA OneMoreThread ==
  ASSUME Types, SetupThread
  PROVE  \E last \in Nat :
            /\ last \notin DOMAIN startup_info
            /\ DOMAIN startup_info' = DOMAIN startup_info \cup {last}
            /\ \A i \in DOMAIN startup_info : startup_info'[i] = startup_info[i] /\ StartedBy(i)' = StartedBy(i)
            /\ StartedBy(last)' = current_min..maxID
            /\ startup_info'[last].numaNodePerObjects = numaNodeInit
            /\ Len(startup_info') = Len(startup_info) + 1
            /\ current_min' = current_min + Share
  <1>1. PICK info \in Infos :
            /\ startup_info' = Append(startup_info, info)
            /\ info.minID = current_min /\ info.maxID = maxID
            /\ info.numaNodePerObjects = numaNodeInit
    BY ThreadSetUp
  <1>2. startup_info \in Seq(Infos)
    BY DEF Types
  <1>3. PICK last \in Nat : last = Len(startup_info) + 1
    BY <1>2
  <1>4. /\ last \in Nat /\ last \notin DOMAIN startup_info
        /\ DOMAIN startup_info' = DOMAIN startup_info \cup {last}
        /\ startup_info'[last] = info /\ Len(startup_info') = last
        /\ \A i \in DOMAIN startup_info : startup_info'[i] = startup_info[i]
    BY <1>1, <1>2, <1>3
  <1>5. /\ StartedBy(last)' = current_min..maxID
        /\ \A i \in DOMAIN startup_info : StartedBy(i)' = StartedBy(i)
    <2>1. StartedBy(last)' = startup_info'[last].minID..startup_info'[last].maxID
      BY DEF StartedBy
    <2>2. ASSUME NEW i \in DOMAIN startup_info PROVE StartedBy(i)' = StartedBy(i)
      BY <1>4 DEF StartedBy
    <2> QED
      BY <1>1, <1>4, <2>1, <2>2
  <1>6. current_min' = current_min + Share
    BY ThreadSetUp
  <1>7. Len(startup_info') = Len(startup_info) + 1
    BY <1>4, <1>3
  <1>8. startup_info'[last].numaNodePerObjects = numaNodeInit
    BY <1>1, <1>4
  <1> QED
    BY <1>4, <1>5, <1>6, <1>7, <1>8

LEMMA ChunksSetupThread ==
  ASSUME Types, Chunks, SetupThread
  PROVE  Chunks'
  <1>1. PICK last \in Nat :
            /\ last \notin DOMAIN startup_info
            /\ DOMAIN startup_info' = DOMAIN startup_info \cup {last}
            /\ \A i \in DOMAIN startup_info : StartedBy(i)' = StartedBy(i)
            /\ StartedBy(last)' = current_min..maxID
            /\ Len(startup_info') = Len(startup_info) + 1
            /\ current_min' = current_min + Share
    BY OneMoreThread
  <1>2. /\ config' = config /\ current_min \in Nat /\ Share \in Nat \ {0} /\ OBJECTS \in Nat \ {0}
        /\ maxID \in Objects /\ maxID < current_min + Share
        /\ maxID = current_min + Share - 1 \/ maxID = OBJECTS - 1
        /\ Len(startup_info) \in Nat
    <2>1. ConfigOK /\ current_min \in Nat /\ startup_info \in Seq(Infos)
      BY DEF Types
    <2>2. config' = config
      BY ThreadSetUp
    <2> QED
      BY <2>1, <2>2, ConfigTypes, ShareTypes, LastIsObject
  <1>3. Objects' = Objects /\ Share' = Share
    BY <1>2, SameConfig
  <1>4. current_min' = Len(startup_info') * Share'
    BY <1>1, <1>2, <1>3 DEF Chunks
  <1>5. \A o \in current_min..maxID : o \in Objects /\ o >= current_min /\ o < current_min'
    BY <1>1, <1>2 DEF Objects
  <1>6. \A o \in Objects : o < current_min' => o < current_min \/ o \in current_min..maxID
    BY <1>1, <1>2 DEF Objects
  <1>7. \A o \in Objects : o < current_min => o < current_min' /\ ~(o >= current_min)
    BY <1>1, <1>2 DEF Objects
  <1>8. \A i \in DOMAIN startup_info' : \A o \in StartedBy(i)' :
            /\ o \in Objects /\ o < current_min'
            /\ \A j \in DOMAIN startup_info' : o \in StartedBy(j)' => i = j
    <2> TAKE i \in DOMAIN startup_info'
    <2> TAKE o \in StartedBy(i)'
    <2>1. CASE i = last
      <3>1. o \in current_min..maxID
        BY <1>1, <2>1
      <3>2. \A j \in DOMAIN startup_info : o \notin StartedBy(j)
        BY <1>5, <1>7, <3>1 DEF Chunks
      <3> QED
        BY <1>1, <1>5, <2>1, <3>1, <3>2
    <2>2. CASE i \in DOMAIN startup_info
      <3>1. o \in StartedBy(i)
        BY <1>1, <2>2
      <3>2. /\ o \in Objects /\ o < current_min
            /\ \A j \in DOMAIN startup_info : o \in StartedBy(j) => i = j
        BY <2>2, <3>1 DEF Chunks
      <3>3. o \notin current_min..maxID
        BY <1>5, <1>7, <3>2
      <3> QED
        BY <1>1, <1>7, <3>2, <3>3
    <2> QED
      BY <1>1, <2>1, <2>2
  <1>9. \A o \in Objects : o < current_min' => \E i \in DOMAIN startup_info' : o \in StartedBy(i)'
    <2> SUFFICES ASSUME NEW o \in Objects, o < current_min'
                 PROVE  \E i \in DOMAIN startup_info' : o \in StartedBy(i)'
      OBVIOUS
    <2>1. CASE o < current_min
      <3>1. PICK i \in DOMAIN startup_info : o \in StartedBy(i)
        BY <2>1 DEF Chunks
      <3> QED
        BY <1>1, <3>1
    <2>2. CASE o \in current_min..maxID
      BY <1>1, <2>2
    <2> QED
      BY <1>6, <2>1, <2>2
  <1> QED
    BY <1>3, <1>4, <1>8, <1>9 DEF Chunks

LEMMA ChunksStay ==
  ASSUME Chunks, UNCHANGED <<config, current_min, startup_info>>
  PROVE  Chunks'
  BY SameConfig DEF Chunks, StartedBy

LEMMA ChunksAtFirst == Init => Chunks
  <1> SUFFICES ASSUME Init PROVE Chunks
    OBVIOUS
  <1>1. Share \in Nat \ {0} /\ startup_info = <<>> /\ current_min = 0
    BY TypesAtFirst, ShareTypes DEF Init, Types
  <1>2. Len(startup_info) = 0 /\ DOMAIN startup_info = {}
    BY <1>1
  <1> QED
    BY <1>1, <1>2 DEF Chunks, Objects

LEMMA AlwaysChunks == Spec => [](Types /\ Chunks)
  <1>1. Types /\ Chunks /\ [Next]_vars => Types' /\ Chunks'
    <2> SUFFICES ASSUME Types, Chunks, [Next]_vars PROVE Types' /\ Chunks'
      OBVIOUS
    <2>1. CASE ParseToken
      BY <2>1, TypesParseToken, ChunksStay DEF ParseToken
    <2>2. CASE NextNode
      BY <2>2, TypesNextNode, ChunksStay DEF NextNode
    <2>3. CASE SetupThread
      BY <2>3, TypesSetupThread, ChunksSetupThread
    <2>4. CASE Start \/ UNCHANGED vars
      BY <2>4, TypesElse, ChunksStay DEF Start, vars
    <2> QED
      BY <2>1, <2>2, <2>3, <2>4 DEF Next
  <1> QED
    BY <1>1, TypesAtFirst, ChunksAtFirst, PTL DEF Spec

\* When all threads are set up, each of the objects gets its INIT event, from one
\* thread only (engine.c:127), however many objects and threads there are: the
\* rounded-up share is enough, and the last threads may have no object at all.
THEOREM ObjectsStartedOnce == Spec => []EveryObjectStartedOnce
  <1>1. Types /\ Chunks => EveryObjectStartedOnce
    <2> SUFFICES ASSUME Types, Chunks, Done, NEW o \in Objects
                 PROVE  Cardinality({i \in DOMAIN startup_info : o \in StartedBy(i)}) = 1
      BY DEF EveryObjectStartedOnce
    <2>1. current_min >= OBJECTS
      BY ShareTypes DEF Types, Progress, Chunks
    <2>2. o < current_min
      <3>1. OBJECTS \in Nat /\ current_min \in Nat /\ o \in 0..(OBJECTS - 1)
        BY ConfigTypes DEF Types, Objects
      <3> QED
        BY <2>1, <3>1
    <2>3. PICK i \in DOMAIN startup_info : o \in StartedBy(i)
      BY <2>2 DEF Chunks
    <2>4. {j \in DOMAIN startup_info : o \in StartedBy(j)} = {i}
      BY <2>3 DEF Chunks
    <2> QED
      BY <2>4, FS_Singleton
  <1> QED
    BY <1>1, AlwaysChunks, PTL

-----------------------------------------------------------------------------
(* The objects of the nodes *)

\* The first object that no thread has been given yet, when there is one.
Frontier == IF current_min < OBJECTS THEN current_min ELSE OBJECTS

\* The nodes opened so far host the objects before the frontier, each once; the
\* current node hosts those just before it, the nodes after it host none yet.
Ranges ==
    /\ \A n \in Nodes : n > numaNodeInit => c[n] = 0 /\ min[n] = 0
    /\ \A n \in Nodes : min[n] + c[n] <= Frontier
    /\ min[numaNodeInit] + c[numaNodeInit] = Frontier
    /\ \A o \in Objects : o < current_min => \E n \in Nodes : o \in HostedOn(n)
    /\ \A m, n \in Nodes : \A o \in HostedOn(m) : o \in HostedOn(n) => m = n
    /\ \A i \in DOMAIN startup_info : StartedBy(i) \subseteq HostedOn(startup_info[i].numaNodePerObjects)

Hosting == NUMA_NODES > 1 => Ranges

\* What the current node hosts grows by the objects of the thread.
LEMMA HostedMore ==
  ASSUME Types, Ranges, SetupThread, NUMA_NODES > 1
  PROVE  /\ \A n \in Nodes : HostedOn(n)' = IF n = numaNodeInit THEN HostedOn(n) \cup (current_min..maxID)
                                                                 ELSE HostedOn(n)
         /\ \A n \in Nodes : n > numaNodeInit' => c'[n] = 0 /\ min'[n] = 0
         /\ \A n \in Nodes : min'[n] + c'[n] <= Frontier'
         /\ min'[numaNodeInit'] + c'[numaNodeInit'] = Frontier'
  <1>1. /\ config' = config /\ current_min \in Nat /\ Share \in Nat \ {0} /\ OBJECTS \in Nat \ {0}
        /\ maxID \in Nat /\ maxID <= OBJECTS - 1 /\ maxID < current_min + Share
        /\ maxID = current_min + Share - 1 \/ maxID = OBJECTS - 1
        /\ current_min' = current_min + Share
        /\ numaNodeInit \in Nodes /\ Nodes \subseteq Nat
    <2>1. ConfigOK /\ current_min \in Nat /\ numaNodeInit \in Nodes
      BY DEF Types
    <2>2. config' = config /\ current_min' = current_min + Share
      BY ThreadSetUp
    <2>3. maxID \in Objects
      BY <2>1, LastIsObject
    <2> QED
      BY <2>1, <2>2, <2>3, ConfigTypes, ShareTypes, LastIsObject DEF Objects, Nodes
  <1>2. OBJECTS' = OBJECTS /\ Nodes' = Nodes
    BY <1>1, SameConfig
  <1>3. \A n \in Nodes : c[n] \in Nat /\ min[n] \in Nat
    BY DEF Types
  <1>4. HostObjects
    BY DEF SetupThread
  <1>5. CASE maxID < current_min
    <2>1. UNCHANGED <<c, min, numaNodeInit>>
      BY <1>4, <1>5 DEF HostObjects
    <2>2. current_min >= OBJECTS /\ Frontier' = Frontier
      BY <1>1, <1>2, <1>5 DEF Frontier
    <2>3. current_min..maxID = {}
      BY <1>1, <1>5
    <2>4. \A n \in Nodes : HostedOn(n)' = HostedOn(n)
      BY <2>1 DEF HostedOn
    <2> QED
      BY <2>1, <2>2, <2>3, <2>4 DEF Ranges
  <1>6. CASE maxID >= current_min
    <2>1. /\ c' = [c EXCEPT ![numaNodeInit] = @ + (maxID - current_min + 1)]
          /\ \/ \E n \in NodeAt(maxID) :
                   /\ n > numaNodeInit /\ numaNodeInit' = numaNodeInit + 1
                   /\ min' = [min EXCEPT ![numaNodeInit + 1] = FirstAfter(maxID)]
             \/ UNCHANGED <<numaNodeInit, min>>
      BY <1>1, <1>4, <1>6 DEF HostObjects
    <2>2. Frontier = current_min /\ Frontier' = maxID + 1
      BY <1>1, <1>2, <1>6 DEF Frontier
    <2>3. /\ c'[numaNodeInit] = c[numaNodeInit] + (maxID - current_min + 1)
          /\ \A n \in Nodes \ {numaNodeInit} : c'[n] = c[n]
      BY <1>1, <2>1 DEF Types
    <2>4. \/ numaNodeInit' = numaNodeInit /\ min' = min
          \/ /\ numaNodeInit' = numaNodeInit + 1 /\ numaNodeInit + 1 \in Nodes
             /\ min'[numaNodeInit + 1] = maxID + 1
             /\ \A n \in Nodes \ {numaNodeInit + 1} : min'[n] = min[n]
      <3>1. CASE UNCHANGED <<numaNodeInit, min>>
        BY <3>1
      <3>2. ASSUME NEW n \in NodeAt(maxID), n > numaNodeInit, numaNodeInit' = numaNodeInit + 1,
                   min' = [min EXCEPT ![numaNodeInit + 1] = FirstAfter(maxID)]
            PROVE  /\ numaNodeInit' = numaNodeInit + 1 /\ numaNodeInit + 1 \in Nodes
                   /\ min'[numaNodeInit + 1] = maxID + 1
                   /\ \A m \in Nodes \ {numaNodeInit + 1} : min'[m] = min[m]
        <4>1. ConfigOK /\ maxID \in Objects /\ NUMA_NODES \in Nat
          BY <1>1, LastIsObject, ConfigTypes DEF Types
        <4>2. n \in Int /\ n <= NUMA_NODES - 1
          BY <4>1, NodesOf
        <4>3. numaNodeInit + 1 \in Nodes
          BY <1>1, <3>2, <4>1, <4>2 DEF Nodes
        <4> QED
          BY <3>2, <4>3 DEF Types, FirstAfter
      <3> QED
        BY <2>1, <3>1, <3>2
    <2>5. min'[numaNodeInit] = min[numaNodeInit]
      BY <1>1, <2>4
    <2>6. min[numaNodeInit] + c[numaNodeInit] = current_min
      BY <2>2 DEF Ranges
    <2>7. ASSUME NEW n \in Nodes, n = numaNodeInit
          PROVE  HostedOn(n)' = HostedOn(n) \cup (current_min..maxID)
      <3>1. min'[n] = min[n] /\ c'[n] = c[n] + (maxID - current_min + 1) /\ min[n] + c[n] = current_min
        BY <2>3, <2>5, <2>6, <2>7
      <3>2. min[n] \in Nat /\ c[n] \in Nat
        BY <1>3
      <3>3. /\ min[n] + c[n] - 1 = current_min - 1
            /\ min'[n] + c'[n] - 1 = maxID
        BY <1>1, <3>1, <3>2
      <3>4. min[n]..maxID = (min[n]..(current_min - 1)) \cup (current_min..maxID)
        BY <1>1, <1>6, <3>1, <3>2
      <3> QED
        BY <3>1, <3>3, <3>4 DEF HostedOn
    <2>8. ASSUME NEW n \in Nodes, n # numaNodeInit
          PROVE  HostedOn(n)' = HostedOn(n)
      <3>1. c'[n] = c[n] /\ c[n] \in Nat /\ min[n] \in Nat
        BY <1>3, <2>3, <2>8
      <3>2. CASE min'[n] = min[n]
        BY <3>1, <3>2 DEF HostedOn
      <3>3. CASE n = numaNodeInit + 1 /\ min'[n] = maxID + 1
        <4>1. c[n] = 0
          <5>1. n > numaNodeInit
            BY <1>1, <3>3
          <5> QED
            BY <5>1 DEF Ranges
        <4>2. HostedOn(n) = {} /\ HostedOn(n)' = {}
          BY <1>1, <3>1, <3>3, <4>1 DEF HostedOn
        <4> QED
          BY <4>2
      <3> QED
        BY <2>4, <2>8, <3>2, <3>3
    <2>9. ASSUME NEW n \in Nodes, n > numaNodeInit'
          PROVE  c'[n] = 0 /\ min'[n] = 0
      <3>1. n > numaNodeInit /\ n # numaNodeInit /\ n \in Nat
        BY <1>1, <2>4, <2>9
      <3>2. c[n] = 0 /\ min[n] = 0
        BY <3>1 DEF Ranges
      <3>3. min'[n] = min[n]
        BY <1>1, <2>4, <2>9
      <3> QED
        BY <2>3, <3>1, <3>2, <3>3
    <2>10. ASSUME NEW n \in Nodes
           PROVE  min'[n] + c'[n] <= Frontier'
      <3>1. c[n] \in Nat /\ min[n] \in Nat /\ min[n] + c[n] <= current_min
        BY <1>3, <2>2 DEF Ranges
      <3>2. CASE n = numaNodeInit
        BY <1>1, <2>2, <2>3, <2>5, <2>6, <3>1, <3>2
      <3>3. CASE n # numaNodeInit /\ min'[n] = min[n]
        BY <1>1, <1>6, <2>2, <2>3, <3>1, <3>3
      <3>4. CASE n = numaNodeInit + 1 /\ min'[n] = maxID + 1
        <4>1. c'[n] = 0
          BY <1>1, <2>3, <3>4 DEF Ranges
        <4> QED
          BY <1>1, <2>2, <3>4, <4>1
      <3> QED
        BY <2>4, <3>2, <3>3, <3>4
    <2>11. min'[numaNodeInit'] + c'[numaNodeInit'] = Frontier'
      <3>1. CASE numaNodeInit' = numaNodeInit
        BY <1>1, <1>3, <2>2, <2>3, <2>5, <2>6, <3>1
      <3>2. CASE numaNodeInit' = numaNodeInit + 1 /\ numaNodeInit + 1 \in Nodes
                 /\ min'[numaNodeInit + 1] = maxID + 1
        <4>1. c'[numaNodeInit + 1] = 0
          BY <1>1, <2>3, <3>2 DEF Ranges
        <4> QED
          BY <1>1, <2>2, <3>2, <4>1
      <3> QED
        BY <2>4, <3>1, <3>2
    <2> QED
      BY <2>7, <2>8, <2>9, <2>10, <2>11
  <1> QED
    BY <1>1, <1>5, <1>6

LEMMA RangesSetupThread ==
  ASSUME Types, Chunks, Ranges, SetupThread, NUMA_NODES > 1
  PROVE  Ranges'
  <1>1. PICK last \in Nat :
            /\ last \notin DOMAIN startup_info
            /\ DOMAIN startup_info' = DOMAIN startup_info \cup {last}
            /\ \A i \in DOMAIN startup_info : startup_info'[i] = startup_info[i] /\ StartedBy(i)' = StartedBy(i)
            /\ StartedBy(last)' = current_min..maxID
            /\ startup_info'[last].numaNodePerObjects = numaNodeInit
            /\ current_min' = current_min + Share
    BY OneMoreThread
  <1>2. /\ config' = config /\ current_min \in Nat /\ Share \in Nat \ {0} /\ OBJECTS \in Nat \ {0}
        /\ maxID \in Objects
        /\ maxID = current_min + Share - 1 \/ maxID = OBJECTS - 1
        /\ numaNodeInit \in Nodes
    <2>1. ConfigOK /\ current_min \in Nat /\ numaNodeInit \in Nodes
      BY DEF Types
    <2>2. config' = config
      BY ThreadSetUp
    <2> QED
      BY <2>1, <2>2, ConfigTypes, ShareTypes, LastIsObject
  <1>3. Objects' = Objects /\ Nodes' = Nodes
    BY <1>2, SameConfig
  <1>4. \A n \in Nodes : HostedOn(n)' = IF n = numaNodeInit THEN HostedOn(n) \cup (current_min..maxID)
                                                            ELSE HostedOn(n)
    BY HostedMore
  <1>5. \A o \in current_min..maxID, n \in Nodes : o \notin HostedOn(n)
    <2> TAKE o \in current_min..maxID, n \in Nodes
    <2>1. c[n] \in Nat /\ min[n] \in Nat
      BY DEF Types
    <2>2. min[n] + c[n] <= Frontier /\ Frontier <= current_min
      BY <1>2 DEF Ranges, Frontier
    <2>3. o \in Nat /\ o >= current_min /\ Frontier \in Nat
      BY <1>2 DEF Objects, Frontier
    <2> QED
      BY <1>2, <2>1, <2>2, <2>3 DEF HostedOn
  <1>6. \A o \in Objects : o < current_min' => \E n \in Nodes : o \in HostedOn(n)'
    <2> SUFFICES ASSUME NEW o \in Objects, o < current_min'
                 PROVE  \E n \in Nodes : o \in HostedOn(n)'
      OBVIOUS
    <2>1. CASE o < current_min
      <3>1. PICK n \in Nodes : o \in HostedOn(n)
        BY <2>1 DEF Ranges
      <3>2. o \in HostedOn(n)'
        BY <1>4, <3>1
      <3> QED
        BY <3>2
    <2>2. CASE ~(o < current_min)
      <3>1. o \in current_min..maxID
        BY <1>1, <1>2, <2>2 DEF Objects
      <3> QED
        BY <1>2, <1>4, <3>1
    <2> QED
      BY <2>1, <2>2
  <1>7. \A m, n \in Nodes : \A o \in HostedOn(m)' : o \in HostedOn(n)' => m = n
    <2> TAKE m, n \in Nodes
    <2> TAKE o \in HostedOn(m)'
    <2>1. CASE o \in current_min..maxID
      BY <1>4, <1>5, <2>1
    <2>2. CASE o \notin current_min..maxID
      BY <1>4, <2>2 DEF Ranges
    <2> QED
      BY <2>1, <2>2
  <1>8. \A i \in DOMAIN startup_info' :
            StartedBy(i)' \subseteq HostedOn(startup_info[i].numaNodePerObjects)'
    <2> TAKE i \in DOMAIN startup_info'
    <2>1. PICK n \in Nodes : n = startup_info'[i].numaNodePerObjects
      <3>1. startup_info' \in Seq(Infos') /\ Infos' = Infos
        BY <1>2, TypesSetupThread, SameConfig DEF Types, Infos
      <3>2. startup_info'[i] \in Infos
        BY <3>1
      <3> QED
        BY <3>2 DEF Infos
    <2>2. HostedOn(startup_info[i].numaNodePerObjects)' = HostedOn(n)'
      BY <2>1 DEF HostedOn
    <2>3. StartedBy(i)' \subseteq HostedOn(n)'
      <3>1. CASE i = last
        BY <1>1, <1>4, <2>1, <3>1
      <3>2. CASE i \in DOMAIN startup_info
        <4>1. StartedBy(i) \subseteq HostedOn(n)
          BY <1>1, <2>1, <3>2 DEF Ranges
        <4> QED
          BY <1>1, <1>4, <3>2, <4>1
      <3> QED
        BY <1>1, <3>1, <3>2
    <2> QED
      BY <2>2, <2>3
  <1> QED
    BY <1>3, <1>6, <1>7, <1>8, HostedMore DEF Ranges

LEMMA HostingStays ==
  ASSUME Hosting, UNCHANGED <<config, current_min, numaNodeInit, c, min, startup_info>>
  PROVE  Hosting'
  <1>1. /\ NUMA_NODES' = NUMA_NODES /\ Nodes' = Nodes /\ Objects' = Objects /\ Frontier' = Frontier
        /\ \A n : HostedOn(n)' = HostedOn(n) /\ StartedBy(n)' = StartedBy(n)
    BY SameConfig DEF Frontier, HostedOn, StartedBy
  <1>2. \A i : HostedOn(startup_info[i].numaNodePerObjects)' = HostedOn(startup_info[i].numaNodePerObjects)
    BY DEF HostedOn
  <1> QED
    BY <1>1, <1>2 DEF Hosting, Ranges

LEMMA HostingAtFirst == Init => Hosting
  <1> SUFFICES ASSUME Init, NUMA_NODES > 1 PROVE Ranges
    BY DEF Hosting
  <1>1. /\ startup_info = <<>> /\ current_min = 0 /\ numaNodeInit = 0
        /\ c = [n \in Nodes |-> 0] /\ min = [n \in Nodes |-> 0]
        /\ 0 \in Nodes /\ Nodes \subseteq Nat /\ OBJECTS \in Nat \ {0}
    BY TypesAtFirst, ConfigTypes DEF Init, Types
  <1>2. Frontier = 0 /\ DOMAIN startup_info = {}
    BY <1>1 DEF Frontier
  <1>3. \A n \in Nodes : HostedOn(n) = {}
    BY <1>1 DEF HostedOn
  <1> QED
    BY <1>1, <1>2, <1>3 DEF Ranges, Objects

LEMMA AlwaysHosting == Spec => [](Types /\ Chunks /\ Hosting)
  <1>1. Types /\ Chunks /\ Hosting /\ [Next]_vars => Hosting'
    <2> SUFFICES ASSUME Types, Chunks, Hosting, [Next]_vars PROVE Hosting'
      OBVIOUS
    <2>1. CASE ParseToken \/ NextNode \/ Start \/ UNCHANGED vars
      BY <2>1, HostingStays DEF ParseToken, NextNode, Start, vars
    <2>2. CASE SetupThread
      <3>1. NUMA_NODES' = NUMA_NODES
        BY <2>2, ThreadSetUp, SameConfig
      <3> QED
        BY <2>2, <3>1, RangesSetupThread DEF Hosting
    <2> QED
      BY <2>1, <2>2 DEF Next
  <1> QED
    BY <1>1, HostingAtFirst, AlwaysChunks, PTL DEF Spec

\* The ranges min..min + c - 1 of the nodes stay within the objects and, in the
\* end, hold every object once and nothing else, together with all objects
\* of the threads that start them: the dispensers of the nodes (queue.c:391-399)
\* hand out each object once per epoch, whatever way the rounding of the ratio of
\* objects to nodes opens the next node.
THEOREM NodesShareOutObjects == Spec => []NodesPartitionObjects
  <1>1. Types /\ Chunks /\ Hosting => TypeOK
    <2> SUFFICES ASSUME Types, Chunks, Hosting PROVE c \in [Nodes -> 0..OBJECTS] /\ min \in [Nodes -> 0..OBJECTS]
      BY DEF Types, TypeOK, Infos
    <2>1. \A n \in Nodes : min[n] \in 0..OBJECTS /\ c[n] \in 0..OBJECTS
      <3> TAKE n \in Nodes
      <3>1. OBJECTS \in Nat /\ current_min \in Nat /\ min[n] \in Nat /\ c[n] \in Nat
        BY ConfigTypes DEF Types
      <3>2. CASE NUMA_NODES > 1
        <4>1. min[n] + c[n] <= Frontier
          BY <3>2 DEF Hosting, Ranges
        <4> QED
          BY <3>1, <4>1 DEF Frontier
      <3>3. CASE NUMA_NODES = 1
        <4>1. n = 0 /\ c[0] = OBJECTS /\ min[0] = 0
          BY <3>3 DEF Nodes, Types, OneNode
        <4> QED
          BY <3>1, <4>1
      <3>4. NUMA_NODES \in Nat \ {0}
        BY ConfigTypes DEF Types
      <3> QED
        BY <3>2, <3>3, <3>4
    <2> QED
      BY <2>1 DEF Types
  <1>2. ASSUME Types, Chunks, Hosting, Done
        PROVE  /\ \A o \in Objects : Cardinality({n \in Nodes : o \in HostedOn(n)}) = 1
               /\ \A n \in Nodes : HostedOn(n) \subseteq Objects
               /\ \A i \in DOMAIN startup_info :
                     StartedBy(i) \subseteq HostedOn(startup_info[i].numaNodePerObjects)
    <2>1. OBJECTS \in Nat \ {0} /\ current_min \in Nat /\ current_min >= OBJECTS /\ Nodes \subseteq Nat
      BY <1>2, ConfigTypes, ShareTypes DEF Types, Progress, Chunks
    <2>2. \A n \in Nodes : c[n] \in Nat /\ min[n] \in Nat
      BY <1>2 DEF Types
    <2>3. CASE NUMA_NODES > 1
      <3>1. Ranges /\ Frontier = OBJECTS
        BY <1>2, <2>1, <2>3 DEF Hosting, Frontier
      <3>2. ASSUME NEW o \in Objects PROVE Cardinality({n \in Nodes : o \in HostedOn(n)}) = 1
        <4>1. PICK n \in Nodes : o \in HostedOn(n)
          BY <2>1, <3>1 DEF Ranges, Objects
        <4>2. {m \in Nodes : o \in HostedOn(m)} = {n}
          BY <3>1, <4>1 DEF Ranges
        <4> QED
          BY <4>2, FS_Singleton
      <3>3. ASSUME NEW n \in Nodes PROVE HostedOn(n) \subseteq Objects
        <4>1. min[n] + c[n] <= OBJECTS
          BY <3>1 DEF Ranges
        <4> QED
          BY <2>1, <2>2, <4>1 DEF HostedOn, Objects
      <3> QED
        BY <3>1, <3>2, <3>3 DEF Ranges
    <2>4. CASE NUMA_NODES = 1
      <3>1. Nodes = {0} /\ HostedOn(0) = Objects
        BY <1>2, <2>1, <2>4 DEF Types, OneNode, Nodes, HostedOn, Objects
      <3>2. \A o \in Objects : {n \in Nodes : o \in HostedOn(n)} = {0}
        BY <3>1
      <3>3. \A o \in Objects : Cardinality({n \in Nodes : o \in HostedOn(n)}) = 1
        BY <3>2, FS_Singleton
      <3>4. ASSUME NEW i \in DOMAIN startup_info
            PROVE  StartedBy(i) \subseteq HostedOn(startup_info[i].numaNodePerObjects)
        <4>1. startup_info[i] \in Infos
          BY <1>2 DEF Types
        <4>2. startup_info[i].numaNodePerObjects = 0
          BY <3>1, <4>1 DEF Infos
        <4> QED
          BY <1>2, <3>1, <4>2 DEF Chunks
      <3> QED
        BY <3>1, <3>3, <3>4
    <2>5. NUMA_NODES \in Nat \ {0}
      BY <1>2, ConfigTypes DEF Types
    <2> QED
      BY <2>3, <2>4, <2>5
  <1>3. Types /\ Chunks /\ Hosting => NodesPartitionObjects
    BY <1>1, <1>2 DEF NodesPartitionObjects
  <1> QED
    BY <1>3, AlwaysHosting, PTL

-----------------------------------------------------------------------------
(* The CPUs of the threads *)

\* A CPU of a node is in its list, or was and is crossed out.
ListedOn(n) ==
    \A j \in DOMAIN cpu_id_per_numa_node[n] :
        /\ j \in DOMAIN config.hw[n + 1]
        /\ cpu_id_per_numa_node[n][j] \in {-1, config.hw[n + 1][j].first}

\* The parser has copied the lists of the nodes up to its token.
Parsed ==
    /\ \A n \in Nodes : ListedOn(n)
    /\ phase = "parse" =>
          /\ lower = -1
          /\ Len(cpu_id_per_numa_node[node]) = token - 1
          /\ \A n \in Nodes : n > node => Len(cpu_id_per_numa_node[n]) = 0

\* The CPU of a thread is one of the node's list, crossed out since.
CrossedOut(i) ==
    \E n \in Nodes : \E j \in DOMAIN cpu_id_per_numa_node[n] :
        /\ n = startup_info[i].numaNodeID
        /\ config.hw[n + 1][j].first = startup_info[i].cpuID
        /\ cpu_id_per_numa_node[n][j] = -1

OwnCPUs ==
    \A i, j \in DOMAIN startup_info : startup_info[i].cpuID = startup_info[j].cpuID => i = j

Pinning ==
    /\ NUMA_NODES > 1 => Parsed /\ (\A i \in DOMAIN startup_info : CrossedOut(i)) /\ OwnCPUs
    /\ NUMA_NODES = 1 => \A i \in DOMAIN startup_info : startup_info[i].cpuID = i - 1

LEMMA PlainConfig ==
  ASSUME PlainLists, ConfigOK, NUMA_NODES > 1
  PROVE  \A m, n \in Nodes : \A i \in DOMAIN config.hw[m + 1], j \in DOMAIN config.hw[n + 1] :
            /\ config.hw[m + 1][i].first = config.hw[m + 1][i].last
            /\ config.hw[m + 1][i].first = config.hw[n + 1][j].first => m = n /\ i = j
  <1>1. /\ \A n \in DOMAIN config.hw : \A i \in DOMAIN config.hw[n] :
              config.hw[n][i].first = config.hw[n][i].last
        /\ \A m, n \in DOMAIN config.hw : \A i \in DOMAIN config.hw[m], j \in DOMAIN config.hw[n] :
              config.hw[m][i].first = config.hw[n][j].first => m = n /\ i = j
    BY DEF PlainLists, ConfigOK, NUMA_NODES
  <1>2. \A n \in Nodes : n \in Nat /\ n + 1 \in DOMAIN config.hw
    BY ConfigTypes
  <1>3. \A m, n \in Nodes : m + 1 = n + 1 => m = n
    BY <1>2
  <1> QED
    BY <1>1, <1>2, <1>3

LEMMA OneMoreCPU ==
  ASSUME NEW S, NEW q \in Seq(S), NEW x \in S
  PROVE  /\ Len(q) \in Nat
         /\ Len(q \o <<x>>) = Len(q) + 1 /\ DOMAIN (q \o <<x>>) = DOMAIN q \cup {Len(q) + 1}
         /\ (q \o <<x>>)[Len(q) + 1] = x
         /\ \A j \in DOMAIN q : (q \o <<x>>)[j] = q[j]
  <1>1. q \o <<x>> = Append(q, x)
    OBVIOUS
  <1>2. /\ Len(Append(q, x)) = Len(q) + 1 /\ DOMAIN Append(q, x) = DOMAIN q \cup {Len(q) + 1}
        /\ Append(q, x)[Len(q) + 1] = x
        /\ \A j \in DOMAIN q : Append(q, x)[j] = q[j]
    OBVIOUS
  <1> QED
    BY <1>1, <1>2

LEMMA ParsedToken ==
  ASSUME PlainLists, Types, Parsed, NUMA_NODES > 1, ParseToken
  PROVE  Parsed'
  <1> DEFINE q == cpu_id_per_numa_node[node]
             t == config.hw[node + 1][token]
  <1>1. /\ node \in Nodes /\ config.hw[node + 1] \in Seq(Tokens) /\ token \in Nat \ {0}
        /\ token <= Len(config.hw[node + 1]) /\ Nodes \subseteq Nat
    <2>1. ConfigOK /\ token \in Nat \ {0} /\ node \in Nodes /\ token <= Len(config.hw[node + 1])
      BY DEF ParseToken, Types, Progress
    <2> QED
      BY <2>1, ConfigTypes
  <1>2. token \in DOMAIN config.hw[node + 1]
    BY <1>1
  <1>3. t.first = t.last /\ t.first \in Nat
    <2>1. t \in Tokens
      BY <1>1, <1>2
    <2> QED
      BY <1>1, <1>2, <2>1, PlainConfig DEF Types, Tokens
  <1>4. lower' = -1
    BY <1>3 DEF ParseToken, Parsed
  <1>5. cpu_id_per_numa_node' = [cpu_id_per_numa_node EXCEPT ![node] = @ \o <<t.first>>]
    BY <1>4 DEF ParseToken
  <1>6. q \in Seq(Nat \cup {-1}) /\ Len(q) = token - 1
    BY <1>1 DEF Types, Parsed, ParseToken
  <1> HIDE DEF q, t
  <1>7. /\ Len(q \o <<t.first>>) = token /\ DOMAIN (q \o <<t.first>>) = DOMAIN q \cup {token}
        /\ (q \o <<t.first>>)[token] = t.first
        /\ \A j \in DOMAIN q : (q \o <<t.first>>)[j] = q[j]
    <2>1. token \in Nat /\ t.first \in Nat \cup {-1} /\ Len(q) + 1 = token
      BY <1>1, <1>3, <1>6
    <2> HIDE DEF t
    <2> QED
      BY <1>6, <2>1, OneMoreCPU
  <1>8. /\ cpu_id_per_numa_node'[node] = q \o <<t.first>>
        /\ \A n \in Nodes \ {node} : cpu_id_per_numa_node'[n] = cpu_id_per_numa_node[n]
    BY <1>1, <1>5 DEF Types, q
  <1>9. /\ config' = config /\ node' = node /\ token' = token + 1 /\ phase' = phase
        /\ Nodes' = Nodes
    BY SameConfig DEF ParseToken
  <1>10. ASSUME NEW n \in Nodes PROVE ListedOn(n)'
    <2>1. CASE n # node
      BY <1>8, <1>9, <2>1 DEF Parsed, ListedOn
    <2>2. CASE n = node
      <3>1. \A j \in DOMAIN q : /\ j \in DOMAIN config.hw[node + 1]
                                /\ q[j] \in {-1, config.hw[node + 1][j].first}
        BY <1>1 DEF Parsed, ListedOn, q
      <3>2. \A j \in DOMAIN (q \o <<t.first>>) :
                /\ j \in DOMAIN config.hw[node + 1]
                /\ (q \o <<t.first>>)[j] \in {-1, config.hw[node + 1][j].first}
        BY <1>2, <1>7, <3>1 DEF t
      <3> QED
        BY <1>8, <1>9, <2>2, <3>2 DEF ListedOn
    <2> QED
      BY <2>1, <2>2
  <1>11. Len(cpu_id_per_numa_node'[node']) = token' - 1
    BY <1>1, <1>7, <1>8, <1>9
  <1>12. \A n \in Nodes : n > node' => Len(cpu_id_per_numa_node'[n]) = 0
    <2> SUFFICES ASSUME NEW n \in Nodes, n > node PROVE Len(cpu_id_per_numa_node'[n]) = 0
      BY <1>9
    <2>1. n # node
      BY <1>1
    <2>2. Len(cpu_id_per_numa_node[n]) = 0
      BY DEF Parsed, ParseToken
    <2> QED
      BY <1>8, <2>1, <2>2
  <1> QED
    BY <1>4, <1>9, <1>10, <1>11, <1>12 DEF Parsed

LEMMA ParsedNode ==
  ASSUME Types, Parsed, NextNode
  PROVE  Parsed'
  <1>1. /\ config' = config /\ cpu_id_per_numa_node' = cpu_id_per_numa_node /\ node' = node + 1
        /\ token' = 1 /\ lower' = -1 /\ (phase' = "parse" => node' < NUMA_NODES) /\ phase = "parse"
    BY DEF NextNode
  <1>2. Nodes' = Nodes /\ Nodes \subseteq Nat /\ node \in Nodes /\ NUMA_NODES \in Nat
    BY <1>1, SameConfig, ConfigTypes DEF Types, Progress
  <1>3. \A n \in Nodes : ListedOn(n)'
    BY <1>1 DEF Parsed, ListedOn
  <1>4. phase' = "parse" => Len(cpu_id_per_numa_node'[node']) = 0
    <2> SUFFICES ASSUME phase' = "parse" PROVE Len(cpu_id_per_numa_node[node + 1]) = 0
      BY <1>1
    <2>1. node + 1 \in Nodes /\ node + 1 > node
      BY <1>1, <1>2 DEF Nodes
    <2> QED
      BY <1>1, <2>1 DEF Parsed
  <1>5. \A n \in Nodes : n > node' => Len(cpu_id_per_numa_node'[n]) = 0
    BY <1>1, <1>2 DEF Parsed
  <1> QED
    BY <1>1, <1>2, <1>3, <1>4, <1>5 DEF Parsed

LEMMA PinningSetupThread ==
  ASSUME PlainLists, Types, Pinning, SetupThread
  PROVE  Pinning'
  <1>1. PICK info \in Infos :
            /\ startup_info' = Append(startup_info, info)
            /\ \/ /\ NUMA_NODES = 1
                  /\ info.cpuID = Len(startup_info)
               \/ /\ NUMA_NODES > 1
                  /\ \E n \in Nodes : \E j \in Free(n) :
                        /\ info.cpuID = cpu_id_per_numa_node[n][j] /\ info.numaNodeID = n
                        /\ cpu_id_per_numa_node' = Taken(n, j)
    BY ThreadSetUp
  <1>2. config' = config /\ phase = "threads" /\ phase' = phase /\ startup_info \in Seq(Infos)
    BY ThreadSetUp DEF Types
  <1>3. NUMA_NODES' = NUMA_NODES /\ Nodes' = Nodes /\ NUMA_NODES \in Nat \ {0}
    BY <1>2, SameConfig, ConfigTypes DEF Types
  <1>4. PICK last \in Nat : last = Len(startup_info) + 1
    BY <1>2
  <1>5. /\ DOMAIN startup_info' = DOMAIN startup_info \cup {last} /\ last \notin DOMAIN startup_info
        /\ startup_info'[last] = info
        /\ \A i \in DOMAIN startup_info : startup_info'[i] = startup_info[i]
    BY <1>1, <1>2, <1>4
  <1>6. CASE NUMA_NODES = 1
    <2>1. \A i \in DOMAIN startup_info : startup_info[i].cpuID = i - 1
      BY <1>6 DEF Pinning
    <2>2. info.cpuID = last - 1
      BY <1>1, <1>2, <1>4, <1>6
    <2> QED
      BY <1>3, <1>5, <1>6, <2>1, <2>2 DEF Pinning
  <1>7. CASE NUMA_NODES > 1
    <2>1. PICK n \in Nodes : \E j \in Free(n) :
              /\ info.cpuID = cpu_id_per_numa_node[n][j] /\ info.numaNodeID = n
              /\ cpu_id_per_numa_node' = Taken(n, j)
      BY <1>1, <1>7
    <2>2. PICK j \in Free(n) :
              /\ info.cpuID = cpu_id_per_numa_node[n][j] /\ info.numaNodeID = n
              /\ cpu_id_per_numa_node' = Taken(n, j)
      BY <2>1
    <2>3. /\ j \in DOMAIN cpu_id_per_numa_node[n] /\ cpu_id_per_numa_node[n][j] # -1
      BY DEF Free
    <2>4. /\ \A m \in Nodes : /\ DOMAIN cpu_id_per_numa_node'[m] = DOMAIN cpu_id_per_numa_node[m]
                             /\ \A k \in DOMAIN cpu_id_per_numa_node[m] :
                                   cpu_id_per_numa_node'[m][k] \in {-1, cpu_id_per_numa_node[m][k]}
          /\ cpu_id_per_numa_node'[n][j] = -1
      BY <2>2, <2>3 DEF Taken, Types
    <2>5. Parsed /\ (\A i \in DOMAIN startup_info : CrossedOut(i)) /\ OwnCPUs
      BY <1>7 DEF Pinning
    <2>6. Parsed'
      <3>1. \A m \in Nodes : ListedOn(m)'
        BY <1>2, <2>4, <2>5 DEF Parsed, ListedOn
      <3> QED
        BY <1>2, <1>3, <3>1 DEF Parsed
    <2>7. /\ j \in DOMAIN config.hw[n + 1] /\ config.hw[n + 1][j].first = info.cpuID
      BY <2>2, <2>3, <2>5 DEF Parsed, ListedOn
    <2>8. \A i \in DOMAIN startup_info' : CrossedOut(i)'
      <3> TAKE i \in DOMAIN startup_info'
      <3>1. CASE i = last
        BY <1>2, <1>3, <1>5, <2>2, <2>3, <2>4, <2>7, <3>1 DEF CrossedOut
      <3>2. CASE i \in DOMAIN startup_info
        <4>1. CrossedOut(i)
          BY <2>5, <3>2
        <4> QED
          BY <1>2, <1>3, <1>5, <2>4, <3>2, <4>1 DEF CrossedOut
      <3> QED
        BY <1>5, <3>1, <3>2
    <2>9. \A i \in DOMAIN startup_info : startup_info[i].cpuID # info.cpuID
      <3> SUFFICES ASSUME NEW i \in DOMAIN startup_info, startup_info[i].cpuID = info.cpuID PROVE FALSE
        OBVIOUS
      <3>1. PICK m \in Nodes : \E k \in DOMAIN cpu_id_per_numa_node[m] :
                /\ config.hw[m + 1][k].first = info.cpuID
                /\ cpu_id_per_numa_node[m][k] = -1
        BY <2>5 DEF CrossedOut
      <3>2. PICK k \in DOMAIN cpu_id_per_numa_node[m] :
                /\ config.hw[m + 1][k].first = info.cpuID
                /\ cpu_id_per_numa_node[m][k] = -1
        BY <3>1
      <3>3. k \in DOMAIN config.hw[m + 1]
        BY <2>5 DEF Parsed, ListedOn
      <3>4. m = n /\ k = j
        BY <1>7, <2>7, <3>2, <3>3, PlainConfig DEF Types
      <3> QED
        BY <2>3, <3>2, <3>4
    <2>10. OwnCPUs'
      BY <1>5, <2>5, <2>9 DEF OwnCPUs
    <2> QED
      BY <1>3, <1>7, <2>6, <2>8, <2>10 DEF Pinning
  <1> QED
    BY <1>3, <1>6, <1>7

LEMMA PinningElse ==
  ASSUME PlainLists, Types, Pinning, ParseToken \/ NextNode \/ Start \/ UNCHANGED vars
  PROVE  Pinning'
  <1>1. config' = config /\ startup_info' = startup_info
    BY DEF ParseToken, NextNode, Start, vars
  <1>2. NUMA_NODES' = NUMA_NODES /\ Nodes' = Nodes
    BY <1>1, SameConfig
  <1>3. CASE NUMA_NODES > 1 /\ (ParseToken \/ NextNode)
    <2>1. Parsed'
      BY <1>3, ParsedToken, ParsedNode DEF Pinning
    <2>2. DOMAIN startup_info' = {}
      <3>1. startup_info' = <<>>
        BY <1>1, <1>3 DEF Types, Progress, ParseToken, NextNode
      <3> QED
        BY <3>1
    <2>3. NUMA_NODES # 1
      BY <1>3
    <2> QED
      BY <1>2, <2>1, <2>2, <2>3 DEF Pinning, OwnCPUs
  <1>4. CASE Start \/ UNCHANGED vars
    <2>1. /\ UNCHANGED <<node, token, lower, cpu_id_per_numa_node>>
          /\ phase' = "parse" => phase = "parse"
      BY <1>4 DEF Start, vars, parser
    <2>2. \A n : ListedOn(n)' = ListedOn(n) /\ CrossedOut(n)' = CrossedOut(n)
      BY <1>1, <1>2, <2>1 DEF ListedOn, CrossedOut
    <2> QED
      BY <1>1, <1>2, <2>1, <2>2 DEF Pinning, Parsed, OwnCPUs
  <1>5. CASE ~(NUMA_NODES > 1)
    BY <1>1, <1>2, <1>5 DEF Pinning
  <1> QED
    BY <1>3, <1>4, <1>5

LEMMA PinningAtFirst == Init => Pinning
  <1> SUFFICES ASSUME Init PROVE Pinning
    OBVIOUS
  <1>1. DOMAIN startup_info = {}
    BY DEF Init
  <1>2. NUMA_NODES > 1 => Parsed
    <2> SUFFICES ASSUME NUMA_NODES > 1 PROVE Parsed
      OBVIOUS
    <2>1. NUMA_NODES # 1 /\ 0 \in Nodes
      BY TypesAtFirst, ConfigTypes DEF Types
    <2>2. \A n \in Nodes : cpu_id_per_numa_node[n] = <<>>
      BY <2>1 DEF Init
    <2>3. Len(<<>>) = 0 /\ DOMAIN <<>> = {}
      OBVIOUS
    <2> QED
      BY <2>1, <2>2, <2>3 DEF Init, Parsed, ListedOn
  <1> QED
    BY <1>1, <1>2 DEF Pinning, OwnCPUs

\* Each thread is pinned to a CPU of the node it is told (engine.c:34, 113), also
\* when the nodes run out of CPUs at different times, and no two threads to the
\* same one, provided that the lists of CPUs have no range and name each CPU once:
\* a range is expanded from twice its base (engine.c:267), and its threads are
\* pinned outside of their node.
THEOREM ThreadsStayOnTheirNodes ==
  ASSUME PlainLists
  PROVE  Spec => []PinnedToItsNode
  <1>1. Types /\ Pinning /\ [Next]_vars => Pinning'
    BY PinningSetupThread, PinningElse DEF Next
  <1>2. Types /\ Pinning => PinnedToItsNode
    <2> SUFFICES ASSUME Types, Pinning PROVE PinnedToItsNode
      OBVIOUS
    <2>1. ASSUME NUMA_NODES > 1, NEW i \in DOMAIN startup_info
          PROVE  startup_info[i].cpuID \in CPUsOf(startup_info[i].numaNodeID)
      <3>1. PICK n \in Nodes : \E j \in DOMAIN cpu_id_per_numa_node[n] :
                /\ n = startup_info[i].numaNodeID
                /\ config.hw[n + 1][j].first = startup_info[i].cpuID
        BY <2>1 DEF Pinning, CrossedOut
      <3>2. PICK j \in DOMAIN cpu_id_per_numa_node[n] :
                config.hw[n + 1][j].first = startup_info[i].cpuID
        BY <3>1
      <3>3. j \in DOMAIN config.hw[n + 1]
        BY <2>1 DEF Pinning, Parsed, ListedOn
      <3>4. config.hw[n + 1][j] \in Tokens
        <4>1. config.hw \in Seq(Seq(Tokens)) /\ n + 1 \in DOMAIN config.hw
          BY ConfigTypes DEF Types
        <4>2. config.hw[n + 1] \in Seq(Tokens)
          BY <4>1
        <4> QED
          BY <3>3, <4>2
      <3>5. config.hw[n + 1][j].first = config.hw[n + 1][j].last
        BY <2>1, <3>3, PlainConfig DEF Types
      <3>6. startup_info[i].cpuID \in config.hw[n + 1][j].first..config.hw[n + 1][j].last
        BY <3>2, <3>4, <3>5 DEF Tokens
      <3> QED
        BY <3>1, <3>3, <3>6 DEF CPUsOf
    <2>2. \A i, j \in DOMAIN startup_info : startup_info[i].cpuID = startup_info[j].cpuID => i = j
      <3>1. CASE NUMA_NODES > 1
        BY <3>1 DEF Pinning, OwnCPUs
      <3>2. CASE NUMA_NODES = 1
        <4>1. \A i \in DOMAIN startup_info : i \in Nat
          BY DEF Types
        <4> QED
          BY <3>2, <4>1 DEF Pinning
      <3>3. NUMA_NODES \in Nat \ {0}
        BY ConfigTypes DEF Types
      <3> QED
        BY <3>1, <3>2, <3>3
    <2> QED
      BY <2>1, <2>2 DEF PinnedToItsNode
  <1> QED
    BY <1>1, <1>2, PinningAtFirst, AlwaysChunks, PTL DEF Spec
=============================================================================
