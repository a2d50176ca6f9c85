------------------------------ MODULE MCStartup ------------------------------
(* Machines with one to six NUMA nodes, and all small numbers of objects and *)
(* threads on them. With six nodes the ratio of objects to nodes is rounded. *)
EXTENDS Startup

CPU(n) == [first |-> n, last |-> n]
CPURange(a, b) == [first |-> a, last |-> b]

\* CPUs numbered in turn over the nodes, and one node with a range from zero.
Interleaved ==
    {<<<<CPURange(0, 3)>>>>,
     <<<<CPU(0), CPU(2)>>, <<CPU(1), CPU(3)>>>>,
     <<<<CPU(0), CPU(3), CPU(4)>>, <<CPU(1)>>, <<CPU(2)>>>>,
     <<<<CPU(0), CPU(6)>>, <<CPU(1), CPU(7)>>, <<CPU(2), CPU(8)>>, <<CPU(3)>>, <<CPU(4)>>, <<CPU(5)>>>>}

InterleavedMachines == [objects : 1..12, threads : 1..9, hw : Interleaved]

ASSUME InterleavedArePlain == PlainLists
=============================================================================
