--------------------------- MODULE MCNumaDispenser ---------------------------
(* Three threads on any of three nodes, which host three objects in all. *)
EXTENDS NumaDispenser

\* Consecutive ranges, as the start-up lays them out: node n + 1 starts where
\* node n ends, and a node that gets no object has the range 0 of nothing.
ConsecutiveLayouts ==
    {l \in [c : [Nodes -> Objects \cup {OBJECTS}], min : [Nodes -> Objects \cup {OBJECTS}]] :
        /\ l.c[0] + l.c[1] + l.c[2] = OBJECTS
        /\ l.min[0] = 0
        /\ l.min[1] = (IF l.c[1] = 0 THEN 0 ELSE l.c[0])
        /\ l.min[2] = (IF l.c[2] = 0 THEN 0 ELSE l.c[0] + l.c[1])}
=============================================================================
