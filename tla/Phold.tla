------------------------------- MODULE Phold -------------------------------
(***************************************************************************)
(* The PHOLD model (models/phold): an event schedules one for a random     *)
(* object, and works on the two lists of chunks its object holds: the      *)
(* first REALLOCATION chunks are freed and allocated anew, then each list  *)
(* is walked and written.                                                  *)
(***************************************************************************)
EXTENDS ModelEvents, Sequences, SequencesExt, Functions

CONSTANTS
    M,                  \* events per object
    CHUNKS_IN_LIST, REALLOCATION,
    P                   \* chunks of a list that an event writes

VARIABLE state          \* the lists p1 and p2 of every object

vars == <<events, state>>

\* A list: its head, the first word of each chunk (the next one), the chunks
\* given back to the allocator and the ones whose other words were written.
Chunks == 1..CHUNKS_IN_LIST
Null == 0
Loops(n) == [i \in 1..n |-> i]

Normal(from, to, due) == Event(from, to, "NORMAL", 0, due)

\* ProcessEvent, INIT, at every object.
Init ==
    /\ speculation \in BOOLEAN
    /\ now = 0
    /\ pending = [e \in {Normal(me, me, 0) : me \in Objects} |-> M]
    /\ state = [me \in Objects |-> [p \in {"p1", "p2"} |->
                   [head |-> CHUNKS_IN_LIST, next |-> [c \in Chunks |-> c - 1],
                    free |-> {}, written |-> {}]]]

(***************************************************************************)
(* dell1 and dell2 free the head of a list, if there is one.  add1 and     *)
(* add2 put the chunk malloc returned, any free one, in front.             *)
(***************************************************************************)
\* Mutant: the head moves before it is saved, and the chunk after it is freed.
DeletedNext(list) ==
    IF list.head = Null THEN list
    ELSE [list EXCEPT !.head = list.next[list.head], !.free = @ \cup {list.next[list.head]}]
Deleted(list) ==
    IF list.head = Null THEN list
    ELSE [list EXCEPT !.head = list.next[list.head], !.free = @ \cup {list.head}]

Added(list, chunk) ==
    [list EXCEPT !.head = chunk, !.next[chunk] = list.head, !.free = @ \ {chunk}]

Reallocations(list) ==
    LET shorter == FoldLeft(LAMBDA l, i : Deleted(l), list, Loops(REALLOCATION))
    IN  {FoldLeft(Added, shorter, mallocs) : mallocs \in Injection(1..REALLOCATION, shorter.free)}

(***************************************************************************)
(* update1 and update2.  The walk holds the address of a pointer, at first *)
(* that of the head.  It writes the chunk pointed to, except for its first *)
(* word, and goes on from the next chunk as if that were the address: what *)
(* it writes then is the chunk after it.  Every loop, and the one that     *)
(* finds count = P, reads the pointer first.                               *)
(***************************************************************************)
HeadOf == -1
Written(list) ==
    LET At(p) == IF p = HeadOf THEN list.head ELSE list.next[p]
        Step(walk, count) ==
            IF walk.p = Null THEN [walk EXCEPT !.crash = TRUE]
            ELSE IF At(walk.p) = Null \/ count > P THEN walk
            ELSE [walk EXCEPT !.p = list.next[At(walk.p)], !.written = @ \cup {At(walk.p)}]
    IN  FoldLeft(Step, [p |-> HeadOf, written |-> list.written, crash |-> FALSE], Loops(P + 1))

Updated(list) == [list EXCEPT !.written = Written(list).written]

(***************************************************************************)
(* NORMAL.  Without SPECULATION a delay too short is drawn again on top of *)
(* the lookahead.                                                          *)
(***************************************************************************)
ProcessNormal(e) ==
    /\ \E delay \in Delays, dest \in Objects :
          Handled(e, SetToBag({Normal(e.to, dest, Clamped(e.due, e.due + LOOKAHEAD) + delay)}))
    /\ \E p1 \in Reallocations(state[e.to].p1), p2 \in Reallocations(state[e.to].p2) :
          state' = [state EXCEPT ![e.to] = [p1 |-> Updated(p1), p2 |-> Updated(p2)]]

Next ==
    \/ \E e \in BagToSet(pending) : Earliest(e) /\ ProcessNormal(e)
    \/ NextWindow /\ UNCHANGED state

Spec == Init /\ [][Next]_vars

TypeOK ==
    /\ EventsTypeOK
    /\ \A me \in Objects, p \in {"p1", "p2"} :
          /\ state[me][p].head \in Chunks \cup {Null}
          /\ state[me][p].next \in [Chunks -> Chunks \cup {Null}]

(***************************************************************************)
(* However often chunks are freed and allocated, a list holds each of its  *)
(* chunks once and none that is free; and a walk along it never follows    *)
(* the end of the list.                                                    *)
(***************************************************************************)
ListsIntact ==
    \A me \in Objects, p \in {"p1", "p2"} :
        LET list == state[me][p]
            Nth[n \in 0..CHUNKS_IN_LIST] ==
                IF n = 0 THEN list.head
                ELSE IF Nth[n - 1] = Null THEN Null ELSE list.next[Nth[n - 1]]
        IN  /\ {Nth[n] : n \in 0..(CHUNKS_IN_LIST - 1)} = Chunks
            /\ Nth[CHUNKS_IN_LIST] = Null
            /\ list.free = {}
            /\ ~Written(list).crash

\* The population of events is the one PHOLD started with.
PopulationStays == BagCardinality(pending) = M * OBJECTS
=============================================================================
