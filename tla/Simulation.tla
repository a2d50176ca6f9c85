----------------------------- MODULE Simulation -----------------------------
(***************************************************************************)
(* What a parallel simulation by windows of LOOKAHEAD ticks promises: the  *)
(* objects execute their events concurrently, each object its own in the   *)
(* order of their timestamps, and a window is left when nothing scheduled  *)
(* falls into it.  There are no queues, threads or barriers here: an event *)
(* is scheduled at the moment its cause is executed.                       *)
(***************************************************************************)
EXTENDS Naturals, Sequences, SequencesExt

CONSTANTS
    Objects,        \* simulation objects
    Kinds,          \* the events of a run
    LOOKAHEAD,      \* width of a window, in ticks
    Models          \* the simulation models: what each event schedules

\* A model schedules into the future, and for another object at least LOOKAHEAD
\* ahead; INIT may schedule anything for any object.
IsModel(m) ==
    /\ m \in [init : [Objects -> Seq(Kinds)], dest : [Kinds -> Objects],
              time : [Kinds -> Nat], next : [Kinds -> Seq(Kinds)]]
    /\ \A k \in Kinds : \A i \in DOMAIN m.next[k] :
          LET c == m.next[k][i]
          IN  /\ m.time[c] > m.time[k]
              /\ m.dest[c] # m.dest[k] => m.time[c] >= m.time[k] + LOOKAHEAD

SimulationAssumption ==
    /\ LOOKAHEAD \in Nat \ {0}
    /\ \A m \in Models : IsModel(m)

VARIABLES
    model,          \* the simulation model
    pending,        \* the events scheduled and not executed
    limit,          \* end of the current window
    executed        \* per object, the events executed so far

vars == <<model, pending, limit, executed>>

Init ==
    /\ model \in Models
    /\ pending = UNION {ToSet(model.init[o]) : o \in Objects}
    /\ limit = LOOKAHEAD
    /\ executed = [o \in Objects |-> <<>>]

\* An object executes the earliest of its events, which lies in the window.
Execute(k) ==
    LET o == model.dest[k]
    IN  /\ k \in pending
        /\ model.time[k] < limit
        /\ \A p \in pending : model.dest[p] = o => model.time[k] <= model.time[p]
        /\ executed' = [executed EXCEPT ![o] = Append(@, k)]
        /\ pending' = (pending \ {k}) \cup ToSet(model.next[k])
        /\ UNCHANGED <<model, limit>>

\* The next window.
Advance ==
    /\ \A p \in pending : model.time[p] >= limit
    /\ limit' = limit + LOOKAHEAD
    /\ UNCHANGED <<model, pending, executed>>

Next == Advance \/ \E k \in Kinds : Execute(k)

Spec == Init /\ [][Next]_vars

TypeOK ==
    /\ model \in Models
    /\ pending \subseteq Kinds
    /\ limit \in Nat
    /\ executed \in [Objects -> Seq(Kinds)]

\* Every object has executed its events in the order of their timestamps, as a
\* sequential simulation would (causality).
InTimeOrder ==
    \A o \in Objects : \A i, j \in DOMAIN executed[o] :
        i < j => model.time[executed[o][i]] <= model.time[executed[o][j]]
=============================================================================
