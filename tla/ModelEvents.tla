----------------------------- MODULE ModelEvents -----------------------------
(***************************************************************************)
(* The events of a simulation model (models/), in the order the engine     *)
(* makes them count: by timestamp, whatever the threads do meanwhile       *)
(* (SpeculativeEngine shows that).  Time is in ticks, from the start of    *)
(* the current window of LOOKAHEAD ticks; events of the same tick may come *)
(* in any order, and what Random and Expent return is any delay of up to   *)
(* MaxDelay ticks.  Random and Expent themselves are external here.        *)
(***************************************************************************)
EXTENDS Integers, Bags, FiniteSets

CONSTANTS
    OBJECTS,        \* simulation objects
    LOOKAHEAD,      \* ticks of a window
    MaxDelay        \* bound: ticks a random delay may take

VARIABLES
    speculation,    \* built with SPECULATION
    now,            \* timestamp of the last event
    pending         \* bag of the events scheduled

events == <<speculation, now, pending>>

Objects == 0..(OBJECTS - 1)
Heavy(me) == me < OBJECTS \div 2        \* UNBALANCE: the more loaded half
Delays == 1..MaxDelay

(***************************************************************************)
(* ScheduleNewEvent.  `fresh` marks an event of the current window.        *)
(***************************************************************************)
Event(from, to, type, content, due) ==
    [from |-> from, to |-> to, type |-> type, content |-> content, due |-> due, fresh |-> TRUE]

\* The bag of the first n copies of an event, as INIT schedules them.
Copies(e, n) == IF n = 0 THEN EmptyBag ELSE e :> n

Count(P(_)) == BagCardinality([e \in {f \in BagToSet(pending) : P(f)} |-> pending[e]])

\* The next event of the window, and the events its handler schedules.
Earliest(e) ==
    /\ BagIn(e, pending)
    /\ e.due < LOOKAHEAD
    /\ \A f \in BagToSet(pending) : e.due <= f.due

Handled(e, new) ==
    /\ now' = e.due
    /\ pending' = (pending (-) SetToBag({e})) (+) new
    /\ UNCHANGED speculation

(***************************************************************************)
(* Every event of the window has been handled: the next window.            *)
(***************************************************************************)
Shifted(e) == [e EXCEPT !.due = @ - LOOKAHEAD, !.fresh = FALSE]
NextWindow == 
    /\ \A e \in BagToSet(pending) : e.due >= LOOKAHEAD
    /\ now' = 0
    /\ pending' = BagOfAll(Shifted, pending)
    /\ UNCHANGED speculation

(***************************************************************************)
(* Without SPECULATION a model keeps its timestamps above a bound.         *)
(***************************************************************************)
\* Mutant: the SPECULATION build everywhere.
Unclamped(timestamp, bound) == timestamp
Clamped(timestamp, bound) ==
    IF ~speculation /\ timestamp < bound THEN bound ELSE timestamp

EventsTypeOK ==
    /\ speculation \in BOOLEAN
    /\ now \in Nat
    /\ IsABag(pending)
    /\ \A e \in BagToSet(pending) : e.from \in Objects /\ e.to \in Objects /\ e.due >= now

(***************************************************************************)
(* The conservative engine runs a window at all objects at once: what an   *)
(* object schedules for another one must not fall into the window both of  *)
(* them are in, whatever the random delay.                                 *)
(***************************************************************************)
LookaheadRespected ==
    ~speculation =>
        \A e \in BagToSet(pending) : e.fresh /\ e.from # e.to => e.due >= LOOKAHEAD
=============================================================================
