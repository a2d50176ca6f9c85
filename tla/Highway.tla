------------------------------ MODULE Highway ------------------------------
(***************************************************************************)
(* The highway model (models/highway): a ring of road segments with a lane *)
(* to the right and one to the left.  A car that enters a segment leaves   *)
(* it, and enters the next, after its residence time.  What the load makes *)
(* of that time (the scaling) only changes which delays are likely.        *)
(***************************************************************************)
EXTENDS ModelEvents, Sequences, SequencesExt

CONSTANTS
    INITIAL_CARS,           \* cars of a segment of the heavy half, per lane
    Lanes                   \* bound: those of "RIGHT" and "LEFT" that have cars (they never interact)

VARIABLE state              \* per segment and lane, the load and the list of cars

vars == <<events, state>>

Cars(me) == IF Heavy(me) THEN INITIAL_CARS ELSE INITIAL_CARS - INITIAL_CARS \div 2

Traversal(from, to, lane, due) == Event(from, to, "CAR_TRAVERSAL", lane, due)
Leaving(me, lane, due) == Event(me, me, "CAR_LEAVING", lane, due)

\* ProcessEvent, INIT, at every segment.
Init ==
    /\ speculation \in BOOLEAN
    /\ now = 0
    /\ pending = [e \in {Traversal(me, me, lane, 0) : me \in Objects, lane \in Lanes} |-> Cars(e.to)]
    /\ state = [me \in Objects |-> [lane \in Lanes |-> [load |-> 0, cars |-> <<>>]]]

(***************************************************************************)
(* traversal: the last car of the list, told by its residence, is moved    *)
(* forward up to the first one that is not to leave after it.              *)
(***************************************************************************)
\* Mutant: the list stays in the order of arrival.
AsArrived(cars) == cars
Traversed(cars) ==
    IF Len(cars) < 2 THEN cars
    ELSE LET place == Max({0} \cup {k \in 1..(Len(cars) - 1) : cars[k] <= Last(cars)})
         IN  InsertAt(Front(cars), place + 1, Last(cars))

(***************************************************************************)
(* The next segment.  To the right UNBALANCE closes each half of the ring  *)
(* on itself; to the left the ring is one.                                 *)
(***************************************************************************)
\* Mutant: to the right, too, the ring is one.
OneRing(me, lane) == IF lane = "RIGHT" THEN (me + 1) % OBJECTS ELSE (me + OBJECTS - 1) % OBJECTS
Dest(me, lane) ==
    IF lane = "LEFT" THEN IF me > 0 THEN me - 1 ELSE OBJECTS - 1
    ELSE IF Heavy(me) /\ ~Heavy(me + 1) THEN 0
    ELSE IF me + 1 >= OBJECTS THEN OBJECTS \div 2 ELSE me + 1

(***************************************************************************)
(* CAR_TRAVERSAL_RIGHT and CAR_TRAVERSAL_LEFT.                             *)
(***************************************************************************)
CarTraversal(e) ==
    /\ e.type = "CAR_TRAVERSAL"
    /\ \E delay \in Delays :
          LET timestamp == Clamped(e.due + delay, e.due + LOOKAHEAD)
          IN  /\ state' = [state EXCEPT ![e.to][e.content] =
                              [load |-> @.load + 1, cars |-> Traversed(Append(@.cars, timestamp))]]
              /\ Handled(e, SetToBag({Leaving(e.to, e.content, timestamp),
                                      Traversal(e.to, Dest(e.to, e.content), e.content, timestamp)}))

(***************************************************************************)
(* CAR_LEAVING_RIGHT and CAR_LEAVING_LEFT: the first car of the list goes. *)
(* The process ends if there is none.                                      *)
(***************************************************************************)
CarLeaving(e) ==
    LET lane == state[e.to][e.content]
    IN  /\ e.type = "CAR_LEAVING"
        /\ lane.cars # <<>>
        /\ state' = [state EXCEPT ![e.to][e.content] =
                        [load |-> @.load - 1, cars |-> Traversed(Tail(@.cars))]]
        /\ Handled(e, EmptyBag)

\* With the window, the timestamps of the cars move on.
Advance ==
    /\ NextWindow
    /\ state' = [me \in Objects |-> [lane \in Lanes |->
                    [state[me][lane] EXCEPT !.cars = [k \in DOMAIN @ |-> @[k] - LOOKAHEAD]]]]

Next ==
    \/ \E e \in BagToSet(pending) : Earliest(e) /\ (CarTraversal(e) \/ CarLeaving(e))
    \/ Advance

Spec == Init /\ [][Next]_vars

TypeOK ==
    /\ EventsTypeOK
    /\ \A me \in Objects, lane \in Lanes : state[me][lane].load \in Nat

(***************************************************************************)
(* The event of a car removes that car and no other: the list of a lane is *)
(* in the order in which its cars will leave, at the times of the pending  *)
(* CAR_LEAVING events, one for each, and the load is their number.         *)
(***************************************************************************)
CarsLeaveInOrder ==
    \A me \in Objects, lane \in Lanes :
        LET cars == state[me][lane].cars
            Leaves(e) == e.type = "CAR_LEAVING" /\ e.to = me /\ e.content = lane
        IN  /\ state[me][lane].load = Len(cars)
            /\ \A j, k \in 1..Len(cars) : j < k => cars[j] <= cars[k]
            /\ Count(Leaves) = Len(cars)
            /\ \A t \in ToSet(cars) : Cardinality({k \in DOMAIN cars : cars[k] = t})
                                        = Count(LAMBDA e : Leaves(e) /\ e.due = t)

(***************************************************************************)
(* No car is lost, or leaves its half of the ring to the right.            *)
(***************************************************************************)
Sum(objects) == FoldSet(LAMBDA me, sum : sum + Cars(me), 0, objects)
CarsStay ==
    LET On(lane, objects) == 
            Count(LAMBDA e : e.type = "CAR_TRAVERSAL" /\ e.content = lane /\ e.to \in objects)
        heavy == {me \in Objects : Heavy(me)}
    IN  /\ "RIGHT" \in Lanes => /\ On("RIGHT", heavy) = Sum(heavy)
                                /\ On("RIGHT", Objects \ heavy) = Sum(Objects \ heavy)
        /\ "LEFT" \in Lanes => On("LEFT", Objects) = Sum(Objects)
=============================================================================
