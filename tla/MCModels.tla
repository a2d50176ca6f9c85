------------------------------ MODULE MCModels ------------------------------
(***************************************************************************)
(* One simulation model per behaviour, chosen at the start: PHOLD with two *)
(* objects, PCS with the four cells of a 2 x 2 grid, the highway with two  *)
(* halves of two segments.                                                 *)
(***************************************************************************)
EXTENDS Naturals

CONSTANTS MaxDelay, MaxCalls, INITIAL_CARS

VARIABLES model, speculation, now, pending, state

vars == <<model, speculation, now, pending, state>>

PHOLD == INSTANCE Phold WITH
    OBJECTS <- 2, LOOKAHEAD <- 2, M <- 1, CHUNKS_IN_LIST <- 4, REALLOCATION <- 2, P <- 2
PCS == INSTANCE Pcs WITH
    OBJECTS <- 4, LOOKAHEAD <- 2, CHANNELS_PER_CELL <- 2, INITIAL_CALLS <- 1, Callers <- {0}
RIGHT == INSTANCE Highway WITH
    OBJECTS <- 4, LOOKAHEAD <- 2, Lanes <- {"RIGHT"}
LEFT == INSTANCE Highway WITH
    OBJECTS <- 4, LOOKAHEAD <- 2, Lanes <- {"LEFT"}

Init ==
    \/ model = "phold" /\ PHOLD!Init
    \/ model = "pcs" /\ PCS!Init
    \/ model = "right" /\ RIGHT!Init
    \/ model = "left" /\ LEFT!Init

Next ==
    /\ UNCHANGED model
    /\ \/ model = "phold" /\ PHOLD!Next
       \/ model = "pcs" /\ PCS!Next
       \/ model = "right" /\ RIGHT!Next
       \/ model = "left" /\ LEFT!Next

Spec == Init /\ [][Next]_vars

\* Nothing is scheduled for another object's current window.
LookaheadRespected == PHOLD!LookaheadRespected

\* Nothing a model simulates appears or vanishes: events, calls to come, cars.
PopulationStays ==
    /\ model = "phold" => PHOLD!PopulationStays
    /\ model = "pcs" => PCS!CallsKeepComing
    /\ model = "right" => RIGHT!CarsStay
    /\ model = "left" => LEFT!CarsStay

\* PHOLD: the lists of chunks survive their reallocation.
ListsIntact == model = "phold" => PHOLD!TypeOK /\ PHOLD!ListsIntact

\* PCS: the counter, the list and the bitmap of the channels agree.
ChannelsAgree == model = "pcs" => PCS!TypeOK /\ PCS!ChannelsAgree

\* PCS: exactly one event ends each call in progress, and where that is a
\* handoff, a neighbouring cell takes the call over.
EveryCallEnds == model = "pcs" => PCS!EveryCallEnds /\ PCS!HandoffsTouch

\* Highway: the event of a car removes that car.
CarsLeaveInOrder ==
    /\ model = "right" => RIGHT!TypeOK /\ RIGHT!CarsLeaveInOrder
    /\ model = "left" => LEFT!TypeOK /\ LEFT!CarsLeaveInOrder
=============================================================================
