-------------------------------- MODULE Pcs --------------------------------
(***************************************************************************)
(* The PCS model (models/pcs): cells of a mobile network on a hexagonal    *)
(* grid, each with a number of channels.  A call takes a channel until it  *)
(* ends or is handed off to a neighbouring cell.                           *)
(***************************************************************************)
EXTENDS ModelEvents, Sequences, SequencesExt

CONSTANTS
    CHANNELS_PER_CELL,
    INITIAL_CALLS,      \* calls in the lightly loaded half; twice as many in the other
    Callers,            \* bound: the cells where new calls start
    MaxCalls            \* bound: calls that arrive, in all

VARIABLE state          \* per cell, its counters and its channels in use

vars == <<events, state>>

Channels == 0..(CHANNELS_PER_CELL - 1)
NoChannel == -1

\* TA_DURATION / state->ta, with ta halved in the heavy half.
InitCalls(me) == IF Heavy(me) THEN 2 * INITIAL_CALLS ELSE INITIAL_CALLS

Cell ==
    [channel_counter |-> CHANNELS_PER_CELL,
     channels |-> <<>>,         \* the list, last allocated first
     channel_state |-> {},      \* the bits that are set
     arriving_calls |-> 0, complete_calls |-> 0, leaving_handoffs |-> 0, blocked_on_setup |-> 0]

StartCall(me, due) == Event(me, me, "START_CALL", NoChannel, due)

\* ProcessEvent, INIT, at every cell: the first calls start within 0.02.
Init ==
    /\ speculation \in BOOLEAN
    /\ now = 0
    /\ pending = [e \in {StartCall(me, 0) : me \in Callers} |-> InitCalls(e.to)]
    /\ state = [me \in Objects |-> Cell]

(***************************************************************************)
(* FindReceiver on the hexagonal grid: a random neighbour, or the next one *)
(* counter clockwise that lies within the grid.                            *)
(***************************************************************************)
Edge == IF \E n \in 1..OBJECTS : n * n = OBJECTS THEN CHOOSE n \in 1..OBJECTS : n * n = OBJECTS ELSE 0

Neighbour(x, y, direction) ==
    LET west == IF y % 2 = 0 THEN x - 1 ELSE x
    IN  CASE direction = 0 -> <<west, y - 1>>          \* NW
          [] direction = 1 -> <<x - 1, y>>             \* W
          [] direction = 2 -> <<west, y + 1>>          \* SW
          [] direction = 3 -> <<west + 1, y + 1>>      \* SE
          [] direction = 4 -> <<x + 1, y>>             \* E
          [] direction = 5 -> <<west + 1, y - 1>>      \* NE
InGrid(place) == place[1] \in 0..(Edge - 1) /\ place[2] \in 0..(Edge - 1)

FindReceiver(me, random) ==
    IF Edge = 0 THEN 0
    ELSE IF OBJECTS = 1 THEN me
    ELSE LET Turn(n) == Neighbour(me % Edge, me \div Edge, (random + n) % 6)
             place == Turn(Min({n \in 0..5 : InGrid(Turn(n))}))
         IN  place[2] * Edge + place[1]

(***************************************************************************)
(* allocation: the first channel that is free.                             *)
(***************************************************************************)
FreeChannels(cell) == Channels \ cell.channel_state
Allocated(cell) ==
    [cell EXCEPT !.arriving_calls = @ + 1,
                 !.channel_counter = @ - 1,
                 !.channels = <<Min(FreeChannels(cell))>> \o @,
                 !.channel_state = @ \cup {Min(FreeChannels(cell))}]

(***************************************************************************)
(* deallocation of the channel a call had; it aborts if the channel is not *)
(* in the list.                                                            *)
(***************************************************************************)
\* Mutant: the bit of the channel stays set.
DeallocatedFromList(cell, channel) ==
    [cell EXCEPT !.channel_counter = @ + 1,
                 !.channels = SelectSeq(@, LAMBDA c : c # channel)]
Deallocated(cell, channel) ==
    [cell EXCEPT !.channel_counter = @ + 1,
                 !.channels = SelectSeq(@, LAMBDA c : c # channel),
                 !.channel_state = @ \ {channel}]

(***************************************************************************)
(* What a call of me on a channel will do: end, or leave for a neighbour,  *)
(* where it arrives HANDOFF_SHIFT, less than a tick, later.  Neither comes *)
(* before the next window when there is no SPECULATION.                    *)
(***************************************************************************)
\* Mutant: a call that is handed off ends here, too.
CallEndsTwice(me, channel, term, handoff, random) ==
    SetToBag({Event(me, me, "END_CALL", channel, term),
              Event(me, me, "HANDOFF_LEAVE", channel, handoff)})
CallEvents(me, channel, term, handoff, random) ==
    IF term <= handoff THEN SetToBag({Event(me, me, "END_CALL", channel, term)})
    ELSE SetToBag({Event(me, me, "HANDOFF_LEAVE", channel, handoff),
                   Event(me, FindReceiver(me, random), "HANDOFF_IN", channel, handoff)})

(***************************************************************************)
(* START_CALL, and HANDOFF_IN, which falls into it: only a new call        *)
(* schedules the one after it.                                             *)
(***************************************************************************)
NextCall(e) ==
    IF e.type = "HANDOFF_IN" THEN {EmptyBag}
    ELSE {SetToBag({StartCall(e.to, Clamped(e.due + delay, e.due + LOOKAHEAD))}) : delay \in Delays}

ArriveCall(e) ==
    LET me == e.to
        cell == state[me]
        barrier == LOOKAHEAD
    IN  /\ e.type \in {"START_CALL", "HANDOFF_IN"}
        /\ FoldSet(LAMBDA c, sum : sum + state[c].arriving_calls, 0, Objects) < MaxCalls
        /\ \E next \in NextCall(e) :
              \/ /\ cell.channel_counter = 0
                 /\ state' = [state EXCEPT ![me].arriving_calls = @ + 1,
                                           ![me].blocked_on_setup = @ + 1]
                 /\ Handled(e, next)
              \/ /\ cell.channel_counter # 0
                 /\ state' = [state EXCEPT ![me] = Allocated(cell)]
                 /\ \E duration, change \in Delays, random \in 0..5 :
                       Handled(e, next (+) CallEvents(me, Min(FreeChannels(cell)),
                                                      Clamped(e.due + duration, barrier),
                                                      Clamped(e.due + change, barrier), random))

(***************************************************************************)
(* END_CALL and HANDOFF_LEAVE.                                             *)
(***************************************************************************)
EndCall(e) ==
    /\ e.type = "END_CALL"
    /\ e.content \in ToSet(state[e.to].channels)
    /\ state' = [state EXCEPT ![e.to] = 
                    [Deallocated(state[e.to], e.content) EXCEPT !.complete_calls = @ + 1]]
    /\ Handled(e, EmptyBag)

HandoffLeave(e) ==
    /\ e.type = "HANDOFF_LEAVE"
    /\ e.content \in ToSet(state[e.to].channels)
    /\ state' = [state EXCEPT ![e.to] = 
                    [Deallocated(state[e.to], e.content) EXCEPT !.leaving_handoffs = @ + 1]]
    /\ Handled(e, EmptyBag)

Next ==
    \/ \E e \in BagToSet(pending) :
          /\ Earliest(e)
          /\ ArriveCall(e) \/ EndCall(e) \/ HandoffLeave(e)
    \/ NextWindow /\ UNCHANGED state

Spec == Init /\ [][Next]_vars

TypeOK ==
    /\ EventsTypeOK
    /\ \A me \in Objects : /\ state[me].channel_counter \in 0..CHANNELS_PER_CELL
                           /\ state[me].channel_state \subseteq Channels
                           /\ ToSet(state[me].channels) \subseteq Channels

(***************************************************************************)
(* The three records of the channels of a cell agree, so that allocation   *)
(* finds a channel whenever the counter says there is one.                 *)
(***************************************************************************)
ChannelsAgree ==
    \A me \in Objects :
        LET cell == state[me]
        IN  /\ cell.channel_state = ToSet(cell.channels)
            /\ Len(cell.channels) = Cardinality(cell.channel_state)
            /\ cell.channel_counter = CHANNELS_PER_CELL - Len(cell.channels)

(***************************************************************************)
(* Every call in progress is to be ended by exactly one event, END_CALL or *)
(* HANDOFF_LEAVE, at its cell and with its channel: none keeps a channel   *)
(* for ever, and deallocation never misses one.  And every call that has   *)
(* arrived is in progress, complete, handed off or blocked.                *)
(***************************************************************************)
EveryCallEnds ==
    \A me \in Objects :
        LET cell == state[me]
            Ends(e) == e.to = me /\ e.type \in {"END_CALL", "HANDOFF_LEAVE"}
        IN  /\ \A c \in Channels : 
                  Count(LAMBDA e : Ends(e) /\ e.content = c)
                    = IF c \in ToSet(cell.channels) THEN 1 ELSE 0
            /\ cell.arriving_calls = Len(cell.channels) + cell.complete_calls 
                                     + cell.leaving_handoffs + cell.blocked_on_setup

(***************************************************************************)
(* A call is handed off to a cell that touches the one it leaves: centres  *)
(* of hexagons of a row lie 2 apart, those of odd rows 1 further right.    *)
(***************************************************************************)
Touching(a, b) ==
    LET Row(c) == c \div Edge
        Centre(c) == 2 * (c % Edge) + (Row(c) % 2)
    IN  <<Centre(a) - Centre(b), Row(a) - Row(b)>> \in
            {<<2, 0>>, <<-2, 0>>} \cup ({1, -1} \X {1, -1})

HandoffsTouch ==
    \A e \in BagToSet(pending) : e.type = "HANDOFF_IN" => Touching(e.from, e.to)

\* Every cell has as many calls about to start as at the beginning.
CallsKeepComing ==
    \A me \in Callers : Count(LAMBDA e : e.to = me /\ e.type = "START_CALL") = InitCalls(me)
=============================================================================
