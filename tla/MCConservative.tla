--------------------------- MODULE MCConservative ---------------------------
(***************************************************************************)
(* Instances of the conservative engine: every model of a family is one    *)
(* initial state.                                                          *)
(***************************************************************************)
EXTENDS ConservativeEngine


MCKinds == {"a", "b", "c", "d", "e"}
Homes == [o \in Objects |-> IF o = 0 THEN "t1" ELSE "t2"]

(***************************************************************************)
(* INIT of object 0 schedules a and b, that of object 1 c; d is scheduled  *)
(* by one of them, e by a or d.  With windows of two ticks and two slots,  *)
(* events from time 4 on start in a fallback queue.                        *)
(***************************************************************************)
Model(time, dest, parent) ==
    [init |-> [o \in Objects |-> CASE o = 0 -> <<"a", "b">> [] o = 1 -> <<"c">> [] OTHER -> <<>>],
     dest |-> [k \in Kinds |-> CASE k = "a" -> 0 [] k \in {"b", "c"} -> 1 [] OTHER -> dest[k]],
     time |-> time,
     next |-> [k \in Kinds |-> SelectSeq(<<"e", "d">>, LAMBDA x : parent[x] = k)]]

\* Into the future, and by LOOKAHEAD for another object.
IsLegal(m) ==
    \A k \in Kinds : \A c \in ToSet(m.next[k]) :
        m.time[c] >= m.time[k] + (IF m.dest[c] = m.dest[k] THEN 1 ELSE LOOKAHEAD)

Times ==
    {[k \in Kinds |-> CASE k = "a" -> a [] k = "b" -> b [] k = "c" -> c [] k = "d" -> d
                        [] k = "e" -> e] :
        a \in 0..1, b \in {1, 5}, c \in {1, 2}, d \in {1, 3, 4}, e \in {3, 6}}

MCModels ==
    {m \in {Model(time, dest, parent) :
                time \in Times, dest \in [{"d", "e"} -> Objects],
                parent \in {p \in [{"d", "e"} -> {"a", "b", "c", "d"}] :
                              p["d"] # "d" /\ p["e"] \in {"a", "d"}}} :
        IsLegal(m)}

ASSUME ConservativeAssumption /\ ScheduledOnce /\ Sim!SimulationAssumption
=============================================================================
