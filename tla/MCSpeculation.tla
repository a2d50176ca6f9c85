---------------------------- MODULE MCSpeculation ----------------------------
(***************************************************************************)
(* Instances of the speculative engine: families of small simulation       *)
(* models. Each member of a family is one initial state, so one run of TLC *)
(* covers every timing and every routing of the family.                    *)
(***************************************************************************)
EXTENDS SpeculationProperties

InFuture(m) == \A k \in Kinds : \A i \in DOMAIN m.next[k] : m.time[m.next[k][i]] > m.time[k]

\* The children of each kind, in the order given, when p names their parents.
Children(p, order) == [k \in Kinds |-> SelectSeq(order, LAMBDA x : p[x] = k)]

TwoHomes == 0 :> "t1" @@ 1 :> "t2"
ThreeHomes == 0 :> "t1" @@ 1 :> "t2" @@ 2 :> "t2"

-----------------------------------------------------------------------------
(* Races: object 0 starts with a, object 1 with b; c and d are scheduled by *)
(* a, b or c, for either object, anywhere in the first epoch or the second. *)
RaceKinds == {"a", "b", "c", "d"}

RaceModel(dest, time, p) ==
    [init |-> [o \in Objects |-> CASE o = 0 -> <<"a">> [] o = 1 -> <<"b">> [] OTHER -> <<>>],
     dest |-> [k \in Kinds |-> CASE k = "b" -> 1 [] k \in DOMAIN dest -> dest[k] [] OTHER -> 0],
     time |-> [k \in Kinds |-> IF k \in RaceKinds THEN time[k] ELSE 1],
     next |-> Children(p, <<"c", "d">>)]

RaceModels(times) ==
    {m \in {RaceModel(dest, time, p) : dest \in [{"c", "d"} -> {0, 1}],
                                       time \in [RaceKinds -> times],
                                       p \in [{"c", "d"} -> {"a", "b", "c"}]} :
        InFuture(m)}

\* With epochs of four ticks, time 4 is the first of the second epoch.
AllRaces == RaceModels(1..4)

-----------------------------------------------------------------------------
(* A crowd: three objects and two threads. The event a of object 0 sends e   *)
(* to object 1, and some event sends d to object 0 or 2 in the same epoch:   *)
(* a is undone before or after object 1 has been dispensed, and one event    *)
(* may be a straggler for two objects.                                       *)
CrowdKinds == {"a", "b", "c", "d", "e"}

CrowdModel(time, parent, dest) ==
    [init |-> 0 :> <<"a">> @@ 1 :> <<"b">> @@ 2 :> <<"c">>,
     dest |-> [k \in Kinds |-> CASE k = "a" -> 0 [] k \in {"b", "e"} -> 1
                                 [] k = "c" -> 2 [] OTHER -> dest],
     time |-> time,
     next |-> [k \in Kinds |-> (IF k = parent THEN <<"d">> ELSE <<>>)
                             \o (IF k = "a" THEN <<"e">> ELSE <<>>)]]

CrowdModels ==
    {m \in {CrowdModel(time, parent, dest) :
                time \in [Kinds -> 1..3], parent \in {"a", "b", "c"}, dest \in {0, 2}} :
        m.time["b"] = 3 /\ InFuture(m)}

\* A late event: when d undoes a after c has been executed, the rollback of
\* object 1 may be lost, and d, sent again, stays in its slot. It is executed when
\* the slot is current again, two epochs later; what it schedules, for the second
\* epoch or the third, has been committed long ago.
LateModel(time) ==
    [init |-> 0 :> <<"a">> @@ 1 :> <<"b">> @@ 2 :> <<>>,
     dest |-> [k \in CrowdKinds |-> IF k \in {"b", "c"} THEN 1 ELSE 0],
     time |-> [k \in CrowdKinds |-> CASE k = "a" -> 1 [] k \in {"b", "c"} -> 2 [] k = "d" -> 3
                                      [] OTHER -> time],
     next |-> [k \in CrowdKinds |-> CASE k = "a" -> <<"c">> [] k = "b" -> <<"d">>
                                      [] k = "d" -> <<"e">> [] OTHER -> <<>>]]

LateModels == {LateModel(time) : time \in {5, 9}}

\* In the races the third object has no events, and the kind e is not used.
AllModels == CrowdModels \cup LateModels \cup AllRaces

-----------------------------------------------------------------------------
(* Feed-forward models: an object to which events are sent within an epoch  *)
(* sends only beyond the epoch, so stragglers cause rollbacks but no send   *)
(* into the epoch is ever undone. Object 0 runs a, which sends c to object  *)
(* 1 between its events b and f; one of these sends d into a later epoch,   *)
(* the last slot or the fallback queue, and d or f sends e.                *)
ForwardKinds == {"a", "b", "c", "d", "e", "f"}

ForwardModel(t, parent, last, dest) ==
    [init |-> 0 :> <<"a">> @@ 1 :> <<"b", "f">>,
     dest |-> [k \in Kinds |-> IF k = "a" THEN 0 ELSE IF k = "d" THEN dest ELSE 1],
     time |-> t,
     next |-> [k \in Kinds |->
                (IF k = "a" THEN <<"c">> ELSE <<>>)
                \o (IF k = parent THEN <<"d">> ELSE <<>>)
                \o (IF k = last THEN <<"e">> ELSE <<>>)]]

ForwardTimes ==
    {[k \in Kinds |-> CASE k = "a" -> a [] k = "b" -> b [] k = "c" -> c [] k = "f" -> 3
                        [] k = "d" -> d [] k = "e" -> e] :
        a \in 1..2, b \in 1..2, c \in 2..3, d \in {5, 9, 12}, e \in {6, 9, 13}}

ForwardModels ==
    {m \in {ForwardModel(t, parent, last, dest) :
                t \in ForwardTimes, parent \in {"b", "c", "f"}, last \in {"d", "f"},
                dest \in {0, 1}} :
        /\ InFuture(m)
        /\ m.dest["d"] = 1 => m.time["e"] \div 4 > m.time["d"] \div 4}

\* A model that schedules nothing: the only kind of run that ends by itself.
IdleModel ==
    [init |-> [o \in Objects |-> <<>>], dest |-> [k \in Kinds |-> 0],
     time |-> [k \in Kinds |-> 1], next |-> [k \in Kinds |-> <<>>]]

ForwardAndIdleModels == ForwardModels \cup {IdleModel}

\* What the theorems on the logs and on repeated sends assume: in ticks,
\* different times are apart; and there are several slots.
ASSUME EventsApart == TimesApart /\ SlotsApart
=============================================================================
