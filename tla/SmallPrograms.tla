---------------------------- MODULE SmallPrograms ----------------------------
(***************************************************************************)
(* Programs of up to MaxItems instructions, in every order, around one or  *)
(* two INSTRUMENTs, with the sizes of the real instructions.               *)
(***************************************************************************)
EXTENDS Integers, Sequences, FiniteSetsExt, SequencesExt

CONSTANTS
    SHORT, SLOT, REACH,     \* those of Instrumentation
    MaxItems,               \* bound: instructions besides the INSTRUMENTs
    Edge                    \* TRUE: zones at the far edge of the reach, too

Item(kind, size, base) == [kind |-> kind, size |-> size, base |-> base, indexed |-> FALSE]

Items == {Item("store", 2, "rdx"), Item("store", 4, "rax"), Item("store", 7, "rax"),
          Item("load", 3, "rax"), Item("store", 4, "rbp"), Item("branch", 2, "none")}
INSTRUMENT == <<Item("over", SHORT, "none")>> \o [k \in 1..3 |-> Item("cli", SLOT, "none")]

Bodies == 
    LET s(n) == [1..n -> Items]
    IN  UNION {UNION {{INSTRUMENT \o body, body \o INSTRUMENT, 
                       INSTRUMENT \o body \o INSTRUMENT,
                       SubSeq(body, 1, 1) \o INSTRUMENT \o SubSeq(body, 2, n)} : body \in s(n)}
               : n \in 2..MaxItems}

\* The items laid out from START on, in three functions, the last not listed.
START == 100
Place(body, k) == START + FoldSet(LAMBDA j, sum : sum + body[j].size, 0, 1..(k - 1))
Program(body) ==
    LET n == Len(body)
        After(k) == IF k = n THEN START ELSE Place(body, k + 1)
    IN  [k \in 1..n |-> 
            [kind |-> IF body[k].kind \in {"branch", "over"} THEN "other" ELSE body[k].kind,
             size |-> body[k].size, base |-> body[k].base, indexed |-> body[k].indexed,
             address |-> Place(body, k),
             function |-> IF k <= 2 THEN "f" ELSE IF k = n THEN "h" ELSE "g",
             to |-> CASE body[k].kind = "branch" -> {After(k), START}
                      [] body[k].kind = "over" -> {After(k + 3)}
                      [] OTHER -> {After(k)}]]

(***************************************************************************)
(* CKPT takes a zone to be in reach of the end of the instruction, when it *)
(* must be in reach of the end of the short jump.                          *)
(***************************************************************************)
AtTheEdge(p) ==
    \E l, z \in ToSet(p) : 
        /\ l.kind = "store" /\ l.size < SLOT /\ z.kind = "cli"
        /\ z.address - (l.address + SHORT) >= REACH
        /\ z.address - (l.address + l.size) < REACH

AllPrograms == {p \in {Program(body) : body \in Bodies} : Edge \/ ~AtTheEdge(p)}
=============================================================================
