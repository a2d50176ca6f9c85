--------------------------- MODULE Instrumentation ---------------------------
(***************************************************************************)
(* How the object code of a simulation model is instrumented before main   *)
(* runs (_elf_parse.c).  The disassembly is searched for the moves that    *)
(* access memory; each is replaced by a jump to a patch, where the code of *)
(* the checkpointing scheme precedes a copy of the instruction and a jump  *)
(* back.  The jump takes 5 bytes.  In a shorter instruction there is room  *)
(* for a 2-byte jump only, which reaches REACH bytes: it goes to a zone of *)
(* 5 bytes that INSTRUMENT left in the source (mvm.h), and that holds the  *)
(* 5-byte jump.                                                            *)
(*                                                                         *)
(* CKPT is the build of MVM_GRID_CKPT (MVM_GRID_CKPT_BS and MVM_CHUNK have *)
(* the same file); mmap_mv and mmap_mv_store those of                      *)
(* MVM_MMAP_MULTIVERSIONING, where every instruction, of whatever size,    *)
(* goes through a landing pad of two zones.                                *)
(***************************************************************************)
EXTENDS Integers, Sequences, FiniteSetsExt, SequencesExt

CONSTANTS
    Builds,             \* among "CKPT", "mmap_mv" and "mmap_mv_store"
    Programs,           \* programs to instrument (see Line)
    TargetFunctions,    \* names of the functions to be instrumented
    NUM_INSTRUCTIONS,   \* records the instruction area holds
    NUM_PATCHES,        \* patches the patch area holds
    REACH,              \* half the range of a signed char (128)
    PAGE                \* bytes of a page of code

VARIABLES
    build, program,
    phase,              \* what __wrap_main is doing, or how it ended
    next,               \* index of the loop of the phase
    instructions,       \* the records of the instructions to be instrumented
    intermediate_zones, intermediate_flags,
    patches,
    text,               \* the code: what each byte is
    writable,           \* pages of it that may be written
    ip                  \* instruction pointer: where, and address or patch

vars == <<build, program, phase, next, instructions, intermediate_zones,
          intermediate_flags, patches, text, writable, ip>>

MMAP == build # "CKPT"
SHORT == 2
SLOT == 5       \* LANDING_PAD_SLOT_SIZE, also the size of a jump to a patch
PAD == 2        \* LANDING_PAD_WIDTH_SLOTS

(***************************************************************************)
(* A line of the disassembly: an instruction with its function, address,   *)
(* size, kind ("load" and "store" are moves from and to memory, "cli" is a *)
(* zone of INSTRUMENT, "other" the rest), the base register of its operand *)
(* and whether it has an index, and the addresses control may go to.       *)
(***************************************************************************)
Lines == ToSet(program)
LineAt(a) == CHOOSE l \in Lines : l.address = a
Frame(l) == l.base \in {"rbp", "rsp"}

\* What a byte of the code is, and what a store into the code makes of it.
Code == [op |-> "code", to |-> 0]
Inside == [op |-> "inside", to |-> 0]
Nop == [op |-> "nop", to |-> 0]

Jump(code, a, size, jump) ==
    [b \in DOMAIN code |-> IF b = a THEN jump
                           ELSE IF b \in a+1..a+size-1 THEN Inside ELSE code[b]]
Fill(code, bytes) == [b \in DOMAIN code |-> IF b \in bytes THEN Nop ELSE code[b]]

Init == 
    /\ build \in Builds
    /\ program \in Programs
    /\ phase = IF MMAP THEN "zones" ELSE "parse"
    /\ next = 1
    /\ instructions = <<>>
    /\ intermediate_zones = <<>>
    /\ intermediate_flags = <<>>
    /\ patches = <<>>
    /\ text = [b \in UNION {l.address..(l.address + l.size - 1) : l \in Lines} |->
                  IF \E l \in Lines : l.address = b THEN Code ELSE Inside]
    /\ writable = {}
    /\ ip = <<"text", program[1].address>>

Enter(p) == phase' = p /\ next' = 1
Exit == phase' = "exit" /\ UNCHANGED next

(***************************************************************************)
(* elf_parse, one function.  A move with a memory operand that is not on   *)
(* the stack is a candidate.  Loads are left alone but by mmap_mv; the     *)
(* mmap builds leave alone what their patch cannot rewrite, operands       *)
(* relative to the instruction pointer or with an index.                   *)
(***************************************************************************)
Candidate(l) == l.kind \in {"load", "store"} /\ ~Frame(l)

Intercepted(l) ==
    /\ Candidate(l)
    /\ l.kind = "load" => build = "mmap_mv"
    /\ MMAP => l.base # "rip" /\ ~l.indexed

Record(l) == [address |-> l.address, size |-> l.size, middle_buffer |-> 0]

\* Mutant: the limit of CKPT, which counts the records only.
RecordLimit(found) == 
    Len(instructions) + Len(SelectSeq(found, Intercepted)) > NUM_INSTRUCTIONS

\* CKPT checks the area after it has written a record, the mmap builds both
\* areas before, at every candidate.
OutOfMemory(found) ==
    IF MMAP
    THEN \E k \in 1..Len(found) :
            /\ Candidate(found[k])
            /\ Len(instructions) + Len(SelectSeq(SubSeq(found, 1, k - 1), Intercepted))
                  >= Min({NUM_INSTRUCTIONS, NUM_PATCHES})
    ELSE Len(instructions) + Len(SelectSeq(found, Intercepted)) > NUM_INSTRUCTIONS

ParseFunction ==
    /\ phase = "parse"
    /\ next <= Len(TargetFunctions)
    /\ LET found == SelectSeq(program, LAMBDA l : l.function = TargetFunctions[next])
           targets == SelectSeq(found, Intercepted)
       IN  IF found = <<>> \/ OutOfMemory(found)
           THEN Exit /\ UNCHANGED instructions
           ELSE /\ instructions' = instructions \o [k \in DOMAIN targets |-> Record(targets[k])]
                /\ next' = next + 1
                /\ UNCHANGED phase
    /\ UNCHANGED <<build, program, intermediate_zones, intermediate_flags, patches, text, writable, ip>>

Parsed ==
    /\ phase = "parse"
    /\ next > Len(TargetFunctions)
    /\ Enter(IF MMAP THEN "detours" ELSE "zones")
    /\ UNCHANGED <<build, program, instructions, intermediate_zones, intermediate_flags,
                   patches, text, writable, ip>>

(***************************************************************************)
(* find_intermediate_zones: every cli of the program is one.               *)
(***************************************************************************)
FindIntermediateZones ==
    LET slots == SelectSeq(program, LAMBDA l : l.kind = "cli")
    IN  /\ phase = "zones"
        /\ intermediate_zones' = [k \in DOMAIN slots |-> slots[k].address]
        /\ intermediate_flags' = [k \in DOMAIN slots |-> FALSE]
        /\ Enter(IF MMAP THEN "parse" ELSE "build")
        /\ UNCHANGED <<build, program, instructions, patches, text, writable, ip>>

(***************************************************************************)
(* book_intermediate_target of CKPT: the first free zone around the end of *)
(* the instruction.  The loop stops before the last zone.                  *)
(***************************************************************************)
FreeZones(a, size) ==
    {k \in 1..(Len(intermediate_zones) - 1) :
        /\ intermediate_zones[k] \in (a + size - REACH)..(a + size + REACH - 1)
        /\ ~intermediate_flags[k]}

\* Mutant: the zone is not marked as taken.
BookedNot(slots) == intermediate_flags' = intermediate_flags
Booked(slots) == 
    intermediate_flags' = [k \in DOMAIN intermediate_flags |->
                              k \in slots \/ intermediate_flags[k]]

(***************************************************************************)
(* book_intermediate_target of the mmap builds: a free pad in reach of the *)
(* 2-byte jump, of the block of adjacent zones that is nearest, the first  *)
(* of the block.                                                           *)
(***************************************************************************)
Adjacent(k) == intermediate_zones[k + 1] = intermediate_zones[k] + SLOT
BlockStart(k) == Max({j \in 1..k : j = 1 \/ ~Adjacent(j - 1)} \cap
                     {j \in 1..k : \A m \in j..(k - 1) : Adjacent(m)})
BlockEnd(k) == Min({j \in k..Len(intermediate_zones) :
                       j = Len(intermediate_zones) \/ ~Adjacent(j)})

PadAvailable(k) ==
    /\ \A j \in k..(k + PAD - 1) : ~intermediate_flags[j]
    /\ Adjacent(k)

Distance(k, origin) ==
    LET first == intermediate_zones[BlockStart(k)]
        last == intermediate_zones[BlockEnd(k + PAD - 1)]
    IN  IF origin < first THEN first - origin
        ELSE IF origin > last THEN origin - last ELSE 0

FreePads(a) ==
    {k \in 1..(Len(intermediate_zones) - PAD + 1) :
        /\ intermediate_zones[k] - (a + SHORT) \in (-REACH)..(REACH - 1)
        /\ PadAvailable(k)}

NearestPad(a) ==
    LET nearest == Min({Distance(k, a + SHORT) : k \in FreePads(a)})
    IN  Min({k \in FreePads(a) : Distance(k, a + SHORT) = nearest})

(***************************************************************************)
(* finalize_detours, one instruction: a pad is booked for it.              *)
(***************************************************************************)
ConfigureLandingPad ==
    /\ phase = "detours"
    /\ next <= Len(instructions)
    /\ LET a == instructions[next].address
       IN  IF instructions[next].size < SHORT \/ FreePads(a) = {}
           THEN Exit /\ UNCHANGED <<instructions, intermediate_flags>>
           ELSE /\ Booked(NearestPad(a)..(NearestPad(a) + PAD - 1))
                /\ instructions' = [instructions EXCEPT ![next].middle_buffer =
                                       intermediate_zones[NearestPad(a)]]
                /\ next' = next + 1
                /\ UNCHANGED phase
    /\ UNCHANGED <<build, program, intermediate_zones, patches, text, writable, ip>>

DetoursFinal ==
    /\ phase = "detours"
    /\ next > Len(instructions)
    /\ Enter("build")
    /\ UNCHANGED <<build, program, instructions, intermediate_zones, intermediate_flags,
                   patches, text, writable, ip>>

(***************************************************************************)
(* A patch: the instruction it stands for, the zone its short jump goes    *)
(* through, if any, and where that jump leads, a displacement cut to a     *)
(* signed char.                                                            *)
(***************************************************************************)
Signed8(d) == ((d + REACH) % (2 * REACH)) - REACH
Patch(r, zone) == 
    [address |-> r.address, size |-> r.size, zone |-> zone,
     short |-> r.address + SHORT + Signed8(zone - (r.address + SHORT))]

(***************************************************************************)
(* build_patches, one instruction.  CKPT books the zone here, for an       *)
(* instruction too short for the jump.                                     *)
(***************************************************************************)
BuildPatch ==
    /\ phase = "build"
    /\ next <= Len(instructions)
    /\ LET r == instructions[next]
           free == FreeZones(r.address, r.size)
       IN  \/ /\ MMAP \/ r.size >= SLOT
              /\ patches' = Append(patches, Patch(r, r.middle_buffer))
              /\ next' = next + 1
              /\ UNCHANGED <<phase, instructions, intermediate_flags>>
           \/ /\ ~MMAP /\ r.size < SLOT /\ free # {}
              /\ Booked({Min(free)})
              /\ instructions' = [instructions EXCEPT ![next].middle_buffer =
                                     intermediate_zones[Min(free)]]
              /\ patches' = Append(patches, Patch(r, intermediate_zones[Min(free)]))
              /\ next' = next + 1
              /\ UNCHANGED phase
           \/ /\ ~MMAP /\ r.size < SLOT /\ free = {}
              /\ Exit
              /\ UNCHANGED <<patches, instructions, intermediate_flags>>
    /\ UNCHANGED <<build, program, intermediate_zones, text, writable, ip>>

PatchesBuilt ==
    /\ phase = "build"
    /\ next > Len(instructions)
    /\ Enter("apply")
    /\ UNCHANGED <<build, program, instructions, intermediate_zones, intermediate_flags,
                   patches, text, writable, ip>>

(***************************************************************************)
(* apply_patches, one patch.  A store into a page that was not made        *)
(* writable ends the process.  CKPT means to make the page before the      *)
(* instruction writable too, but its address is not one of a page, and the *)
(* call fails.                                                             *)
(***************************************************************************)
PageOf(a) == a \div PAGE
ShortTo(a) == [op |-> "short", to |-> a]
LongTo(i) == [op |-> "long", to |-> i]

Unprotected(p) ==
    {PageOf(p.address), PageOf(p.address) + 1}
    \cup (IF MMAP THEN {PageOf(p.zone), PageOf(p.zone + PAD * SLOT - 1)} ELSE {})

Written(p) ==
    IF ~MMAP /\ p.size >= SLOT THEN p.address..(p.address + SLOT - 1)
    ELSE IF MMAP THEN p.address..(p.address + p.size - 1) \cup p.zone..(p.zone + PAD * SLOT - 1)
    ELSE p.address..(p.address + SHORT - 1) \cup p.zone..(p.zone + SLOT - 1)

\* Mutant: the zone is left as it is, a cli.
JumpOnly(p, i) == Jump(text, p.address, SHORT, ShortTo(p.short))
Patched(p, i) ==
    IF ~MMAP /\ p.size >= SLOT THEN Jump(text, p.address, SLOT, LongTo(i))
    ELSE LET jumps == Jump(Jump(text, p.address, SHORT, ShortTo(p.short)), p.zone, SLOT, LongTo(i))
         IN  IF MMAP
             THEN Fill(jumps, p.address+SHORT..p.address+p.size-1 \cup
                              p.zone+SLOT..p.zone+PAD*SLOT-1)
             ELSE jumps

ApplyPatch ==
    /\ phase = "apply"
    /\ next <= Len(patches)
    /\ writable' = writable \cup Unprotected(patches[next])
    /\ IF \A b \in Written(patches[next]) : PageOf(b) \in writable'
       THEN text' = Patched(patches[next], next) /\ next' = next + 1 /\ UNCHANGED phase
       ELSE phase' = "fault" /\ UNCHANGED <<text, next>>
    /\ UNCHANGED <<build, program, instructions, intermediate_zones, intermediate_flags, patches, ip>>

PatchesApplied ==
    /\ phase = "apply"
    /\ next > Len(patches)
    /\ Enter("run")
    /\ UNCHANGED <<build, program, instructions, intermediate_zones, intermediate_flags,
                   patches, text, writable, ip>>

(***************************************************************************)
(* __real_main runs the code as it has been patched.  In a patch come the  *)
(* code of the scheme, a copy of the instruction, and a jump back to what  *)
(* followed it.  A zone is nothing to be executed (cli is privileged), and *)
(* neither is the middle of an instruction.                                *)
(***************************************************************************)
Go(where, a) == ip' = <<where, a>> /\ UNCHANGED phase

RunText ==
    /\ ip[1] = "text"
    /\ LET here == text[ip[2]]
       IN  \/ here.op = "code" /\ \E a \in LineAt(ip[2]).to : Go("text", a)
           \/ here.op = "short" /\ Go("text", here.to)
           \/ here.op = "long" /\ Go("patch", here.to)

RunPatch ==
    \/ ip[1] = "patch" /\ Go("copy", ip[2])
    \/ ip[1] = "copy" /\ Go("back", ip[2])
    \/ ip[1] = "back" /\ Go("text", patches[ip[2]].address + patches[ip[2]].size)

Run ==
    /\ phase = "run"
    /\ RunText \/ RunPatch
    /\ UNCHANGED <<build, program, next, instructions, intermediate_zones,
                   intermediate_flags, patches, text, writable>>

Next ==
    \/ ParseFunction \/ Parsed
    \/ FindIntermediateZones
    \/ ConfigureLandingPad \/ DetoursFinal
    \/ BuildPatch \/ PatchesBuilt
    \/ ApplyPatch \/ PatchesApplied
    \/ Run

Spec == Init /\ [][Next]_vars

\* Every variable has its type.
TypeOK == 
    /\ build \in Builds
    /\ phase \in {"parse", "zones", "detours", "build", "apply", "run", "exit", "fault"}
    /\ next \in 1..(Len(program) + 1) \cup 1..(Len(TargetFunctions) + 1)
    /\ Len(intermediate_flags) = Len(intermediate_zones)
    /\ \A r \in ToSet(instructions) : \E l \in Lines : r.address = l.address /\ r.size = l.size
    /\ Len(patches) <= Len(instructions)
    /\ \A b \in DOMAIN text : text[b].op \in {"code", "inside", "nop", "short", "long"}
    /\ ip[1] \in {"text", "patch", "copy", "back"}

(***************************************************************************)
(* The program that runs is the one that was written, with a check before  *)
(* every access to an object: whatever zones are booked for which          *)
(* instruction, no jump ends in another's zone or patch, in a byte of a    *)
(* replaced instruction or in a zone nobody booked, and no access is       *)
(* missed or checked twice.                                                *)
(***************************************************************************)
Accesses == 
    {l.address : l \in {l \in Lines : /\ l.function \in ToSet(TargetFunctions)
                                      /\ l.kind \in {"store", IF build = "mmap_mv" THEN "load" ELSE "store"}
                                      /\ l.base \notin {"rbp", "rsp", "rip"}}}

\* The instruction a point of the patched code stands before.
Standing ==
    CASE ip[1] = "back" -> patches[ip[2]].address + patches[ip[2]].size
      [] ip[1] \in {"patch", "copy"} -> patches[ip[2]].address
      [] OTHER -> IF phase = "run" /\ ip[2] \in DOMAIN text /\ text[ip[2]].op = "long"
                  THEN patches[text[ip[2]].to].address ELSE ip[2]

Abstract == INSTANCE CheckedProgram WITH 
    accesses <- Accesses, at <- Standing, checked <- ip[1] = "copy"
RunsCheckedProgram == Abstract!Spec

(***************************************************************************)
(* Control never reaches what is not to be executed: nothing out of the    *)
(* code, inside an instruction or in what pads a replaced one, nor the cli *)
(* of a zone.                                                              *)
(***************************************************************************)
NeverDerailed ==
    phase = "run" /\ ip[1] = "text" =>
        /\ ip[2] \in DOMAIN text
        /\ text[ip[2]].op \notin {"inside", "nop"}
        /\ text[ip[2]].op = "code" => LineAt(ip[2]).kind # "cli"

(***************************************************************************)
(* The records and the text stay well formed, and the mmap builds never    *)
(* write a page of code that is protected, nor (MAX_TARGET_INSTRUCTIONS)   *)
(* past the area of the records or of the patches, for any number and      *)
(* place of the accesses.  CKPT is not part of it: its limit counts the    *)
(* records only, and only after they are written, nothing bounds its       *)
(* patches, and a zone before its instruction ends in the phase "fault".   *)
(***************************************************************************)
WritesAllowed == 
    /\ TypeOK
    /\ MMAP => /\ phase # "fault"
               /\ Len(instructions) <= NUM_INSTRUCTIONS
               /\ Len(instructions) <= NUM_PATCHES
=============================================================================
