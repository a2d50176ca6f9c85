------------------------------ MODULE MCSchemes ------------------------------
(***************************************************************************)
(* The two halves of a checkpointing build (the MVM directories): the      *)
(* scheme that saves and restores an object, and the code of the model     *)
(* that is rewritten to call it before its stores.  They share no state:   *)
(* a behaviour runs one of them, and the other stays as it started.        *)
(***************************************************************************)
EXTENDS MCMemory

CONSTANTS
    CodeBuilds,             \* Builds of Instrumentation
    NUM_INSTRUCTIONS, NUM_PATCHES, REACH, PAGE,     \* those of Instrumentation
    MaxItems, Edge          \* those of SmallPrograms

VARIABLES
    half,                   \* "scheme" or "code"
    code_build, program, code_phase, next, instructions, intermediate_zones,
    intermediate_flags, patches, text, writable, ip

code_vars == <<code_build, program, code_phase, next, instructions, intermediate_zones,
               intermediate_flags, patches, text, writable, ip>>

Family == INSTANCE SmallPrograms WITH SHORT <- 2, SLOT <- 5

\* The program of a behaviour that is about the scheme: nothing to rewrite.
NoAccess == <<[kind |-> "other", size |-> 1, base |-> "none", indexed |-> FALSE,
               address |-> 0, function |-> "f", to |-> {0}]>>
AllPrograms == Family!AllPrograms \cup {NoAccess}

Code == INSTANCE Instrumentation WITH
    Builds <- CodeBuilds, build <- code_build, phase <- code_phase,
    Programs <- AllPrograms, TargetFunctions <- <<"f", "g">>

SchemesInit ==
    /\ Code!Init
    /\ Init
    /\ \/ half = "scheme" /\ program = NoAccess /\ code_build = "CKPT"
       \/ half = "code" /\ build = "heap"

SchemesNext ==
    /\ UNCHANGED half
    /\ \/ half = "scheme" /\ Next /\ UNCHANGED code_vars
       \/ half = "code" /\ Code!Next /\ UNCHANGED vars

SchemesSpec == SchemesInit /\ [][SchemesNext]_<<half, vars, code_vars>>

\* Instrumentation's invariant: the patched program executes only what may be
\* executed.
NeverDerailed == Code!NeverDerailed

\* Instrumentation's invariant: what is built and written stays within its areas
\* and pages.
WritesAllowed == Code!WritesAllowed

\* Instrumentation's refinement: the patched program is the one that was written,
\* with a check before every access.
RunsCheckedProgram == Code!RunsCheckedProgram
=============================================================================
