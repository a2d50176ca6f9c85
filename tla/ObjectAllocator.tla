--------------------------- MODULE ObjectAllocator ---------------------------
(***************************************************************************)
(* The memory of one simulation object and its allocator (memory.c).  The  *)
(* area of an object is cut in segments, one per chunk class, and the      *)
(* chunks of class c are twice as large as those of class c - 1.  A class  *)
(* keeps a stack of chunks: the entries from top_elem on are free, those   *)
(* below it are left over from chunks handed out.                          *)
(*                                                                         *)
(* Memory is seen in granules, the unit a checkpointing scheme works with  *)
(* (the MOD bytes of a grid, or as much as the smallest chunk).  Every     *)
(* object has an area and an allocator of its own, and only the thread     *)
(* running the object touches them, so one object is enough.  The ways a   *)
(* call ends the process (no memory left, a bad pointer freed) are steps   *)
(* that are not taken.                                                     *)
(***************************************************************************)
EXTENDS Naturals

CONSTANTS
    NumClasses,     \* classes of chunks (8: 32 bytes to 4 KB)
    MIN_CHUNK_SIZE, \* granules of the smallest chunk
    SEGMENT,        \* granules of a segment
    Values          \* contents of a granule

Classes == 0..(NumClasses - 1)
ChunkSize(c) == MIN_CHUNK_SIZE * 2^c

AllocatorAssumption ==
    /\ NumClasses \in Nat \ {0}
    /\ MIN_CHUNK_SIZE \in Nat \ {0}
    /\ SEGMENT \in Nat \ {0}
    /\ 0 \in Values
    /\ \A c \in Classes : /\ ChunkSize(c) \in Nat \ {0}
                          /\ SEGMENT % ChunkSize(c) = 0

VARIABLES
    addresses,      \* per class, the stack of chunks
    top_elem,       \* per class, the first free entry of the stack
    addresses_ckpt, top_elem_ckpt,      \* their checkpoint
    area,           \* contents of the granules
    last            \* the last call made on the object

allocator == <<addresses, top_elem>>
allocator_ckpt == <<addresses_ckpt, top_elem_ckpt>>

Size(c) == SEGMENT \div ChunkSize(c)
Granules == 0..(NumClasses * SEGMENT - 1)

\* A chunk is its class and its place in the segment of the class.
Chunks == {k \in Classes \X (0..(SEGMENT - 1)) : k[2] < Size(k[1])}
ChunkOf(g) == <<g \div SEGMENT, (g % SEGMENT) \div ChunkSize(g \div SEGMENT)>>
GranulesOf(chunks) == {g \in Granules : ChunkOf(g) \in chunks}

\* The free entries of a class, in the order malloc will take them.
FreeStack(stack, top) == 
    [c \in Classes |-> [i \in top[c]..(Size(c) - 1) |-> stack[c][i]]]
LiveIn(stack, top) ==
    {k \in Chunks : \A i \in top[k[1]]..(Size(k[1]) - 1) : stack[k[1]][i] # k[2]}
Live == LiveIn(addresses, top_elem)
LiveAtCkpt == LiveIn(addresses_ckpt, top_elem_ckpt)

(***************************************************************************)
(* allocators_base_init and object_allocator_setup: the area is mapped     *)
(* anew, so it reads 0.  The checkpoint is not read before it is set.  The *)
(* INIT event of every model starts with the allocation of its state, here *)
(* the first chunk, which is never freed: SetUp includes it.  The state    *)
(* holds the seeds of the object, which the engine learns from             *)
(* get_seed1_ptr and get_seed2_ptr.                                        *)
(***************************************************************************)
SeedGranule == 0
StateChunk == ChunkOf(SeedGranule)

FullStack == [c \in Classes |-> [i \in 0..(Size(c) - 1) |-> i]]

SetUp == 
    /\ addresses = FullStack
    /\ top_elem = [c \in Classes |-> IF c = 0 THEN 1 ELSE 0]
    /\ addresses_ckpt = FullStack
    /\ top_elem_ckpt = [c \in Classes |-> 0]
    /\ area = [g \in Granules |-> 0]
    /\ last = "init"

Running == last' = IF last = "init" THEN "init" ELSE "run"

(***************************************************************************)
(* __wrap_malloc: the smallest class whose chunks are large enough (the    *)
(* last class when none is), then the first one from there on that is not  *)
(* used up.  Malloc(size, k) hands out chunk k.                            *)
(***************************************************************************)
ClassFor(size) ==
    IF \E c \in Classes : size <= ChunkSize(c)
    THEN CHOOSE c \in Classes : /\ size <= ChunkSize(c)
                                /\ \A d \in 0..(c - 1) : size > ChunkSize(d)
    ELSE NumClasses - 1

UsedUp(c) == top_elem[c] = Size(c)

Malloc(size, k) == 
    /\ size > 0
    /\ k \in Chunks
    /\ k[1] >= ClassFor(size)
    /\ ~UsedUp(k[1])
    /\ \A c \in ClassFor(size)..(k[1] - 1) : UsedUp(c)
    /\ k[2] = addresses[k[1]][top_elem[k[1]]]
    /\ top_elem' = [top_elem EXCEPT ![k[1]] = @ + 1]
    /\ Running
    /\ UNCHANGED <<addresses, allocator_ckpt, area>>

(***************************************************************************)
(* __wrap_free: the class is told by the segment the pointer lies in.      *)
(***************************************************************************)
Free(k) == 
    /\ k \in Live \ {StateChunk}
    /\ top_elem[k[1]] > 0
    /\ top_elem' = [top_elem EXCEPT ![k[1]] = @ - 1]
    /\ addresses' = [addresses EXCEPT ![k[1]][top_elem[k[1]] - 1] = k[2]]
    /\ Running
    /\ UNCHANGED <<allocator_ckpt, area>>

\* Mutant: the first free entry is taken for the last in use.
CopiedShort(stack, top, old) ==
    [c \in Classes |-> [i \in 0..(Size(c) - 1) |->
                           IF i > top[c] THEN stack[c][i] ELSE old[c][i]]]

\* The stack at the checkpoint, the entries in use left as `old` has them.
Copied(stack, top, old) ==
    [c \in Classes |-> [i \in 0..(Size(c) - 1) |->
                           IF i >= top[c] THEN stack[c][i] ELSE old[c][i]]]

SetAllocatorCkpt == 
    /\ top_elem_ckpt' = top_elem
    /\ addresses_ckpt' = Copied(addresses, top_elem, addresses_ckpt)
    /\ UNCHANGED allocator

RestoreAllocator == 
    /\ top_elem' = top_elem_ckpt
    /\ addresses' = Copied(addresses_ckpt, top_elem_ckpt, addresses)
    /\ UNCHANGED allocator_ckpt

(***************************************************************************)
(* The rest of what a model does to its object.  It draws random numbers,  *)
(* which moves the seeds: Random is compiled with the engine, so that no   *)
(* checkpointing scheme sees these stores.  And it stores, by instrumented *)
(* instructions, into the chunks it holds: `written` are the granules, all *)
(* of one chunk, whose contents become `value`.  A store into the granule  *)
(* of the seeds is one to a field beside them and leaves them alone.       *)
(***************************************************************************)
Draw ==
    /\ \E s \in Values \ {area[SeedGranule]} : area' = [area EXCEPT ![SeedGranule] = s]
    /\ Running
    /\ UNCHANGED <<allocator, allocator_ckpt>>

Store(written, value) ==
    /\ SeedGranule \in written => value = area[SeedGranule]
    /\ area' = [g \in Granules |-> IF g \in written THEN value ELSE area[g]]
    /\ Running
    /\ UNCHANGED <<allocator, allocator_ckpt>>

Stacks(stack, top) ==
    /\ DOMAIN stack = Classes
    /\ DOMAIN top = Classes
    /\ \A c \in Classes : /\ top[c] \in 0..Size(c)
                          /\ stack[c] \in [0..(Size(c) - 1) -> 0..(Size(c) - 1)]

\* The types of the variables of this module.
MemoryTypeOK ==
    /\ Stacks(addresses, top_elem)
    /\ Stacks(addresses_ckpt, top_elem_ckpt)
    /\ area \in [Granules -> Values]
    /\ last \in {"init", "run", "set", "restore"}

(***************************************************************************)
(* No chunk is free twice, at the checkpoint or now: malloc never hands    *)
(* out memory the model holds already, and a rollback neither loses a      *)
(* chunk nor frees one twice (set_allocator_ckpt copies only the free part *)
(* of the stack, restore_allocator lays it over a stack that has moved     *)
(* on).                                                                    *)
(***************************************************************************)
Distinct(stack, top) ==
    \A c \in Classes : \A i, j \in top[c]..(Size(c) - 1) :
        i # j => stack[c][i] # stack[c][j]

FreeOnce == Distinct(addresses, top_elem) /\ Distinct(addresses_ckpt, top_elem_ckpt)
=============================================================================
