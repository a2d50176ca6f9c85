-------------------------- MODULE CheckpointProofs --------------------------
(***************************************************************************)
(* The checkpointing schemes restore what they saw, for all sizes of       *)
(* chunks, segments and pages.  The chunk builds come first and are the    *)
(* module extended; the grid and the multi-version builds are instances    *)
(* over the same object and the same allocator, whose lemmas they share.   *)
(*                                                                         *)
(* Chunks: between two checkpoints, what a restore would make of the       *)
(* object does not change.  For CHUNK_BASED_SAVE it is, granule by         *)
(* granule, the copy of a chunk that was saved and the area of one that    *)
(* was not; a store moves a chunk from the one to the other before it      *)
(* changes it.  For CHUNK_FULL it is the copies of the chunks in use at    *)
(* the checkpoint, and rests on the bitmap of usage being exactly what the *)
(* allocator has handed out.  The comparison that the DEBUG build makes    *)
(* follows from the refinement, as far as the restore reaches.             *)
(*                                                                         *)
(* Grids: the same, with the granules that were marked for the chunks; the *)
(* build that copies at the checkpoint (BS) needs that what is not marked  *)
(* is the same in the area and in the copy.                                *)
(*                                                                         *)
(* Versions: the slot of a page that is not of the current round, or the   *)
(* part of slot 1 saved in it, holds the page as the object's last         *)
(* checkpoint saw it; the round tells the two apart because it has         *)
(* advanced since that checkpoint and no page is of a later one.           *)
(***************************************************************************)
EXTENDS DebugCheckpoint, TLAPS

CONSTANTS
    GridBuild,      \* the build of the grid checkpoints
    MOD, ThroughRax,
    MvmBuild,       \* the build of the multi-version memory
    Lazy, Primed, CountsFirst, OBJECTS, MVMM_PAGE_SIZE, MaxRound

VARIABLES
    slot_ts, cur_slot, last_ts_seen, last_touched_ts, touched_curr, touched_prev, grid_curr,
    g_epoch_round, g_ckpt_counter, phase, checkpointed, others, counted, saved

Grid == INSTANCE GridCheckpoint WITH Build <- GridBuild
Mvm == INSTANCE MultiVersion WITH Build <- MvmBuild

-----------------------------------------------------------------------------
(* The inductive invariant *)

IInv == TypeOK /\ FreeOnce /\ UsageIsLive

-----------------------------------------------------------------------------
(* Chunks and stacks *)

LEMMA Sizes ==
  ASSUME AllocatorAssumption
  PROVE  /\ 0 \in Classes /\ Classes \subseteq Nat
         /\ 0 \in Values
         /\ \A c \in Classes : Size(c) \in Nat \ {0}
  <1>1. 0 \in Classes /\ Classes \subseteq Nat /\ 0 \in Values
    BY DEF AllocatorAssumption, Classes
  <1>2. ASSUME NEW c \in Classes PROVE Size(c) \in Nat \ {0}
    <2> DEFINE n == ChunkSize(c)
    <2>1. n \in Nat \ {0} /\ SEGMENT \in Nat \ {0} /\ SEGMENT % n = 0
      BY DEF AllocatorAssumption
    <2> HIDE DEF n
    <2>2. SEGMENT \div n \in Nat \ {0}
      BY <2>1
    <2> QED
      BY <2>2 DEF Size, n
  <1> QED
    BY <1>1, <1>2

LEMMA StateChunkType ==
  ASSUME AllocatorAssumption
  PROVE  StateChunk = <<0, 0>> /\ StateChunk \in Chunks /\ SeedGranule \in Granules
  <1> DEFINE n == ChunkSize(0)
  <1>1. n \in Nat \ {0} /\ SEGMENT \in Nat \ {0} /\ NumClasses \in Nat \ {0}
    BY Sizes DEF AllocatorAssumption
  <1> HIDE DEF n
  <1>2. 0 \div SEGMENT = 0 /\ 0 % SEGMENT = 0 /\ 0 \div n = 0
    BY <1>1
  <1>3. StateChunk = <<0, 0>>
    BY <1>2 DEF StateChunk, ChunkOf, SeedGranule, n
  <1>4. <<0, 0>> \in Chunks
    <2>1. 0 \in 0..(SEGMENT - 1) /\ 0 < Size(0)
      BY <1>1, Sizes
    <2> QED
      BY <2>1, Sizes DEF Chunks
  <1>5. SeedGranule \in Granules
    <2>1. NumClasses * SEGMENT \in Nat \ {0}
      BY <1>1
    <2> QED
      BY <2>1 DEF SeedGranule, Granules
  <1> QED
    BY <1>3, <1>4, <1>5

LEMMA ChunkTypes ==
  ASSUME AllocatorAssumption, NEW k \in Chunks
  PROVE  k = <<k[1], k[2]>> /\ k[1] \in Classes /\ k[2] \in Nat /\ k[2] \in 0..(Size(k[1]) - 1)
  <1>1. k = <<k[1], k[2]>> /\ k[1] \in Classes /\ k[2] \in 0..(SEGMENT - 1) /\ k[2] < Size(k[1])
    BY DEF Chunks
  <1>2. Size(k[1]) \in Nat /\ SEGMENT \in Nat
    BY <1>1, Sizes DEF AllocatorAssumption
  <1> QED
    BY <1>1, <1>2

\* A checkpoint, and a rollback, copy the free part of the stacks and nothing
\* else counts.
LEMMA CopiedStacks ==
  ASSUME AllocatorAssumption, NEW stack, NEW top, NEW old,
         Stacks(stack, top), \E t : Stacks(old, t)
  PROVE  /\ Stacks(Copied(stack, top, old), top)
         /\ FreeStack(Copied(stack, top, old), top) = FreeStack(stack, top)
         /\ LiveIn(Copied(stack, top, old), top) = LiveIn(stack, top)
         /\ Distinct(stack, top) => Distinct(Copied(stack, top, old), top)
  <1> DEFINE new == Copied(stack, top, old)
  <1>1. \A c \in Classes : new[c] \in [0..(Size(c) - 1) -> 0..(Size(c) - 1)]
    BY DEF Stacks, Copied
  <1>2. \A c \in Classes : \A i \in top[c]..(Size(c) - 1) : new[c][i] = stack[c][i]
    BY Sizes DEF Stacks, Copied
  <1>3. DOMAIN new = Classes
    BY DEF Copied
  <1> HIDE DEF new
  <1>4. Stacks(new, top)
    BY <1>1, <1>3 DEF Stacks
  <1>5. FreeStack(new, top) = FreeStack(stack, top)
    BY <1>2 DEF FreeStack
  <1>6. LiveIn(new, top) = LiveIn(stack, top)
    BY <1>2, ChunkTypes DEF LiveIn
  <1>7. Distinct(stack, top) => Distinct(new, top)
    BY <1>2 DEF Distinct
  <1> QED
    BY <1>4, <1>5, <1>6, <1>7 DEF new

-----------------------------------------------------------------------------
(* The allocator *)

\* malloc hands out the first free chunk of a class, which is not live.
LEMMA MallocTakes ==
  ASSUME AllocatorAssumption, Stacks(addresses, top_elem), Distinct(addresses, top_elem),
         NEW size, NEW k, Malloc(size, k)
  PROVE  /\ Stacks(addresses, top_elem)' /\ Distinct(addresses, top_elem)'
         /\ Live' = Live \cup {k} /\ k \in Chunks
  <1> DEFINE c == k[1]
             n == top_elem[c]
  <1>1. /\ k \in Chunks /\ addresses' = addresses /\ top_elem' = [top_elem EXCEPT ![c] = @ + 1]
        /\ k[2] = addresses[c][n] /\ n # Size(c)
    BY DEF Malloc, UsedUp
  <1>2. c \in Classes /\ n \in 0..Size(c) /\ Size(c) \in Nat /\ DOMAIN top_elem = Classes
    BY <1>1, ChunkTypes, Sizes DEF Stacks
  <1>3. /\ n \in 0..(Size(c) - 1) /\ n + 1 \in 0..Size(c)
        /\ DOMAIN top_elem' = Classes /\ top_elem'[c] = n + 1
        /\ \A d \in Classes : d # c => top_elem'[d] = top_elem[d]
    BY <1>1, <1>2
  <1>4. Stacks(addresses, top_elem)'
    <2>1. \A d \in Classes : top_elem'[d] \in 0..Size(d)
      BY <1>3 DEF Stacks
    <2> QED
      BY <2>1, <1>1, <1>3 DEF Stacks
  <1>5. \A d \in Classes : top_elem'[d]..(Size(d) - 1) \subseteq top_elem[d]..(Size(d) - 1)
    <2>1. (n + 1)..(Size(c) - 1) \subseteq n..(Size(c) - 1)
      BY <1>2, <1>3
    <2> QED
      BY <2>1, <1>3
  <1>6. Distinct(addresses, top_elem)'
    BY <1>1, <1>5 DEF Distinct
  <1>7. Live' = Live \cup {k}
    <2>1. ASSUME NEW h \in Chunks, h[1] # c PROVE h \in Live' <=> h \in Live
      BY <2>1, <1>1, <1>3, ChunkTypes DEF Live, LiveIn
    <2>2. ASSUME NEW h \in Chunks, h[1] = c PROVE h \in Live' <=> h \in Live \/ h = k
      <3>1. h = <<c, h[2]>> /\ k = <<c, k[2]>>
        BY <2>2, <1>1, ChunkTypes
      <3>2. h \in Live' <=> \A i \in (n + 1)..(Size(c) - 1) : addresses[c][i] # h[2]
        BY <2>2, <1>1, <1>3 DEF Live, LiveIn
      <3>3. h \in Live <=> \A i \in n..(Size(c) - 1) : addresses[c][i] # h[2]
        BY <2>2 DEF Live, LiveIn
      <3>4. \A i \in n..(Size(c) - 1) : i = n \/ i \in (n + 1)..(Size(c) - 1)
        BY <1>2, <1>3
      <3>5. (n + 1)..(Size(c) - 1) \subseteq n..(Size(c) - 1)
        BY <1>2, <1>3
      <3>6. \A i \in (n + 1)..(Size(c) - 1) : addresses[c][i] # k[2]
        <4>1. \A i \in (n + 1)..(Size(c) - 1) : i # n /\ i \in n..(Size(c) - 1)
          BY <1>2, <1>3
        <4>2. n \in n..(Size(c) - 1)
          BY <1>2, <1>3
        <4> QED
          BY <4>1, <4>2, <1>1, <1>2 DEF Distinct
      <3>7. h = k <=> h[2] = k[2]
        BY <3>1
      <3> QED
        BY <3>2, <3>3, <3>4, <3>5, <3>6, <3>7, <1>1
    <2>3. Live \subseteq Chunks /\ Live' \subseteq Chunks
      BY DEF Live, LiveIn, Chunks
    <2> QED
      BY <2>1, <2>2, <2>3, <1>1
  <1> QED
    BY <1>1, <1>4, <1>6, <1>7

\* free puts back a live chunk, which no free entry held.
LEMMA FreeGivesBack ==
  ASSUME AllocatorAssumption, Stacks(addresses, top_elem), Distinct(addresses, top_elem),
         NEW k, Free(k)
  PROVE  /\ Stacks(addresses, top_elem)' /\ Distinct(addresses, top_elem)'
         /\ Live' = Live \ {k} /\ k \in Chunks
  <1> DEFINE c == k[1]
             n == top_elem[c]
             stack == addresses[c]
  <1>1. /\ k \in Live /\ n > 0
        /\ top_elem' = [top_elem EXCEPT ![c] = @ - 1]
        /\ addresses' = [addresses EXCEPT ![c][n - 1] = k[2]]
    BY DEF Free
  <1>2. k \in Chunks /\ \A i \in n..(Size(c) - 1) : stack[i] # k[2]
    BY <1>1 DEF Live, LiveIn
  <1>3. /\ c \in Classes /\ k[2] \in 0..(Size(c) - 1) /\ n \in 0..Size(c) /\ Size(c) \in Nat
        /\ DOMAIN top_elem = Classes /\ DOMAIN addresses = Classes
        /\ stack \in [0..(Size(c) - 1) -> 0..(Size(c) - 1)]
    BY <1>2, ChunkTypes, Sizes DEF Stacks
  <1>4. /\ n - 1 \in 0..(Size(c) - 1) /\ n - 1 \in 0..Size(c)
        /\ DOMAIN top_elem' = Classes /\ top_elem'[c] = n - 1
        /\ DOMAIN addresses' = Classes /\ addresses'[c] = [stack EXCEPT ![n - 1] = k[2]]
        /\ \A d \in Classes : d # c => top_elem'[d] = top_elem[d] /\ addresses'[d] = addresses[d]
    BY <1>1, <1>3
  <1>5. /\ addresses'[c] \in [0..(Size(c) - 1) -> 0..(Size(c) - 1)]
        /\ addresses'[c][n - 1] = k[2]
        /\ \A i \in n..(Size(c) - 1) : addresses'[c][i] = stack[i]
        /\ \A i \in (n - 1)..(Size(c) - 1) : i = n - 1 \/ i \in n..(Size(c) - 1)
        /\ n - 1 \in (n - 1)..(Size(c) - 1) /\ n..(Size(c) - 1) \subseteq (n - 1)..(Size(c) - 1)
    BY <1>3, <1>4
  <1>6. Stacks(addresses, top_elem)'
    <2>1. \A d \in Classes : /\ top_elem'[d] \in 0..Size(d)
                             /\ addresses'[d] \in [0..(Size(d) - 1) -> 0..(Size(d) - 1)]
      BY <1>4, <1>5 DEF Stacks
    <2> QED
      BY <2>1, <1>4 DEF Stacks
  <1>7. Distinct(addresses, top_elem)'
    <2> SUFFICES ASSUME NEW d \in Classes, NEW i \in top_elem'[d]..(Size(d) - 1),
                        NEW j \in top_elem'[d]..(Size(d) - 1), i # j
                 PROVE  addresses'[d][i] # addresses'[d][j]
      BY DEF Distinct
    <2>1. CASE d # c
      BY <2>1, <1>4 DEF Distinct
    <2>2. CASE d = c
      <3>1. i \in (n - 1)..(Size(c) - 1) /\ j \in (n - 1)..(Size(c) - 1)
        BY <2>2, <1>4
      <3>2. CASE i = n - 1 \/ j = n - 1
        BY <3>1, <3>2, <2>2, <1>2, <1>5
      <3>3. CASE i # n - 1 /\ j # n - 1
        BY <3>1, <3>3, <2>2, <1>3, <1>5 DEF Distinct
      <3> QED
        BY <3>2, <3>3
    <2> QED
      BY <2>1, <2>2
  <1>8. Live' = Live \ {k}
    <2>1. ASSUME NEW h \in Chunks, h[1] # c PROVE h \in Live' <=> h \in Live
      BY <2>1, <1>4, ChunkTypes DEF Live, LiveIn
    <2>2. ASSUME NEW h \in Chunks, h[1] = c PROVE h \in Live' <=> h \in Live /\ h # k
      <3>1. h = k <=> h[2] = k[2]
        BY <2>2, <1>2, ChunkTypes
      <3>2. h \in Live' <=> \A i \in (n - 1)..(Size(c) - 1) : addresses'[c][i] # h[2]
        BY <2>2, <1>4 DEF Live, LiveIn
      <3>3. h \in Live <=> \A i \in n..(Size(c) - 1) : stack[i] # h[2]
        BY <2>2 DEF Live, LiveIn
      <3> QED
        BY <3>1, <3>2, <3>3, <1>5
    <2>3. Live \subseteq Chunks /\ Live' \subseteq Chunks
      BY DEF Live, LiveIn, Chunks
    <2> QED
      BY <2>1, <2>2, <2>3, <1>2
  <1> QED
    BY <1>2, <1>6, <1>7, <1>8

\* The memory as it is set up, whatever the scheme.
LEMMA SetUpIntact ==
  ASSUME AllocatorAssumption, SetUp
  PROVE  MemoryTypeOK /\ FreeOnce
  <1> DEFINE top == [c \in Classes |-> IF c = 0 THEN 1 ELSE 0]
             bottom == [c \in Classes |-> 0]
  <1>1. /\ addresses = FullStack /\ top_elem = top
        /\ addresses_ckpt = FullStack /\ top_elem_ckpt = bottom
        /\ area = [g \in Granules |-> 0] /\ last = "init"
    BY DEF SetUp
  <1>2. \A c \in Classes : 0 \in 0..Size(c) /\ 1 \in 0..Size(c)
    BY Sizes
  <1>3. Stacks(FullStack, top) /\ Stacks(FullStack, bottom)
    BY <1>2 DEF Stacks, FullStack
  <1>4. \A c \in Classes : \A i \in top[c]..(Size(c) - 1) : FullStack[c][i] = i
    BY Sizes DEF FullStack
  <1>5. \A c \in Classes : \A i \in bottom[c]..(Size(c) - 1) : FullStack[c][i] = i
    BY DEF FullStack
  <1>6. MemoryTypeOK
    BY <1>1, <1>3, Sizes DEF MemoryTypeOK
  <1>7. FreeOnce
    BY <1>1, <1>4, <1>5 DEF FreeOnce, Distinct
  <1> QED
    BY <1>6, <1>7

-----------------------------------------------------------------------------
(* The invariant *)

LEMMA InitEstablishes ==
  ASSUME AllocatorAssumption, Init
  PROVE  IInv
  <1> DEFINE top == [c \in Classes |-> IF c = 0 THEN 1 ELSE 0]
  <1>1. /\ addresses = FullStack /\ top_elem = top
        /\ area = [g \in Granules |-> 0] /\ last = "init" /\ copy = [g \in Granules |-> 0]
        /\ bitmap = (IF Full THEN {StateChunk} ELSE {}) /\ bitmap_ckpt = {} /\ object_seeds = 0
    BY DEF Init, SetUp
  <1>4. MemoryTypeOK /\ FreeOnce
    BY SetUpIntact DEF Init
  <1>5. TypeOK
    BY <1>1, <1>4, Sizes, StateChunkType DEF TypeOK
  <1>7. UsageIsLive
    <2>1. ASSUME NEW k \in Chunks PROVE k \in Live <=> k = <<0, 0>>
      <3>1. k = <<k[1], k[2]>> /\ k[1] \in Classes /\ k[2] \in 0..(Size(k[1]) - 1)
        BY ChunkTypes
      <3>2. k \in Live <=> \A i \in top[k[1]]..(Size(k[1]) - 1) : FullStack[k[1]][i] # k[2]
        BY <1>1 DEF Live, LiveIn
      <3>3. top[k[1]]..(Size(k[1]) - 1) \subseteq 0..(Size(k[1]) - 1)
        BY <3>1, Sizes
      <3>4. k \in Live <=> k[2] \notin top[k[1]]..(Size(k[1]) - 1)
        BY <3>1, <3>2, <3>3 DEF FullStack
      <3>5. k[2] \notin top[k[1]]..(Size(k[1]) - 1) <=> k[1] = 0 /\ k[2] = 0
        BY <3>1, Sizes
      <3> QED
        BY <3>1, <3>4, <3>5
    <2>2. Live = {<<0, 0>>}
      BY <2>1, StateChunkType DEF Live, LiveIn
    <2> QED
      BY <2>2, <1>1, StateChunkType DEF UsageIsLive
  <1> QED
    BY <1>4, <1>5, <1>7 DEF IInv

LEMMA MallocPreserves ==
  ASSUME AllocatorAssumption, IInv, NEW size, MallocChunk(size)
  PROVE  IInv'
  <1>1. PICK k \in Chunks : /\ Malloc(size, k)
                            /\ bitmap' = IF Full THEN bitmap \cup {k} ELSE bitmap
                            /\ UNCHANGED <<copy, bitmap_ckpt, object_seeds>>
    BY DEF MallocChunk
  <1>2. UNCHANGED <<addresses_ckpt, top_elem_ckpt, area>> /\ Running
    BY <1>1 DEF Malloc, allocator_ckpt
  <1>3. /\ Stacks(addresses, top_elem)' /\ Distinct(addresses, top_elem)'
        /\ Live' = Live \cup {k}
    BY <1>1, MallocTakes DEF IInv, TypeOK, MemoryTypeOK, FreeOnce
  <1>4. TypeOK'
    BY <1>1, <1>2, <1>3 DEF Running, IInv, TypeOK, MemoryTypeOK
  <1>5. FreeOnce'
    BY <1>2, <1>3 DEF IInv, FreeOnce
  <1>6. UsageIsLive'
    BY <1>1, <1>2, <1>3 DEF Running, IInv, UsageIsLive, LiveAtCkpt, Full
  <1> QED
    BY <1>4, <1>5, <1>6 DEF IInv

LEMMA FreePreserves ==
  ASSUME AllocatorAssumption, IInv, NEW k \in Chunks, FreeChunk(k)
  PROVE  IInv'
  <1>1. /\ Free(k) /\ bitmap' = IF Full THEN bitmap \ {k} ELSE bitmap
        /\ UNCHANGED <<copy, bitmap_ckpt, object_seeds>>
    BY DEF FreeChunk
  <1>2. UNCHANGED <<addresses_ckpt, top_elem_ckpt, area>> /\ Running
    BY <1>1 DEF Free, allocator_ckpt
  <1>3. /\ Stacks(addresses, top_elem)' /\ Distinct(addresses, top_elem)'
        /\ Live' = Live \ {k}
    BY <1>1, FreeGivesBack DEF IInv, TypeOK, MemoryTypeOK, FreeOnce
  <1>4. TypeOK'
    BY <1>1, <1>2, <1>3 DEF Running, IInv, TypeOK, MemoryTypeOK
  <1>5. FreeOnce'
    BY <1>2, <1>3 DEF IInv, FreeOnce
  <1>6. UsageIsLive'
    BY <1>1, <1>2, <1>3 DEF Running, IInv, UsageIsLive, LiveAtCkpt, Full
  <1> QED
    BY <1>4, <1>5, <1>6 DEF IInv

LEMMA StorePreserves ==
  ASSUME AllocatorAssumption, IInv, NEW g \in Granules, NEW v \in Values, StoreInChunk(g, v)
  PROVE  IInv'
  <1>1. /\ UNCHANGED <<addresses, top_elem, addresses_ckpt, top_elem_ckpt, bitmap_ckpt, object_seeds>>
        /\ Running /\ area' = [h \in Granules |-> IF h \in {g} THEN v ELSE area[h]]
        /\ ChunkOf(g) \in Live /\ CkptChunk(ChunkOf(g))
    BY DEF StoreInChunk, Store, allocator, allocator_ckpt
  <1>2. /\ Live' = Live /\ LiveAtCkpt' = LiveAtCkpt
        /\ Full => bitmap' = bitmap
        /\ bitmap' \subseteq Chunks /\ copy' \in [Granules -> Values]
    <2>1. ChunkOf(g) \in Chunks
      BY <1>1 DEF Live, LiveIn
    <2>2. copy' \in [Granules -> Values]
      BY <1>1 DEF CkptChunk, Saved, IInv, TypeOK, MemoryTypeOK
    <2> QED
      BY <1>1, <2>1, <2>2 DEF CkptChunk, Live, LiveAtCkpt, IInv, TypeOK
  <1>3. TypeOK'
    BY <1>1, <1>2 DEF Running, IInv, TypeOK, MemoryTypeOK
  <1>4. FreeOnce'
    BY <1>1 DEF IInv, FreeOnce
  <1>5. UsageIsLive'
    BY <1>1, <1>2 DEF Running, IInv, UsageIsLive, Full
  <1> QED
    BY <1>3, <1>4, <1>5 DEF IInv

LEMMA DrawPreserves ==
  ASSUME AllocatorAssumption, IInv, DrawRandom
  PROVE  IInv'
  <1>1. /\ UNCHANGED <<addresses, top_elem, addresses_ckpt, top_elem_ckpt, copy, bitmap, bitmap_ckpt, object_seeds>>
        /\ Running /\ area' \in [Granules -> Values]
    BY DEF DrawRandom, Draw, allocator, allocator_ckpt, IInv, TypeOK, MemoryTypeOK
  <1>2. Live' = Live /\ LiveAtCkpt' = LiveAtCkpt
    BY <1>1 DEF Live, LiveAtCkpt
  <1> QED
    BY <1>1, <1>2 DEF Running, IInv, TypeOK, MemoryTypeOK, FreeOnce, UsageIsLive, Full

LEMMA SetPreserves ==
  ASSUME AllocatorAssumption, IInv, SetCkpt
  PROVE  /\ IInv'
         /\ LiveAtCkpt' = Live /\ Live' = Live
         /\ FreeStack(addresses_ckpt, top_elem_ckpt)' = FreeStack(addresses, top_elem)
  <1>1. /\ top_elem_ckpt' = top_elem /\ addresses_ckpt' = Copied(addresses, top_elem, addresses_ckpt)
        /\ addresses' = addresses /\ top_elem' = top_elem /\ area' = area /\ last' = "set"
        /\ object_seeds' = area[SeedGranule]
        /\ Full => bitmap_ckpt' = bitmap /\ copy' = Saved(bitmap) /\ bitmap' = bitmap
        /\ ~Full => bitmap' = {} /\ bitmap_ckpt' = bitmap_ckpt /\ copy' = copy
    BY DEF SetCkpt, SetAllocatorCkpt, allocator
  <1>2. /\ Stacks(addresses_ckpt', top_elem)
        /\ FreeStack(addresses_ckpt', top_elem) = FreeStack(addresses, top_elem)
        /\ LiveIn(addresses_ckpt', top_elem) = LiveIn(addresses, top_elem)
        /\ Distinct(addresses_ckpt', top_elem)
    BY <1>1, CopiedStacks DEF IInv, TypeOK, MemoryTypeOK, FreeOnce
  <1>3. object_seeds' \in Values /\ copy' \in [Granules -> Values]
    BY <1>1, StateChunkType DEF Saved, IInv, TypeOK, MemoryTypeOK
  <1>4. TypeOK'
    BY <1>1, <1>2, <1>3 DEF IInv, TypeOK, MemoryTypeOK
  <1>5. FreeOnce'
    BY <1>1, <1>2 DEF IInv, FreeOnce
  <1>6. LiveAtCkpt' = Live /\ Live' = Live
    BY <1>1, <1>2 DEF Live, LiveAtCkpt
  <1>7. UsageIsLive'
    BY <1>1, <1>6 DEF IInv, UsageIsLive, Full
  <1> QED
    BY <1>1, <1>2, <1>4, <1>5, <1>6, <1>7 DEF IInv

LEMMA RestorePreserves ==
  ASSUME AllocatorAssumption, IInv, RestoreObject
  PROVE  /\ IInv'
         /\ LiveAtCkpt' = LiveAtCkpt /\ Live' = LiveAtCkpt
         /\ FreeStack(addresses, top_elem)' = FreeStack(addresses_ckpt, top_elem_ckpt)
  <1> DEFINE chunks == IF Full THEN bitmap_ckpt ELSE bitmap
  <1>1. /\ top_elem' = top_elem_ckpt /\ addresses' = Copied(addresses_ckpt, top_elem_ckpt, addresses)
        /\ addresses_ckpt' = addresses_ckpt /\ top_elem_ckpt' = top_elem_ckpt
        /\ last # "init" /\ last' = "restore"
        /\ area' = [Reloaded(chunks) EXCEPT ![SeedGranule] = object_seeds]
        /\ bitmap' = (IF Full THEN bitmap_ckpt ELSE {})
        /\ UNCHANGED <<copy, bitmap_ckpt, object_seeds>>
    BY DEF RestoreObject, RestoreAllocator, allocator_ckpt
  <1>2. /\ Stacks(addresses', top_elem_ckpt)
        /\ FreeStack(addresses', top_elem_ckpt) = FreeStack(addresses_ckpt, top_elem_ckpt)
        /\ LiveIn(addresses', top_elem_ckpt) = LiveIn(addresses_ckpt, top_elem_ckpt)
        /\ Distinct(addresses', top_elem_ckpt)
    BY <1>1, CopiedStacks DEF IInv, TypeOK, MemoryTypeOK, FreeOnce
  <1>3. area' \in [Granules -> Values]
    <2>1. Reloaded(chunks) \in [Granules -> Values]
      BY DEF Reloaded, IInv, TypeOK, MemoryTypeOK
    <2> QED
      BY <2>1, <1>1 DEF IInv, TypeOK
  <1>4. TypeOK'
    BY <1>1, <1>2, <1>3 DEF IInv, TypeOK, MemoryTypeOK
  <1>5. FreeOnce'
    BY <1>1, <1>2 DEF IInv, FreeOnce
  <1>6. LiveAtCkpt' = LiveAtCkpt /\ Live' = LiveAtCkpt
    BY <1>1, <1>2 DEF Live, LiveAtCkpt
  <1>7. UsageIsLive'
    BY <1>1, <1>6 DEF IInv, UsageIsLive, Full
  <1> QED
    BY <1>1, <1>2, <1>4, <1>5, <1>6, <1>7 DEF IInv

LEMMA StepPreserves ==
  ASSUME AllocatorAssumption
  PROVE  IInv /\ [Next]_vars => IInv'
  <1> SUFFICES ASSUME IInv, [Next]_vars PROVE IInv'
    OBVIOUS
  <1>1. CASE Next
    BY <1>1, MallocPreserves, FreePreserves, StorePreserves, DrawPreserves, SetPreserves,
       RestorePreserves DEF Next, RunObject
  <1>2. CASE UNCHANGED vars
    BY <1>2 DEF vars, allocator, allocator_ckpt, IInv, TypeOK, MemoryTypeOK, FreeOnce, UsageIsLive,
                Live, LiveAtCkpt, Full
  <1> QED
    BY <1>1, <1>2

-----------------------------------------------------------------------------
(* What a restore would make of the object *)

\* The contents a restore gives to granule g.
AfterRestore(g) ==
    IF g = SeedGranule THEN object_seeds
    ELSE IF ChunkOf(g) \in (IF Full THEN bitmap_ckpt ELSE bitmap) THEN copy[g] ELSE area[g]

LEMMA RecoverableIs ==
  /\ Recoverable = [heap |-> [g \in Visible(LiveAtCkpt) |-> AfterRestore(g)],
                    free |-> FreeStack(addresses_ckpt, top_elem_ckpt)]
  /\ Recoverable' = [heap |-> [g \in Visible(LiveAtCkpt') |-> AfterRestore(g)'],
                     free |-> FreeStack(addresses_ckpt', top_elem_ckpt')]
  <1>1. \A S : Visible(S) \subseteq Granules
    BY DEF Visible, GranulesOf
  <1>2. \A g \in Granules : Reloaded(IF Full THEN bitmap_ckpt ELSE bitmap)[g] =
            IF ChunkOf(g) \in (IF Full THEN bitmap_ckpt ELSE bitmap) THEN copy[g] ELSE area[g]
    BY DEF Reloaded
  <1>3. \A g \in Granules : Reloaded(IF Full THEN bitmap_ckpt ELSE bitmap)'[g] =
            IF ChunkOf(g) \in (IF Full THEN bitmap_ckpt' ELSE bitmap') THEN copy'[g] ELSE area'[g]
    BY DEF Reloaded, Full
  <1>4. Recoverable = [heap |-> [g \in Visible(LiveAtCkpt) |-> AfterRestore(g)],
                       free |-> FreeStack(addresses_ckpt, top_elem_ckpt)]
    BY <1>1, <1>2 DEF Recoverable, AfterRestore
  <1>5. Recoverable' = [heap |-> [g \in Visible(LiveAtCkpt') |-> AfterRestore(g)'],
                        free |-> FreeStack(addresses_ckpt', top_elem_ckpt')]
    BY <1>1, <1>3 DEF Recoverable, AfterRestore, Full, Visible
  <1> QED
    BY <1>4, <1>5

\* The granules a CHUNK_FULL rollback shows are those it has copies of.
LEMMA FullShowsCopies ==
  ASSUME IInv, Full, last # "init", NEW g \in Visible(LiveAtCkpt)
  PROVE  ChunkOf(g) \in bitmap_ckpt
  BY DEF IInv, UsageIsLive, Visible, GranulesOf

\* While the model runs, a restore would make the same of the object.
LEMMA RunKeeps ==
  ASSUME IInv, last # "init",
         addresses_ckpt' = addresses_ckpt, top_elem_ckpt' = top_elem_ckpt,
         \A g \in Visible(LiveAtCkpt) : AfterRestore(g)' = AfterRestore(g)
  PROVE  Recoverable' = Recoverable
  <1>1. LiveAtCkpt' = LiveAtCkpt
    BY DEF LiveAtCkpt
  <1> QED
    BY <1>1, RecoverableIs

LEMMA AllocationKeeps ==
  ASSUME IInv, last # "init",
         UNCHANGED <<addresses_ckpt, top_elem_ckpt, area, copy, bitmap_ckpt, object_seeds>>,
         Full \/ bitmap' = bitmap
  PROVE  Recoverable' = Recoverable
  BY RunKeeps DEF AfterRestore, Full

LEMMA StoreKeeps ==
  ASSUME AllocatorAssumption, IInv, last # "init",
         NEW g \in Granules, NEW v \in Values, StoreInChunk(g, v)
  PROVE  Recoverable' = Recoverable
  <1> DEFINE k == ChunkOf(g)
  <1>1. /\ UNCHANGED <<addresses_ckpt, top_elem_ckpt, bitmap_ckpt, object_seeds>>
        /\ \A h \in Granules : h # g => area'[h] = area[h]
        /\ CkptChunk(k)
    BY DEF StoreInChunk, Store, allocator_ckpt
  <1>2. ASSUME NEW h \in Visible(LiveAtCkpt) PROVE AfterRestore(h)' = AfterRestore(h)
    <2>1. h \in Granules
      BY DEF Visible, GranulesOf
    <2>2. CASE Full
      BY <2>1, <2>2, <1>1, FullShowsCopies DEF AfterRestore, CkptChunk, Full
    <2>3. CASE ~Full /\ k \in bitmap
      BY <2>1, <2>3, <1>1 DEF AfterRestore, CkptChunk, Full
    <2>4. CASE ~Full /\ k \notin bitmap
      <3>1. bitmap' = bitmap \cup {k} /\ copy'[h] = IF ChunkOf(h) = k THEN area[h] ELSE copy[h]
        BY <2>1, <2>4, <1>1 DEF CkptChunk, Saved
      <3> QED
        BY <3>1, <2>1, <2>4, <1>1 DEF AfterRestore, Full
    <2> QED
      BY <2>2, <2>3, <2>4
  <1> QED
    BY <1>1, <1>2, RunKeeps

LEMMA DrawKeeps ==
  ASSUME AllocatorAssumption, IInv, last # "init", DrawRandom
  PROVE  Recoverable' = Recoverable
  <1>1. /\ UNCHANGED <<addresses_ckpt, top_elem_ckpt, copy, bitmap, bitmap_ckpt, object_seeds>>
        /\ \A h \in Granules : h # SeedGranule => area'[h] = area[h]
    BY DEF DrawRandom, Draw, allocator_ckpt, IInv, TypeOK, MemoryTypeOK
  <1>2. \A h \in Granules : AfterRestore(h)' = AfterRestore(h)
    BY <1>1 DEF AfterRestore, Full
  <1>3. Visible(LiveAtCkpt) \subseteq Granules
    BY DEF Visible, GranulesOf
  <1> QED
    BY <1>1, <1>2, <1>3, RunKeeps

-----------------------------------------------------------------------------
(* The refinement *)

LEMMA StepsMap ==
  ASSUME AllocatorAssumption, IInv, Next
  PROVE  Abstract!Next
  <1>1. ASSUME Running, last # "init" => Recoverable' = Recoverable PROVE Abstract!Next
    BY <1>1 DEF Running, Abstract!Next, Abstract!Run
  <1>2. ASSUME NEW size, MallocChunk(size) PROVE Abstract!Next
    <2>1. /\ Running /\ UNCHANGED <<addresses_ckpt, top_elem_ckpt, area, copy, bitmap_ckpt, object_seeds>>
          /\ Full \/ bitmap' = bitmap
      BY <1>2 DEF MallocChunk, Malloc, allocator_ckpt
    <2> QED
      BY <2>1, <1>1, AllocationKeeps
  <1>3. ASSUME NEW k \in Chunks, FreeChunk(k) PROVE Abstract!Next
    <2>1. /\ Running /\ UNCHANGED <<addresses_ckpt, top_elem_ckpt, area, copy, bitmap_ckpt, object_seeds>>
          /\ Full \/ bitmap' = bitmap
      BY <1>3 DEF FreeChunk, Free, allocator_ckpt
    <2> QED
      BY <2>1, <1>1, AllocationKeeps
  <1>4. ASSUME NEW g \in Granules, NEW v \in Values, StoreInChunk(g, v) PROVE Abstract!Next
    <2>1. Running
      BY <1>4 DEF StoreInChunk, Store
    <2> QED
      BY <2>1, <1>1, <1>4, StoreKeeps
  <1>5. CASE DrawRandom
    <2>1. Running
      BY <1>5 DEF DrawRandom, Draw
    <2> QED
      BY <2>1, <1>1, <1>5, DrawKeeps
  <1>6. CASE SetCkpt
    <2>1. /\ LiveAtCkpt' = Live /\ Live' = Live
          /\ FreeStack(addresses_ckpt', top_elem_ckpt') = FreeStack(addresses, top_elem)
          /\ IInv'
      BY <1>6, SetPreserves
    <2>2. /\ last' = "set" /\ area' = area /\ addresses' = addresses /\ top_elem' = top_elem
          /\ object_seeds' = area[SeedGranule]
          /\ Full => bitmap_ckpt' = bitmap /\ copy' = Saved(bitmap)
          /\ ~Full => bitmap' = {}
      BY <1>6 DEF SetCkpt, SetAllocatorCkpt, allocator
    <2>3. \A g \in Visible(Live) : AfterRestore(g)' = area[g]
      <3> SUFFICES ASSUME NEW g \in Visible(Live) PROVE AfterRestore(g)' = area[g]
        OBVIOUS
      <3>1. g \in Granules /\ (Full => ChunkOf(g) \in bitmap)
        BY DEF Visible, GranulesOf, IInv, UsageIsLive
      <3>2. CASE Full
        BY <3>1, <3>2, <2>2 DEF AfterRestore, Saved, Full
      <3>3. CASE ~Full
        BY <3>1, <3>3, <2>2 DEF AfterRestore, Full
      <3> QED
        BY <3>2, <3>3
    <2>4. Recoverable' = Object
      BY <2>1, <2>3, RecoverableIs DEF Object
    <2>5. Object' = Object
      BY <2>1, <2>2 DEF Object, Visible, Full
    <2> QED
      BY <2>2, <2>4, <2>5 DEF Abstract!Next, Abstract!Set
  <1>7. CASE RestoreObject
    <2> DEFINE chunks == IF Full THEN bitmap_ckpt ELSE bitmap
    <2>1. /\ LiveAtCkpt' = LiveAtCkpt /\ Live' = LiveAtCkpt
          /\ FreeStack(addresses', top_elem') = FreeStack(addresses_ckpt, top_elem_ckpt)
      BY <1>7, RestorePreserves
    <2>2. /\ last # "init" /\ last' = "restore"
          /\ addresses_ckpt' = addresses_ckpt /\ top_elem_ckpt' = top_elem_ckpt
          /\ area' = [Reloaded(chunks) EXCEPT ![SeedGranule] = object_seeds]
          /\ bitmap' = (IF Full THEN bitmap_ckpt ELSE {})
          /\ UNCHANGED <<copy, bitmap_ckpt, object_seeds>>
      BY <1>7 DEF RestoreObject, RestoreAllocator, allocator_ckpt
    <2>3. \A g \in Granules : area'[g] = AfterRestore(g)
      BY <2>2 DEF Reloaded, AfterRestore
    <2>4. \A g \in Granules : AfterRestore(g)' = AfterRestore(g)
      BY <2>2, <2>3 DEF AfterRestore, Full
    <2>5. \A S : Visible(S)' = Visible(S) /\ Visible(S) \subseteq Granules
      BY DEF Visible, GranulesOf, Full
    <2>6. Object' = [heap |-> [g \in Visible(Live') |-> area'[g]], free |-> FreeStack(addresses', top_elem')]
      BY DEF Object, Visible, Full
    <2>7. Object' = Recoverable
      BY <2>1, <2>3, <2>5, <2>6, RecoverableIs
    <2>8. Recoverable' = Recoverable
      BY <2>2, <2>4, <2>5, RunKeeps
    <2> QED
      BY <2>2, <2>7, <2>8 DEF Abstract!Next, Abstract!Restore
  <1> QED
    BY <1>2, <1>3, <1>4, <1>5, <1>6, <1>7 DEF Next, RunObject

-----------------------------------------------------------------------------
(* Theorems *)

LEMMA Inductive ==
  ASSUME AllocatorAssumption
  PROVE  Spec => []IInv
  <1>1. Init => IInv
    BY InitEstablishes
  <1>2. IInv /\ [Next]_vars => IInv'
    BY StepPreserves
  <1> QED
    BY <1>1, <1>2, PTL DEF Spec

\* Every variable keeps its type, for any classes, chunks and segments: the
\* stacks of free chunks neither overflow nor underflow.
THEOREM TypeCorrect ==
  ASSUME AllocatorAssumption
  PROVE  Spec => []TypeOK
  <1>1. IInv => TypeOK
    BY DEF IInv
  <1> QED
    BY <1>1, Inductive, PTL

\* No chunk is free twice, now or at the checkpoint (memory.c): malloc never
\* hands out memory the model holds, whatever it allocated, freed and rolled
\* back, for any classes and segments.
THEOREM NoChunkFreeTwice ==
  ASSUME AllocatorAssumption
  PROVE  Spec => []FreeOnce
  <1>1. IInv => FreeOnce
    BY DEF IInv
  <1> QED
    BY <1>1, Inductive, PTL

\* In the CHUNK_FULL build the bitmap of usage is what the allocator has handed
\* out, so that a checkpoint copies every chunk in use.
THEOREM BitmapIsUsage ==
  ASSUME AllocatorAssumption
  PROVE  Spec => []UsageIsLive
  <1>1. IInv => UsageIsLive
    BY DEF IInv
  <1> QED
    BY <1>1, Inductive, PTL

\* All of these together, for both chunk builds.
THEOREM ChunkMemoryIntact ==
  ASSUME AllocatorAssumption
  PROVE  Spec => []MemoryIntact
  <1>1. IInv => MemoryIntact
    BY DEF IInv, MemoryIntact
  <1> QED
    BY <1>1, Inductive, PTL

\* Both builds are checkpointing schemes: a restore gives back the memory, the
\* free chunks in their order and the seeds that the last checkpoint saw
\* (restore_object and set_ckpt of chunk_ckpt.c), for any sizes.
THEOREM ChunksRestoreCheckpoint ==
  ASSUME AllocatorAssumption
  PROVE  Spec => RestoresCheckpoint
  <1>1. Init => Abstract!Init
    BY DEF Init, SetUp, Abstract!Init
  <1>2. IInv /\ [Next]_vars => [Abstract!Next]_<<Object, Recoverable, last>>
    <2> SUFFICES ASSUME IInv, [Next]_vars PROVE [Abstract!Next]_<<Object, Recoverable, last>>
      OBVIOUS
    <2>1. CASE Next
      BY <2>1, StepsMap
    <2>2. CASE UNCHANGED vars
      BY <2>2 DEF vars, allocator, allocator_ckpt, Object, Recoverable, Visible, Live, LiveAtCkpt,
                  Reloaded, Full
    <2> QED
      BY <2>1, <2>2
  <1> QED
    BY <1>1, <1>2, Inductive, PTL DEF Spec, RestoresCheckpoint, Abstract!Spec

-----------------------------------------------------------------------------
(* The chunk checkpoints: the comparison of the DEBUG build *)

\* What a restore would give back is what the shadow holds, and what a restore has
\* given back is still there.
ShadowMatches ==
    /\ shadow_area \in [Granules -> Values]
    /\ last # "init" => \A g \in DOMAIN Recoverable.heap : Recoverable.heap[g] = shadow_area[g]
    /\ last = "restore" => Object = Recoverable

LEMMA ShadowStep ==
  ASSUME AllocatorAssumption, IInv, ShadowMatches, [DebugNext]_debug_vars
  PROVE  ShadowMatches'
  <1>1. CASE DebugSetCkpt
    <2>1. Abstract!Next /\ last' = "set" /\ shadow_area' = area
      BY <1>1, StepsMap DEF DebugSetCkpt, SetCkpt, Next
    <2>2. Recoverable' = Object
      BY <2>1 DEF Abstract!Next, Abstract!Run, Abstract!Set, Abstract!Restore
    <2>3. \A g \in DOMAIN Object.heap : Object.heap[g] = area[g]
      BY DEF Object
    <2>4. shadow_area' \in [Granules -> Values]
      BY <2>1 DEF IInv, TypeOK, MemoryTypeOK
    <2> QED
      BY <2>1, <2>2, <2>3, <2>4 DEF ShadowMatches
  <1>2. CASE (RunObject \/ RestoreObject) /\ UNCHANGED shadow_area
    <2>1. Abstract!Next
      BY <1>2, StepsMap DEF Next
    <2>2. last' # "set"
      BY <1>2 DEF RunObject, RestoreObject, MallocChunk, Malloc, FreeChunk, Free, StoreInChunk, Store,
                  DrawRandom, Draw, Running
    <2>3. last # "init" => Recoverable' = Recoverable
      BY <2>1, <2>2 DEF Abstract!Next, Abstract!Run, Abstract!Set, Abstract!Restore
    <2>4. last' = "restore" => Object' = Recoverable'
      BY <2>1 DEF Abstract!Next, Abstract!Run, Abstract!Set, Abstract!Restore
    <2>5. last' # "init" => last # "init"
      BY <2>1, <2>2 DEF Abstract!Next, Abstract!Run, Abstract!Set, Abstract!Restore
    <2> QED
      BY <1>2, <2>3, <2>4, <2>5 DEF ShadowMatches
  <1>3. CASE UNCHANGED debug_vars
    <2>1. UNCHANGED <<Object, Recoverable, last, shadow_area>>
      BY <1>3 DEF debug_vars, vars, allocator, allocator_ckpt, Object, Recoverable, Visible, Live,
                  LiveAtCkpt, Reloaded, Full
    <2> QED
      BY <2>1 DEF ShadowMatches
  <1> QED
    BY <1>1, <1>2, <1>3 DEF DebugNext

LEMMA ShadowInductive ==
  ASSUME AllocatorAssumption
  PROVE  DebugSpec => [](IInv /\ ShadowMatches)
  <1>1. DebugInit => Init /\ ShadowMatches
    <2> SUFFICES ASSUME DebugInit PROVE Init /\ ShadowMatches
      OBVIOUS
    <2>1. Init /\ last = "init" /\ shadow_area \in [Granules -> Values]
      BY Sizes DEF DebugInit, Init, SetUp
    <2> QED
      BY <2>1 DEF ShadowMatches
  <1>2. [DebugNext]_debug_vars => [Next]_vars
    BY DEF DebugNext, DebugSetCkpt, Next, debug_vars
  <1>3. IInv /\ ShadowMatches /\ [DebugNext]_debug_vars => ShadowMatches'
    BY ShadowStep
  <1> QED
    BY <1>1, <1>2, <1>3, Inductive, PTL DEF DebugSpec, Spec

\* With CHUNK_BASED_SAVE the check of the DEBUG build (chunk_ckpt.c:47) never fails:
\* after a restore every byte of the area, of the free chunks too, is what it was at
\* the checkpoint, for any sizes.
THEOREM ChunkRestoreMatchesShadow ==
  ASSUME AllocatorAssumption, ~Full
  PROVE  DebugSpec => []RestoreComplete
  <1>1. IInv /\ ShadowMatches => RestoreComplete
    <2> SUFFICES ASSUME IInv, ShadowMatches, last = "restore" PROVE area = shadow_area
      BY DEF RestoreComplete
    <2>1. Object.heap = [g \in Granules |-> area[g]]
      BY DEF Object, Visible
    <2>2. \A g \in Granules : area[g] = shadow_area[g]
      BY <2>1 DEF ShadowMatches
    <2> QED
      BY <2>2 DEF ShadowMatches, IInv, TypeOK, MemoryTypeOK
  <1> QED
    BY <1>1, ShadowInductive, PTL

\* What CHUNK_FULL keeps of that check, which it does not pass: after a restore every
\* byte of the chunks in use is what it was at the checkpoint, in both builds.
InUseComplete == last = "restore" => \A g \in GranulesOf(Live) : area[g] = shadow_area[g]

THEOREM ChunksInUseMatchShadow ==
  ASSUME AllocatorAssumption
  PROVE  DebugSpec => []InUseComplete
  <1>1. ShadowMatches => InUseComplete
    <2> SUFFICES ASSUME ShadowMatches, last = "restore", NEW g \in GranulesOf(Live)
                 PROVE  area[g] = shadow_area[g]
      BY DEF InUseComplete
    <2>1. g \in Visible(Live)
      BY DEF Visible, GranulesOf
    <2>2. g \in DOMAIN Object.heap /\ Object.heap[g] = area[g]
      BY <2>1 DEF Object
    <2> QED
      BY <2>2 DEF ShadowMatches
  <1> QED
    BY <1>1, ShadowInductive, PTL

-----------------------------------------------------------------------------
(* The grid checkpoints: the allocator is the same *)

LEMMA GridSizes ==
  /\ Grid!Classes = Classes /\ Grid!Granules = Granules /\ Grid!Chunks = Chunks
  /\ \A c \in Classes : Grid!Size(c) = Size(c) /\ Grid!ChunkSize(c) = ChunkSize(c)
  /\ Grid!AllocatorAssumption <=> AllocatorAssumption
  /\ Grid!SeedGranule = SeedGranule
  <1>1. Grid!Classes = Classes /\ Grid!Granules = Granules /\ Grid!SeedGranule = SeedGranule
    BY DEF Grid!Classes, Classes, Grid!Granules, Granules, Grid!SeedGranule, SeedGranule
  <1>2. \A c : Grid!Size(c) = Size(c) /\ Grid!ChunkSize(c) = ChunkSize(c)
    BY DEF Grid!Size, Size, Grid!ChunkSize, ChunkSize
  <1>3. Grid!Chunks = Chunks
    BY <1>1, <1>2 DEF Grid!Chunks, Chunks
  <1>4. Grid!AllocatorAssumption <=> AllocatorAssumption
    BY <1>1, <1>2 DEF Grid!AllocatorAssumption, AllocatorAssumption
  <1> QED
    BY <1>1, <1>2, <1>3, <1>4

LEMMA GridAllocator ==
  /\ \A size, k : Grid!Malloc(size, k) <=> Malloc(size, k)
  /\ \A k : Grid!Free(k) <=> Free(k)
  /\ Grid!SetAllocatorCkpt <=> SetAllocatorCkpt
  /\ Grid!RestoreAllocator <=> RestoreAllocator
  /\ Grid!FreeStack(addresses, top_elem) = FreeStack(addresses, top_elem)
  /\ Grid!FreeStack(addresses_ckpt, top_elem_ckpt) = FreeStack(addresses_ckpt, top_elem_ckpt)
  <1>1. \A size, k : Grid!Malloc(size, k) <=> Malloc(size, k)
    BY DEF Grid!Malloc, Malloc, Grid!Chunks, Chunks, Grid!Classes, Classes, Grid!Size, Size,
           Grid!ChunkSize, ChunkSize, Grid!ClassFor, ClassFor, Grid!UsedUp, UsedUp, Grid!Running, Running,
           Grid!allocator_ckpt, allocator_ckpt
  <1>2. \A k : Grid!Free(k) <=> Free(k)
    BY DEF Grid!Free, Free, Grid!Live, Live, Grid!LiveIn, LiveIn, Grid!Chunks, Chunks, Grid!Classes, Classes,
           Grid!Size, Size, Grid!ChunkSize, ChunkSize, Grid!StateChunk, StateChunk, Grid!ChunkOf, ChunkOf,
           Grid!SeedGranule, SeedGranule, Grid!Running, Running, Grid!allocator_ckpt, allocator_ckpt
  <1>3. Grid!SetAllocatorCkpt <=> SetAllocatorCkpt
    BY DEF Grid!SetAllocatorCkpt, SetAllocatorCkpt, Grid!Copied, Copied, Grid!Classes, Classes,
           Grid!Size, Size, Grid!ChunkSize, ChunkSize, Grid!allocator, allocator
  <1>4. Grid!RestoreAllocator <=> RestoreAllocator
    BY DEF Grid!RestoreAllocator, RestoreAllocator, Grid!Copied, Copied, Grid!Classes, Classes,
           Grid!Size, Size, Grid!ChunkSize, ChunkSize, Grid!allocator_ckpt, allocator_ckpt
  <1>5. \A s, t : Grid!FreeStack(s, t) = FreeStack(s, t)
    BY DEF Grid!FreeStack, FreeStack, Grid!Classes, Classes, Grid!Size, Size, Grid!ChunkSize, ChunkSize
  <1> QED
    BY <1>1, <1>2, <1>3, <1>4, <1>5

\* The vocabulary of the grid checkpoints, over that of the allocator.
Mirrored == GridBuild = "GRID_CKPT_BS"
Unmarked(g) == g \notin bitmap
AfterGrid(g) ==
    IF g = SeedGranule THEN object_seeds ELSE IF Unmarked(g) THEN area[g] ELSE copy[g]

\* The instruction that saves a granule knows its address: MVM_GRID_CKPT_BS
\* spoils %rax before it computes the address of a store through it.
AddressKnown == ~(Mirrored /\ ThroughRax)

\* Where BS has not marked a granule since the checkpoint, the copy is as good
\* as the area; and its copy of the seeds is what the rollback brings back.
\* A rollback leaves nothing marked.
CopyIsArea ==
    Mirrored /\ last # "init" =>
        /\ \A g \in Granules : g # SeedGranule /\ Unmarked(g) => copy[g] = area[g]
        /\ copy[SeedGranule] = object_seeds

AsRestored == last = "restore" => bitmap = {} /\ area[SeedGranule] = object_seeds

GridIInv ==
    /\ MemoryTypeOK /\ FreeOnce
    /\ copy \in [Granules -> Values] /\ object_seeds \in Values
    /\ bitmap \subseteq Granules \cup (IF Mirrored THEN {NumClasses * SEGMENT} ELSE {})
    /\ CopyIsArea /\ AsRestored

\* What the operators of the grid module are in this vocabulary.
LEMMA GridOperators ==
  /\ Grid!Object = [heap |-> area, free |-> FreeStack(addresses, top_elem)]
  /\ Grid!Recoverable = [heap |-> [[g \in Granules |-> IF g \in bitmap THEN copy[g] ELSE area[g]]
                                       EXCEPT ![SeedGranule] = object_seeds],
                         free |-> FreeStack(addresses_ckpt, top_elem_ckpt)]
  <1>1. Grid!Object = [heap |-> area, free |-> FreeStack(addresses, top_elem)]
    BY GridAllocator DEF Grid!Object
  <1>2. Grid!Reloaded = [g \in Granules |-> IF g \in bitmap THEN copy[g] ELSE area[g]]
    BY GridSizes DEF Grid!Reloaded
  <1> QED
    BY <1>1, <1>2, GridSizes, GridAllocator DEF Grid!Recoverable

LEMMA GridInvariants ==
  ASSUME AllocatorAssumption, GridIInv
  PROVE  Grid!TypeOK /\ Grid!FreeOnce
  <1>1. NumClasses * SEGMENT - 1 + 1 = NumClasses * SEGMENT
    BY DEF AllocatorAssumption
  <1>2. Grid!MemoryTypeOK
    BY GridSizes DEF Grid!MemoryTypeOK, Grid!Stacks, Stacks, GridIInv, MemoryTypeOK
  <1>3. Grid!FreeOnce
    BY GridSizes DEF Grid!FreeOnce, Grid!Distinct, Distinct, GridIInv, FreeOnce
  <1>4. Grid!TypeOK
    BY <1>1, <1>2, GridSizes DEF Grid!TypeOK, Grid!BS, Grid!LastGranule, Mirrored, GridIInv
  <1> QED
    BY <1>3, <1>4

-----------------------------------------------------------------------------
(* The grid checkpoints: the steps *)

LEMMA GridInit ==
  ASSUME AllocatorAssumption, Grid!Init
  PROVE  GridIInv
  <1>1. /\ SetUp /\ area = [g \in Granules |-> 0] /\ last = "init" /\ copy = [g \in Granules |-> 0]
        /\ bitmap = {} /\ object_seeds = 0
    <2>1. Grid!FullStack = FullStack
      BY GridSizes DEF Grid!FullStack, FullStack
    <2> QED
      BY <2>1, GridSizes DEF Grid!Init, Grid!SetUp, SetUp
  <1>2. MemoryTypeOK /\ FreeOnce
    BY <1>1, SetUpIntact
  <1> QED
    BY <1>1, <1>2, Sizes DEF GridIInv, CopyIsArea, AsRestored

\* What each action does: the model runs, and a restore would make the same of
\* the object as before; or a checkpoint is set; or the object is restored.
LEMMA GridMalloc ==
  ASSUME AllocatorAssumption, GridIInv, NEW size, Grid!MallocChunk(size)
  PROVE  /\ GridIInv' /\ Running
         /\ UNCHANGED <<addresses_ckpt, top_elem_ckpt, area, copy, bitmap, object_seeds>>
  <1>1. PICK k : Malloc(size, k) /\ UNCHANGED <<copy, bitmap, object_seeds>>
    BY GridAllocator DEF Grid!MallocChunk
  <1>2. UNCHANGED <<addresses_ckpt, top_elem_ckpt, area>> /\ Running
    BY <1>1 DEF Malloc, allocator_ckpt
  <1>3. Stacks(addresses, top_elem)' /\ Distinct(addresses, top_elem)'
    BY <1>1, MallocTakes DEF GridIInv, MemoryTypeOK, FreeOnce
  <1>4. MemoryTypeOK' /\ FreeOnce'
    BY <1>2, <1>3 DEF Running, GridIInv, MemoryTypeOK, FreeOnce
  <1>5. CopyIsArea' /\ AsRestored'
    BY <1>1, <1>2 DEF Running, GridIInv, CopyIsArea, AsRestored, Unmarked
  <1> QED
    BY <1>1, <1>2, <1>4, <1>5 DEF GridIInv

LEMMA GridFree ==
  ASSUME AllocatorAssumption, GridIInv, NEW k, Grid!FreeChunk(k)
  PROVE  /\ GridIInv' /\ Running
         /\ UNCHANGED <<addresses_ckpt, top_elem_ckpt, area, copy, bitmap, object_seeds>>
  <1>1. Free(k) /\ UNCHANGED <<copy, bitmap, object_seeds>>
    BY GridAllocator DEF Grid!FreeChunk
  <1>2. UNCHANGED <<addresses_ckpt, top_elem_ckpt, area>> /\ Running
    BY <1>1 DEF Free, allocator_ckpt
  <1>3. Stacks(addresses, top_elem)' /\ Distinct(addresses, top_elem)'
    BY <1>1, FreeGivesBack DEF GridIInv, MemoryTypeOK, FreeOnce
  <1>4. MemoryTypeOK' /\ FreeOnce'
    BY <1>2, <1>3 DEF Running, GridIInv, MemoryTypeOK, FreeOnce
  <1>5. CopyIsArea' /\ AsRestored'
    BY <1>1, <1>2 DEF Running, GridIInv, CopyIsArea, AsRestored, Unmarked
  <1> QED
    BY <1>1, <1>2, <1>4, <1>5 DEF GridIInv

\* A store changes no granule that has not been reached by the code before it.
LEMMA WrittenIsReached ==
  ASSUME AllocatorAssumption, NEW g \in Granules, NEW aligned \in BOOLEAN, NEW written,
         written \subseteq Granules,
         written = {g} \/ (~aligned /\ written = {g, g + 1})
  PROVE  /\ written \subseteq Grid!Reached(g, aligned)
         /\ Grid!Reached(g, aligned) \subseteq
               Granules \cup (IF Mirrored THEN {NumClasses * SEGMENT} ELSE {})
  <1> DEFINE n == NumClasses * SEGMENT
  <1>1. n \in Nat \ {0} /\ g \in 0..(n - 1) /\ Granules = 0..(n - 1)
    BY DEF AllocatorAssumption, Granules
  <1>2. Grid!Following(g) = IF g < n - 1 \/ Mirrored THEN {g + 1} ELSE IF MOD = 8 THEN {} ELSE {0}
    BY DEF Grid!Following, Grid!LastGranule, Grid!BS, Mirrored
  <1> HIDE DEF n
  <1>3. g + 1 \in Granules => g < n - 1
    BY <1>1
  <1>4. Grid!Following(g) \subseteq Granules \cup (IF Mirrored THEN {n} ELSE {})
    BY <1>1, <1>2
  <1>5. ~aligned /\ written = {g, g + 1} => g + 1 \in Grid!Following(g)
    BY <1>2, <1>3
  <1> QED
    BY <1>4, <1>5 DEF Grid!Reached, n

LEMMA GridStore ==
  ASSUME AllocatorAssumption, AddressKnown, GridIInv, NEW g \in Granules, NEW aligned \in BOOLEAN,
         NEW written, NEW v \in Values, written = {g} \/ (~aligned /\ written = {g, g + 1}),
         Grid!StoreInGrid(g, aligned, written, v)
  PROVE  /\ GridIInv' /\ Running
         /\ UNCHANGED <<addresses_ckpt, top_elem_ckpt, object_seeds>>
         /\ last # "init" => \A h \in Granules : AfterGrid(h)' = AfterGrid(h)
  <1> DEFINE reached == Grid!Reached(g, aligned)
  <1>1. /\ written \subseteq Granules
        /\ Grid!CkptAssembly(g, aligned)
        /\ area' = [h \in Granules |-> IF h \in written THEN v ELSE area[h]]
        /\ Running
        /\ UNCHANGED <<addresses, top_elem, addresses_ckpt, top_elem_ckpt, object_seeds>>
    <2>1. Grid!Addressed(g) = {g}
      BY DEF Grid!Addressed, Grid!BS, AddressKnown, Mirrored
    <2> QED
      BY <2>1, GridSizes DEF Grid!StoreInGrid, Grid!Store, Grid!allocator, Grid!allocator_ckpt,
                             Grid!Running, Running
  <1>2. /\ bitmap' = bitmap \cup reached
        /\ copy' = IF Mirrored THEN copy
                   ELSE [h \in Granules |-> IF h \in reached \ bitmap THEN area[h] ELSE copy[h]]
    BY <1>1, GridSizes DEF Grid!CkptAssembly, Grid!BS, Mirrored
  <1>3. /\ written \subseteq reached
        /\ reached \subseteq Granules \cup (IF Mirrored THEN {NumClasses * SEGMENT} ELSE {})
    BY <1>1, WrittenIsReached
  <1> HIDE DEF reached
  <1>4. /\ area' \in [Granules -> Values] /\ copy' \in [Granules -> Values]
        /\ bitmap' \subseteq Granules \cup (IF Mirrored THEN {NumClasses * SEGMENT} ELSE {})
    BY <1>1, <1>2, <1>3 DEF GridIInv, MemoryTypeOK
  <1>5. MemoryTypeOK' /\ FreeOnce'
    BY <1>1, <1>4 DEF Running, GridIInv, MemoryTypeOK, FreeOnce
  <1>6. CopyIsArea' /\ AsRestored'
    BY <1>1, <1>2, <1>3 DEF Running, GridIInv, CopyIsArea, AsRestored, Unmarked
  <1>7. ASSUME last # "init", NEW h \in Granules PROVE AfterGrid(h)' = AfterGrid(h)
    <2>1. CASE h \in bitmap
      BY <2>1, <1>1, <1>2 DEF AfterGrid, Unmarked
    <2>2. CASE h \notin bitmap /\ h \in reached
      BY <2>2, <1>1, <1>2, <1>7 DEF AfterGrid, Unmarked, GridIInv, CopyIsArea
    <2>3. CASE h \notin bitmap /\ h \notin reached
      BY <2>3, <1>1, <1>2, <1>3 DEF AfterGrid, Unmarked
    <2> QED
      BY <2>1, <2>2, <2>3
  <1> QED
    BY <1>1, <1>4, <1>5, <1>6, <1>7 DEF GridIInv

LEMMA GridDraw ==
  ASSUME AllocatorAssumption, GridIInv, Grid!DrawRandom
  PROVE  /\ GridIInv' /\ Running
         /\ UNCHANGED <<addresses_ckpt, top_elem_ckpt, object_seeds>>
         /\ \A h \in Granules : AfterGrid(h)' = AfterGrid(h)
  <1>1. PICK s \in Values : area' = [area EXCEPT ![SeedGranule] = s]
    BY GridSizes DEF Grid!DrawRandom, Grid!Draw
  <1>2. /\ UNCHANGED <<addresses, top_elem, addresses_ckpt, top_elem_ckpt, copy, bitmap, object_seeds>>
        /\ Running
    BY DEF Grid!DrawRandom, Grid!Draw, Grid!allocator, Grid!allocator_ckpt, Grid!Running, Running
  <1>3. area' \in [Granules -> Values] /\ \A h \in Granules : h # SeedGranule => area'[h] = area[h]
    BY <1>1 DEF GridIInv, MemoryTypeOK
  <1>4. MemoryTypeOK' /\ FreeOnce'
    BY <1>2, <1>3 DEF Running, GridIInv, MemoryTypeOK, FreeOnce
  <1>5. CopyIsArea' /\ AsRestored'
    BY <1>2, <1>3 DEF Running, GridIInv, CopyIsArea, AsRestored, Unmarked
  <1>6. \A h \in Granules : AfterGrid(h)' = AfterGrid(h)
    BY <1>2, <1>3 DEF AfterGrid, Unmarked
  <1> QED
    BY <1>2, <1>4, <1>5, <1>6 DEF GridIInv

LEMMA GridSet ==
  ASSUME AllocatorAssumption, GridIInv, Grid!SetCkpt
  PROVE  /\ GridIInv' /\ last' = "set"
         /\ UNCHANGED <<addresses, top_elem, area>>
         /\ FreeStack(addresses_ckpt, top_elem_ckpt)' = FreeStack(addresses, top_elem)
         /\ \A h \in Granules : AfterGrid(h)' = area[h]
  <1>1. /\ top_elem_ckpt' = top_elem /\ addresses_ckpt' = Copied(addresses, top_elem, addresses_ckpt)
        /\ UNCHANGED <<addresses, top_elem>>
    BY GridAllocator DEF Grid!SetCkpt, SetAllocatorCkpt, allocator
  <1>2. /\ area' = area /\ last' = "set" /\ object_seeds' = area[SeedGranule] /\ bitmap' = {}
        /\ copy' = IF Mirrored THEN area ELSE copy
    BY GridSizes DEF Grid!SetCkpt, Grid!BS, Mirrored
  <1>3. /\ Stacks(addresses_ckpt', top_elem)
        /\ FreeStack(addresses_ckpt', top_elem) = FreeStack(addresses, top_elem)
        /\ Distinct(addresses_ckpt', top_elem)
    BY <1>1, CopiedStacks DEF GridIInv, MemoryTypeOK, FreeOnce
  <1>4. object_seeds' \in Values /\ copy' \in [Granules -> Values]
    BY <1>2, StateChunkType DEF GridIInv, MemoryTypeOK
  <1>5. MemoryTypeOK' /\ FreeOnce'
    BY <1>1, <1>2, <1>3 DEF GridIInv, MemoryTypeOK, FreeOnce
  <1>6. CopyIsArea' /\ AsRestored'
    BY <1>2 DEF CopyIsArea, AsRestored
  <1>7. \A h \in Granules : AfterGrid(h)' = area[h]
    BY <1>2 DEF AfterGrid, Unmarked
  <1> QED
    BY <1>1, <1>2, <1>3, <1>4, <1>5, <1>6, <1>7 DEF GridIInv

LEMMA GridRestore ==
  ASSUME AllocatorAssumption, GridIInv, Grid!RestoreObject
  PROVE  /\ GridIInv' /\ last # "init" /\ last' = "restore"
         /\ UNCHANGED <<addresses_ckpt, top_elem_ckpt>>
         /\ FreeStack(addresses, top_elem)' = FreeStack(addresses_ckpt, top_elem_ckpt)
         /\ \A h \in Granules : area'[h] = AfterGrid(h) /\ AfterGrid(h)' = AfterGrid(h)
         /\ area' \in [Granules -> Values]
  <1>1. /\ top_elem' = top_elem_ckpt /\ addresses' = Copied(addresses_ckpt, top_elem_ckpt, addresses)
        /\ UNCHANGED <<addresses_ckpt, top_elem_ckpt>>
    BY GridAllocator DEF Grid!RestoreObject, RestoreAllocator, allocator_ckpt
  <1>2. /\ last # "init" /\ last' = "restore" /\ bitmap' = {} /\ UNCHANGED <<copy, object_seeds>>
        /\ area' = [[g \in Granules |-> IF g \in bitmap THEN copy[g] ELSE area[g]]
                       EXCEPT ![SeedGranule] = object_seeds]
    BY GridSizes DEF Grid!RestoreObject, Grid!Reloaded
  <1>3. /\ Stacks(addresses', top_elem_ckpt)
        /\ FreeStack(addresses', top_elem_ckpt) = FreeStack(addresses_ckpt, top_elem_ckpt)
        /\ Distinct(addresses', top_elem_ckpt)
    BY <1>1, CopiedStacks DEF GridIInv, MemoryTypeOK, FreeOnce
  <1>4. area' \in [Granules -> Values] /\ \A h \in Granules : area'[h] = AfterGrid(h)
    BY <1>2 DEF AfterGrid, Unmarked, GridIInv, MemoryTypeOK
  <1>5. MemoryTypeOK' /\ FreeOnce'
    BY <1>1, <1>2, <1>3, <1>4 DEF GridIInv, MemoryTypeOK, FreeOnce
  <1>6. CopyIsArea' /\ AsRestored'
    BY <1>2, <1>4, StateChunkType DEF GridIInv, CopyIsArea, AsRestored, Unmarked, AfterGrid
  <1>7. \A h \in Granules : AfterGrid(h)' = AfterGrid(h)
    BY <1>2, <1>4 DEF AfterGrid, Unmarked
  <1> QED
    BY <1>1, <1>2, <1>3, <1>4, <1>5, <1>6, <1>7 DEF GridIInv

-----------------------------------------------------------------------------
(* The grid checkpoints: the refinement *)

\* The heap that a restore would make.
LEMMA GridRecoverableIs ==
  ASSUME AllocatorAssumption, GridIInv, GridIInv'
  PROVE  /\ Grid!Recoverable = [heap |-> [g \in Granules |-> AfterGrid(g)],
                                free |-> FreeStack(addresses_ckpt, top_elem_ckpt)]
         /\ Grid!Recoverable' = [heap |-> [g \in Granules |-> AfterGrid(g)'],
                                 free |-> FreeStack(addresses_ckpt, top_elem_ckpt)']
  <1>1. [[g \in Granules |-> IF g \in bitmap THEN copy[g] ELSE area[g]] EXCEPT ![SeedGranule] = object_seeds]
            = [g \in Granules |-> AfterGrid(g)]
    BY DEF AfterGrid, Unmarked
  <1>2. [[g \in Granules |-> IF g \in bitmap' THEN copy'[g] ELSE area'[g]] EXCEPT ![SeedGranule] = object_seeds']
            = [g \in Granules |-> AfterGrid(g)']
    BY DEF AfterGrid, Unmarked, SeedGranule
  <1>3. Grid!Recoverable' = [heap |-> [[g \in Granules |-> IF g \in bitmap' THEN copy'[g] ELSE area'[g]]
                                           EXCEPT ![SeedGranule] = object_seeds'],
                             free |-> FreeStack(addresses_ckpt, top_elem_ckpt)']
    <2>1. (Grid!Recoverable = [heap |-> [[g \in Granules |-> IF g \in bitmap THEN copy[g] ELSE area[g]]
                                             EXCEPT ![SeedGranule] = object_seeds],
                               free |-> FreeStack(addresses_ckpt, top_elem_ckpt)])'
      BY GridOperators, PTL
    <2> QED
      BY <2>1 DEF Granules, SeedGranule
  <1> QED
    BY <1>1, <1>2, <1>3, GridOperators

LEMMA GridStepPreserves ==
  ASSUME AllocatorAssumption, AddressKnown, GridIInv, [Grid!Next]_(Grid!vars)
  PROVE  GridIInv' /\ [Grid!Abstract!Next]_<<Grid!Object, Grid!Recoverable, last>>
  <1>1. ASSUME GridIInv', Running, UNCHANGED <<addresses_ckpt, top_elem_ckpt>>,
               last # "init" => \A h \in Granules : AfterGrid(h)' = AfterGrid(h)
        PROVE  Grid!Abstract!Next
    <2>1. last # "init" => Grid!Recoverable' = Grid!Recoverable
      BY <1>1, GridRecoverableIs
    <2> QED
      BY <2>1, <1>1 DEF Running, Grid!Abstract!Next, Grid!Abstract!Run
  <1>2. ASSUME UNCHANGED <<area, copy, bitmap, object_seeds>>
        PROVE  \A h \in Granules : AfterGrid(h)' = AfterGrid(h)
    BY <1>2 DEF AfterGrid, Unmarked
  <1>3. ASSUME NEW size, Grid!MallocChunk(size) PROVE GridIInv' /\ Grid!Abstract!Next
    BY <1>1, <1>2, <1>3, GridMalloc
  <1>4. ASSUME NEW k, Grid!FreeChunk(k) PROVE GridIInv' /\ Grid!Abstract!Next
    BY <1>1, <1>2, <1>4, GridFree
  <1>5. ASSUME NEW g \in Granules, NEW v \in Values, Grid!StoreInGrid(g, TRUE, {g}, v)
        PROVE  GridIInv' /\ Grid!Abstract!Next
    BY <1>1, <1>5, GridStore
  <1>6. ASSUME NEW g \in Granules, NEW v \in Values, NEW written \in {{g}, {g, g + 1}},
               Grid!StoreInGrid(g, FALSE, written, v)
        PROVE  GridIInv' /\ Grid!Abstract!Next
    BY <1>1, <1>6, GridStore
  <1>7. ASSUME Grid!DrawRandom PROVE GridIInv' /\ Grid!Abstract!Next
    BY <1>1, <1>7, GridDraw
  <1>8. ASSUME Grid!SetCkpt PROVE GridIInv' /\ Grid!Abstract!Next
    <2>1. /\ GridIInv' /\ last' = "set"
          /\ UNCHANGED <<addresses, top_elem, area>>
          /\ FreeStack(addresses_ckpt, top_elem_ckpt)' = FreeStack(addresses, top_elem)
          /\ \A h \in Granules : AfterGrid(h)' = area[h]
      BY <1>8, GridSet
    <2>2. [g \in Granules |-> AfterGrid(g)'] = area
      BY <2>1 DEF GridIInv, MemoryTypeOK
    <2>3. Grid!Recoverable' = Grid!Object
      BY <2>1, <2>2, GridRecoverableIs, GridOperators
    <2>4. Grid!Object' = Grid!Object
      BY <2>1 DEF Grid!Object, Grid!FreeStack
    <2> QED
      BY <2>1, <2>3, <2>4 DEF Grid!Abstract!Next, Grid!Abstract!Set
  <1>9. ASSUME Grid!RestoreObject PROVE GridIInv' /\ Grid!Abstract!Next
    <2>1. /\ GridIInv' /\ last # "init" /\ last' = "restore"
          /\ UNCHANGED <<addresses_ckpt, top_elem_ckpt>>
          /\ FreeStack(addresses, top_elem)' = FreeStack(addresses_ckpt, top_elem_ckpt)
          /\ \A h \in Granules : area'[h] = AfterGrid(h) /\ AfterGrid(h)' = AfterGrid(h)
          /\ area' \in [Granules -> Values]
      BY <1>9, GridRestore
    <2>2. [g \in Granules |-> AfterGrid(g)] = area'
      BY <2>1
    <2>3. Grid!Object' = [heap |-> area', free |-> FreeStack(addresses, top_elem)']
      <3>1. (Grid!Object = [heap |-> area, free |-> FreeStack(addresses, top_elem)])'
        BY GridOperators, PTL
      <3> QED
        BY <3>1
    <2>4. Grid!Object' = Grid!Recoverable
      BY <2>1, <2>2, <2>3, GridRecoverableIs
    <2>5. Grid!Recoverable' = Grid!Recoverable
      BY <2>1, GridRecoverableIs
    <2> QED
      BY <2>1, <2>4, <2>5 DEF Grid!Abstract!Next, Grid!Abstract!Restore
  <1>10. CASE UNCHANGED Grid!vars
    <2>1. UNCHANGED <<addresses, top_elem, addresses_ckpt, top_elem_ckpt, area, last, copy, bitmap, object_seeds>>
      BY <1>10 DEF Grid!vars, Grid!allocator, Grid!allocator_ckpt
    <2>2. GridIInv'
      BY <2>1 DEF GridIInv, MemoryTypeOK, FreeOnce, CopyIsArea, AsRestored, Unmarked
    <2>3. UNCHANGED <<Grid!Object, Grid!Recoverable, last>>
      BY <2>1 DEF Grid!Object, Grid!Recoverable, Grid!Reloaded
    <2> QED
      BY <2>2, <2>3
  <1>11. CASE Grid!Next
    BY <1>11, <1>3, <1>4, <1>5, <1>6, <1>7, <1>8, <1>9, GridSizes DEF Grid!Next
  <1> QED
    BY <1>10, <1>11

LEMMA GridInductive ==
  ASSUME AllocatorAssumption, AddressKnown
  PROVE  Grid!Spec => []GridIInv
  <1>1. Grid!Init => GridIInv
    BY GridInit
  <1>2. GridIInv /\ [Grid!Next]_(Grid!vars) => GridIInv'
    BY GridStepPreserves
  <1> QED
    BY <1>1, <1>2, PTL DEF Grid!Spec

\* In both grid builds, for any sizes, every variable keeps its type, no mark is
\* set beyond the spare one, and no chunk is free twice, now or at the checkpoint.
THEOREM GridMemoryIntact ==
  ASSUME AllocatorAssumption, AddressKnown
  PROVE  Grid!Spec => []Grid!MemoryIntact
  <1>1. GridIInv => Grid!MemoryIntact
    BY GridInvariants DEF Grid!MemoryIntact
  <1> QED
    BY <1>1, GridInductive, PTL

\* Both grid builds are checkpointing schemes: a restore gives back the whole area,
\* the free chunks in their order and the seeds that the last checkpoint saw
\* (restore_object and set_ckpt of grid_ckpt.c), whatever the stores, aligned or
\* not, reached, provided that they reached what they change.
THEOREM GridRestoresCheckpoint ==
  ASSUME AllocatorAssumption, AddressKnown
  PROVE  Grid!Spec => Grid!RestoresCheckpoint
  <1>1. Grid!Init => Grid!Abstract!Init
    BY DEF Grid!Init, Grid!SetUp, Grid!Abstract!Init
  <1>2. GridIInv /\ [Grid!Next]_(Grid!vars) => [Grid!Abstract!Next]_<<Grid!Object, Grid!Recoverable, last>>
    BY GridStepPreserves
  <1> QED
    BY <1>1, <1>2, GridInductive, PTL DEF Grid!Spec, Grid!RestoresCheckpoint, Grid!Abstract!Spec

\* The check of the DEBUG build of BS (grid_ckpt.c:53) that the area is as it was
\* at the checkpoint never fails after a restore, if the model stores through no
\* other register than the code of the checkpoint leaves alone.
THEOREM RestoreMatchesShadow ==
  ASSUME AllocatorAssumption, AddressKnown
  PROVE  Grid!Spec => []Grid!RestoreComplete
  <1>1. AllocatorAssumption /\ GridIInv => Grid!RestoreComplete
    <2> SUFFICES ASSUME AllocatorAssumption, GridIInv, Mirrored, last = "restore" PROVE area = copy
      BY DEF Grid!RestoreComplete, Grid!BS, Mirrored
    <2>1. \A g \in Granules : copy[g] = area[g]
      BY DEF GridIInv, CopyIsArea, AsRestored, Unmarked
    <2> QED
      BY <2>1 DEF GridIInv, MemoryTypeOK
  <1> QED
    BY <1>1, GridInductive, PTL

-----------------------------------------------------------------------------
(* The multi-version memory: the inductive invariant *)

\* All objects have taken their checkpoint for this phase, and the round is the
\* next one, in which no page can be yet.
Everyone == checkpointed /\ others = OBJECTS - 1
Newest == IF phase # "epoch" /\ Everyone THEN g_epoch_round - 1 ELSE g_epoch_round
Tags == 0..Newest \cup {Mvm!NEVER}
Lists == [pages : SUBSET Mvm!Pages, ts : Tags]

MvmTypes ==
    /\ MemoryTypeOK /\ FreeOnce
    /\ copy \in [Granules -> Values]
    /\ slot_ts \in [Mvm!Pages -> [{0, 1} -> Tags]]
    /\ cur_slot \in [Mvm!Pages -> {0, 1}]
    /\ ~Mvm!MV => \A p \in Mvm!Pages : cur_slot[p] = 0
    /\ last_ts_seen \in [Mvm!Pages -> Tags] /\ last_touched_ts \in [Mvm!Pages -> Tags]
    /\ touched_curr \in Lists /\ touched_prev \in Lists
    /\ grid_curr \subseteq Granules

\* The counter of checkpoints and the round are those of the phase.
PhaseRounds ==
    /\ phase \in {"init", "epoch", "flush"} /\ checkpointed \in BOOLEAN /\ counted \in BOOLEAN
    /\ others \in 0..(OBJECTS - 1) /\ g_epoch_round \in 0..MaxRound
    /\ phase = "epoch" => Everyone
    /\ phase # "init" => g_epoch_round >= 1
    /\ IF Everyone
       THEN g_ckpt_counter = 0 /\ g_epoch_round >= 1
       ELSE /\ g_ckpt_counter = others + (IF checkpointed THEN 1 ELSE 0)
            /\ g_epoch_round < MaxRound
            /\ phase = "init" => g_epoch_round = 0
    /\ last = "init" <=> phase = "init" /\ ~checkpointed
    /\ counted => phase = "epoch" \/ (phase = "init" /\ ~checkpointed)

\* The page has a version, or a saved part, of the current round.
Open(p) == slot_ts[p][IF Mvm!MV THEN cur_slot[p] ELSE 1] = g_epoch_round

\* It is then in the list of pages to roll back.
OpenIsListed == \A p \in Mvm!Pages :
    /\ last_touched_ts[p] = g_epoch_round => touched_curr.ts = g_epoch_round /\ p \in touched_curr.pages
    /\ Open(p) => last_touched_ts[p] = g_epoch_round

\* In the mmap_mv build the other slot of a page is older than the current one, and
\* is a version to go back to if the current one is of the current round.
SlotsInOrder == Mvm!MV => \A p \in Mvm!Pages :
    LET this == slot_ts[p][cur_slot[p]]
        other == slot_ts[p][1 - cur_slot[p]]
    IN  /\ other # Mvm!NEVER => this # Mvm!NEVER /\ other < this
        /\ last_ts_seen[p] = g_epoch_round <=> Open(p)
        /\ last_touched_ts[p] # Mvm!NEVER => this # Mvm!NEVER
        /\ phase # "init" \/ checkpointed => this # Mvm!NEVER
        /\ phase = "epoch" /\ Open(p) => other # Mvm!NEVER

\* What the granules were at the checkpoint; the seeds are among them only where
\* a restore gives them back.
SavedAt(g) == IF g = SeedGranule THEN saved.seeds ELSE saved.object.heap[g]
Kept == IF ~Mvm!MV /\ CountsFirst THEN Granules ELSE Granules \ {SeedGranule}

Slot(s, g) == IF s = 1 THEN copy[g] ELSE area[g]
Backup(g) ==
    LET p == Mvm!PageOf(g)
    IN  IF Mvm!MV THEN Slot(IF Open(p) THEN 1 - cur_slot[p] ELSE cur_slot[p], g)
        ELSE IF Open(p) /\ (Mvm!Grid => g \in grid_curr) THEN copy[g] ELSE area[g]

\* In an epoch, what a restore would bring back is what the checkpoint saw, ...
BackupIsSaved == phase = "epoch" => \A g \in Kept : Backup(g) = SavedAt(g)

\* ... and until it starts nothing changes.
SetStays == phase # "epoch" /\ checkpointed =>
    \A g \in Kept : Slot(cur_slot[Mvm!PageOf(g)], g) = SavedAt(g)

\* Once the event is counted, its seeds are saved.
SeedsAreSaved == counted /\ phase = "epoch" /\ ~Mvm!MV =>
    Open(Mvm!PageOf(SeedGranule)) /\ (Mvm!Grid => SeedGranule \in grid_curr)

SavedShape == last # "init" =>
    saved.object = [heap |-> [g \in Granules \ {SeedGranule} |-> saved.object.heap[g]],
                    free |-> FreeStack(addresses_ckpt, top_elem_ckpt)]

MvmIInv ==
    /\ MvmTypes /\ PhaseRounds /\ OpenIsListed /\ SlotsInOrder
    /\ BackupIsSaved /\ SetStays /\ SeedsAreSaved /\ SavedShape /\ Mvm!SeedsComeBack

\* The engine of the build takes the checkpoints between the barriers, and the
\* INIT event stores into every page where mmap_mv is to have a version of it.
MvmAssumption ==
    /\ AllocatorAssumption
    /\ OBJECTS \in Nat \ {0} /\ MVMM_PAGE_SIZE \in Nat \ {0} /\ MaxRound \in Nat \ {0}
    /\ ~Lazy
    /\ Mvm!MV => Primed

-----------------------------------------------------------------------------
(* The multi-version memory: its allocator and what its actions read *)

LEMMA MvmSizes ==
  /\ Mvm!Classes = Classes /\ Mvm!Granules = Granules /\ Mvm!Chunks = Chunks
  /\ \A c : Mvm!Size(c) = Size(c) /\ Mvm!ChunkSize(c) = ChunkSize(c)
  /\ Mvm!SeedGranule = SeedGranule
  /\ Mvm!FullStack = FullStack
  <1>1. Mvm!Classes = Classes /\ Mvm!Granules = Granules /\ Mvm!SeedGranule = SeedGranule
    BY DEF Mvm!Classes, Classes, Mvm!Granules, Granules, Mvm!SeedGranule, SeedGranule
  <1>2. \A c : Mvm!Size(c) = Size(c) /\ Mvm!ChunkSize(c) = ChunkSize(c)
    BY DEF Mvm!Size, Size, Mvm!ChunkSize, ChunkSize
  <1>3. Mvm!Chunks = Chunks
    BY <1>1, <1>2 DEF Mvm!Chunks, Chunks
  <1>4. Mvm!FullStack = FullStack
    BY <1>1, <1>2 DEF Mvm!FullStack, FullStack
  <1> QED
    BY <1>1, <1>2, <1>3, <1>4

LEMMA MvmAllocator ==
  /\ \A size, k : Mvm!Malloc(size, k) <=> Malloc(size, k)
  /\ \A k : Mvm!Free(k) <=> Free(k)
  /\ Mvm!SetAllocatorCkpt <=> SetAllocatorCkpt
  /\ Mvm!RestoreAllocator <=> RestoreAllocator
  /\ \A s, t : Mvm!FreeStack(s, t) = FreeStack(s, t)
  /\ Mvm!Running <=> Running
  <1>1. \A size, k : Mvm!Malloc(size, k) <=> Malloc(size, k)
    BY DEF Mvm!Malloc, Malloc, Mvm!Chunks, Chunks, Mvm!Classes, Classes, Mvm!Size, Size,
           Mvm!ChunkSize, ChunkSize, Mvm!ClassFor, ClassFor, Mvm!UsedUp, UsedUp, Mvm!Running, Running,
           Mvm!allocator_ckpt, allocator_ckpt
  <1>2. \A k : Mvm!Free(k) <=> Free(k)
    BY DEF Mvm!Free, Free, Mvm!Live, Live, Mvm!LiveIn, LiveIn, Mvm!Chunks, Chunks, Mvm!Classes, Classes,
           Mvm!Size, Size, Mvm!ChunkSize, ChunkSize, Mvm!StateChunk, StateChunk, Mvm!ChunkOf, ChunkOf,
           Mvm!SeedGranule, SeedGranule, Mvm!Running, Running, Mvm!allocator_ckpt, allocator_ckpt
  <1>3. Mvm!SetAllocatorCkpt <=> SetAllocatorCkpt
    BY DEF Mvm!SetAllocatorCkpt, SetAllocatorCkpt, Mvm!Copied, Copied, Mvm!Classes, Classes,
           Mvm!Size, Size, Mvm!ChunkSize, ChunkSize, Mvm!allocator, allocator
  <1>4. Mvm!RestoreAllocator <=> RestoreAllocator
    BY DEF Mvm!RestoreAllocator, RestoreAllocator, Mvm!Copied, Copied, Mvm!Classes, Classes,
           Mvm!Size, Size, Mvm!ChunkSize, ChunkSize, Mvm!allocator_ckpt, allocator_ckpt
  <1>5. \A s, t : Mvm!FreeStack(s, t) = FreeStack(s, t)
    BY DEF Mvm!FreeStack, FreeStack, Mvm!Classes, Classes, Mvm!Size, Size, Mvm!ChunkSize, ChunkSize
  <1>6. Mvm!Running <=> Running
    BY DEF Mvm!Running, Running
  <1> QED
    BY <1>1, <1>2, <1>3, <1>4, <1>5, <1>6

LEMMA PagesOfGranules ==
  /\ \A g \in Granules : Mvm!PageOf(g) \in Mvm!Pages
  /\ \A p : Mvm!CellsOf(p) = {g \in Granules : Mvm!PageOf(g) = p}
  BY MvmSizes DEF Mvm!Pages, Mvm!CellsOf

\* What the model observes, now and after a step.
LEMMA MvmObjectIs ==
  ASSUME \A g \in Granules : cur_slot[Mvm!PageOf(g)] \in {0, 1}
  PROVE  /\ \A g \in Granules : Mvm!Content(cur_slot)[g] = Slot(cur_slot[Mvm!PageOf(g)], g)
         /\ Mvm!Object = [heap |-> [g \in Granules \ {SeedGranule} |-> Slot(cur_slot[Mvm!PageOf(g)], g)],
                          free |-> FreeStack(addresses, top_elem)]
         /\ Mvm!Drawn = area[SeedGranule]
  <1>1. \A g \in Granules : Mvm!Content(cur_slot)[g] = Slot(cur_slot[Mvm!PageOf(g)], g)
    BY MvmSizes DEF Mvm!Content, Slot
  <1>2. [g \in Granules \ {SeedGranule} |-> Mvm!Content(cur_slot)[g]]
            = [g \in Granules \ {SeedGranule} |-> Slot(cur_slot[Mvm!PageOf(g)], g)]
    BY <1>1
  <1> QED
    BY <1>1, <1>2, MvmSizes, MvmAllocator DEF Mvm!Object, Mvm!Drawn

\* The round, the newest tag and NEVER, as numbers.
LEMMA TagFacts ==
  ASSUME MvmAssumption, PhaseRounds
  PROVE  /\ g_epoch_round \in Nat /\ g_epoch_round <= MaxRound /\ MaxRound \in Nat
         /\ Newest \in Nat /\ Newest <= g_epoch_round
         /\ Newest = IF phase # "epoch" /\ Everyone THEN g_epoch_round - 1 ELSE g_epoch_round
         /\ Mvm!NEVER \in Nat /\ Mvm!NEVER > g_epoch_round /\ Mvm!NEVER > Newest
         /\ \A t \in Tags : t \in Nat /\ (t = Mvm!NEVER \/ t <= Newest)
         /\ \A t \in Nat : t <= Newest => t \in Tags
         /\ Mvm!NEVER \in Tags
  <1>1. g_epoch_round \in 0..MaxRound /\ MaxRound \in Nat /\ (Everyone => g_epoch_round >= 1)
    BY DEF PhaseRounds, MvmAssumption
  <1>2. Mvm!NEVER = MaxRound + 1
    BY DEF Mvm!NEVER
  <1>3. Newest \in Nat /\ Newest <= g_epoch_round
    BY <1>1 DEF Newest
  <1> QED
    BY <1>1, <1>2, <1>3 DEF Tags, Newest

-----------------------------------------------------------------------------
(* The multi-version memory: the steps, one part of the invariant at a time *)

LEMMA MvmInit ==
  ASSUME MvmAssumption, Mvm!Init
  PROVE  MvmIInv
  <1>1. /\ SetUp /\ area = [g \in Granules |-> 0] /\ last = "init"
        /\ copy = [g \in Granules |-> 0]
        /\ slot_ts = [p \in Mvm!Pages |-> [s \in {0, 1} |-> Mvm!NEVER]]
        /\ cur_slot = [p \in Mvm!Pages |-> 0]
        /\ last_ts_seen = [p \in Mvm!Pages |-> Mvm!NEVER]
        /\ last_touched_ts = [p \in Mvm!Pages |-> Mvm!NEVER]
        /\ touched_curr = [pages |-> {}, ts |-> Mvm!NEVER]
        /\ touched_prev = [pages |-> {}, ts |-> Mvm!NEVER]
        /\ grid_curr = {} /\ g_epoch_round = 0 /\ g_ckpt_counter = 0
        /\ phase = "init" /\ checkpointed = FALSE /\ others = 0 /\ counted = FALSE
    BY MvmSizes DEF Mvm!Init, Mvm!SetUp, SetUp
  <1>2. MemoryTypeOK /\ FreeOnce
    BY <1>1, SetUpIntact DEF MvmAssumption
  <1>3. PhaseRounds
    <2>1. ~Everyone /\ checkpointed \in BOOLEAN /\ counted \in BOOLEAN
      BY <1>1 DEF Everyone
    <2>2. 0 \in 0..(OBJECTS - 1) /\ 0 \in 0..MaxRound /\ 0 < MaxRound
      BY DEF MvmAssumption
    <2> QED
      BY <1>1, <2>1, <2>2 DEF PhaseRounds
  <1>4. Mvm!NEVER # g_epoch_round /\ Mvm!NEVER \in Tags
    BY <1>3, TagFacts
  <1>5. MvmTypes
    BY <1>1, <1>2, <1>4, Sizes DEF MvmTypes, Lists, MvmAssumption
  <1>6. \A p \in Mvm!Pages : \A s \in {0, 1} : slot_ts[p][s] = Mvm!NEVER
    BY <1>1
  <1>7. OpenIsListed /\ SlotsInOrder
    BY <1>1, <1>4, <1>6 DEF OpenIsListed, SlotsInOrder, Open
  <1> QED
    BY <1>1, <1>3, <1>5, <1>7
       DEF MvmIInv, BackupIsSaved, SetStays, SeedsAreSaved, SavedShape, Mvm!SeedsComeBack

\* The steps that are seen by the allocator only, and the draws of random numbers,
\* which move seeds that are saved already, if they are to come back.
LEMMA MvmQuiet ==
  ASSUME MvmAssumption, MvmIInv, Mvm!InEvent,
         UNCHANGED <<Mvm!versions, Mvm!rounds, Mvm!engine, saved, addresses_ckpt, top_elem_ckpt>>,
         Running, MemoryTypeOK', FreeOnce',
         \A g \in Granules \ {SeedGranule} : area'[g] = area[g]
  PROVE  MvmIInv'
  <1>1. /\ UNCHANGED <<copy, slot_ts, cur_slot, last_ts_seen, last_touched_ts, touched_curr, touched_prev,
                       grid_curr, g_epoch_round, g_ckpt_counter, phase, checkpointed, others, counted>>
        /\ last' = IF last = "init" THEN "init" ELSE "run"
    BY DEF Mvm!versions, Mvm!rounds, Mvm!engine, Running
  <1>2. MvmTypes'
    BY <1>1 DEF MvmIInv, MvmTypes, Lists, Tags, Newest, Everyone
  <1>3. PhaseRounds'
    BY <1>1 DEF MvmIInv, PhaseRounds, Everyone
  <1>4. OpenIsListed' /\ SlotsInOrder' /\ SeedsAreSaved' /\ SavedShape'
    BY <1>1 DEF MvmIInv, OpenIsListed, SlotsInOrder, SeedsAreSaved, SavedShape, Open
  <1>5. /\ phase = "epoch" /\ CountsFirst => counted
        /\ phase # "epoch" => ~checkpointed
    BY DEF Mvm!InEvent, Mvm!Claimed
  <1>6. BackupIsSaved'
    <2> SUFFICES ASSUME phase = "epoch", NEW g \in Kept PROVE Backup(g)' = SavedAt(g)
      BY <1>1 DEF BackupIsSaved, Kept, SavedAt
    <2>1. Backup(g) = SavedAt(g)
      BY DEF MvmIInv, BackupIsSaved
    <2>2. CASE g # SeedGranule
      BY <2>1, <2>2, <1>1 DEF Kept, Backup, Slot, Open
    <2>3. CASE g = SeedGranule
      BY <2>1, <2>3, <1>1, <1>5 DEF Kept, Backup, Open, MvmIInv, SeedsAreSaved
    <2> QED
      BY <2>2, <2>3
  <1>7. SetStays' /\ Mvm!SeedsComeBack'
    BY <1>1, <1>5 DEF SetStays, Mvm!SeedsComeBack
  <1> QED
    BY <1>2, <1>3, <1>4, <1>6, <1>7 DEF MvmIInv

LEMMA MvmAllocations ==
  ASSUME MvmAssumption, MvmIInv,
         \/ \E size : Mvm!MallocChunk(size)
         \/ \E k : Mvm!FreeChunk(k)
         \/ Mvm!DrawRandom
  PROVE  MvmIInv'
  <1>1. ASSUME NEW size, Mvm!MallocChunk(size) PROVE MvmIInv'
    <2>1. PICK k : Malloc(size, k)
      BY <1>1, MvmAllocator DEF Mvm!MallocChunk
    <2>2. UNCHANGED <<addresses_ckpt, top_elem_ckpt, area>> /\ Running
      BY <2>1 DEF Malloc, allocator_ckpt
    <2>3. Stacks(addresses, top_elem)' /\ Distinct(addresses, top_elem)'
      BY <2>1, MallocTakes DEF MvmAssumption, MvmIInv, MvmTypes, MemoryTypeOK, FreeOnce
    <2>4. MemoryTypeOK' /\ FreeOnce'
      BY <2>2, <2>3 DEF Running, MvmIInv, MvmTypes, MemoryTypeOK, FreeOnce
    <2> QED
      BY <1>1, <2>2, <2>4, MvmQuiet DEF Mvm!MallocChunk
  <1>2. ASSUME NEW k, Mvm!FreeChunk(k) PROVE MvmIInv'
    <2>1. Free(k)
      BY <1>2, MvmAllocator DEF Mvm!FreeChunk
    <2>2. UNCHANGED <<addresses_ckpt, top_elem_ckpt, area>> /\ Running
      BY <2>1 DEF Free, allocator_ckpt
    <2>3. Stacks(addresses, top_elem)' /\ Distinct(addresses, top_elem)'
      BY <2>1, FreeGivesBack DEF MvmAssumption, MvmIInv, MvmTypes, MemoryTypeOK, FreeOnce
    <2>4. MemoryTypeOK' /\ FreeOnce'
      BY <2>2, <2>3 DEF Running, MvmIInv, MvmTypes, MemoryTypeOK, FreeOnce
    <2> QED
      BY <1>2, <2>2, <2>4, MvmQuiet DEF Mvm!FreeChunk
  <1>3. ASSUME Mvm!DrawRandom PROVE MvmIInv'
    <2>1. PICK s \in Values : area' = [area EXCEPT ![SeedGranule] = s]
      BY <1>3, MvmSizes DEF Mvm!DrawRandom, Mvm!Draw
    <2>2. UNCHANGED <<addresses, top_elem, addresses_ckpt, top_elem_ckpt>> /\ Running
      BY <1>3, MvmAllocator DEF Mvm!DrawRandom, Mvm!Draw, Mvm!allocator, Mvm!allocator_ckpt
    <2>3. area' \in [Granules -> Values] /\ \A g \in Granules : g # SeedGranule => area'[g] = area[g]
      BY <2>1 DEF MvmIInv, MvmTypes, MemoryTypeOK
    <2>4. MemoryTypeOK' /\ FreeOnce'
      BY <2>2, <2>3 DEF Running, MvmIInv, MvmTypes, MemoryTypeOK, FreeOnce
    <2> QED
      BY <1>3, <2>2, <2>3, <2>4, MvmQuiet DEF Mvm!DrawRandom
  <1> QED
    BY <1>1, <1>2, <1>3

\* The code run before a store puts the page in the list of the round.
LEMMA MvmTouch ==
  ASSUME MvmAssumption, MvmIInv, Mvm!Claimed, NEW p \in Mvm!Pages, Mvm!NoteTouch(p)
  PROVE  /\ Newest = g_epoch_round /\ g_epoch_round \in Tags
         /\ touched_curr' \in Lists /\ touched_prev' \in Lists
         /\ last_touched_ts' = [last_touched_ts EXCEPT ![p] = g_epoch_round]
         /\ last_touched_ts' \in [Mvm!Pages -> Tags]
         /\ \A q \in Mvm!Pages : last_touched_ts'[q] = g_epoch_round =>
               touched_curr'.ts = g_epoch_round /\ q \in touched_curr'.pages
  <1> DEFINE ts == g_epoch_round
             rotated == touched_curr.ts # ts
             listed == IF rotated THEN {} ELSE touched_curr.pages
  <1>1. /\ touched_prev' = IF rotated /\ ~Mvm!Grid THEN touched_curr ELSE touched_prev
        /\ touched_curr' = [pages |-> IF last_touched_ts[p] = ts THEN listed ELSE listed \cup {p}, ts |-> ts]
        /\ last_touched_ts' = [last_touched_ts EXCEPT ![p] = ts]
    BY DEF Mvm!NoteTouch
  <1>2. Newest = ts /\ ts \in Tags
    <2>1. phase = "epoch" \/ ~checkpointed
      BY DEF Mvm!Claimed
    <2>2. Newest = ts
      BY <2>1, TagFacts DEF MvmIInv, Everyone
    <2> QED
      BY <2>2, TagFacts DEF MvmIInv
  <1>3. touched_curr \in Lists /\ touched_prev \in Lists /\ last_touched_ts \in [Mvm!Pages -> Tags]
    BY DEF MvmIInv, MvmTypes
  <1>4. \A q \in Mvm!Pages : last_touched_ts[q] = ts => ~rotated /\ q \in listed
    BY DEF MvmIInv, OpenIsListed
  <1>5. listed \subseteq Mvm!Pages
    BY <1>3 DEF Lists
  <1> HIDE DEF listed, rotated
  <1>6. touched_curr' \in Lists /\ touched_prev' \in Lists
    BY <1>1, <1>2, <1>3, <1>5 DEF Lists
  <1>7. \A q \in Mvm!Pages : last_touched_ts'[q] = ts => q \in listed \/ q = p
    BY <1>1, <1>3, <1>4
  <1>8. listed \subseteq touched_curr'.pages /\ p \in touched_curr'.pages /\ touched_curr'.ts = ts
    BY <1>1, <1>4
  <1> QED
    BY <1>1, <1>2, <1>3, <1>6, <1>7, <1>8

\* In the mmap_mv build: the version of the round is opened, the older one kept.
LEMMA MvmStoreVersion ==
  ASSUME MvmAssumption, MvmIInv, Mvm!MV, Mvm!Claimed, NEW g \in Granules, NEW v \in Values,
         Mvm!StoreVersion(g, v),
         UNCHANGED <<addresses, top_elem, addresses_ckpt, top_elem_ckpt,
                     g_epoch_round, g_ckpt_counter, phase, checkpointed, others, saved>>,
         Running
  PROVE  MvmTypes' /\ OpenIsListed' /\ SlotsInOrder' /\ BackupIsSaved'
  <1> DEFINE p == Mvm!PageOf(g)
             c == cur_slot[p]
             opens == last_ts_seen[p] # g_epoch_round
             next == IF opens THEN 1 - c ELSE c
             R == g_epoch_round
  <1>1. /\ Mvm!NoteTouch(p)
        /\ last_ts_seen' = [last_ts_seen EXCEPT ![p] = R]
        /\ slot_ts' = IF opens THEN [slot_ts EXCEPT ![p][next] = R] ELSE slot_ts
        /\ cur_slot' = [cur_slot EXCEPT ![p] = next]
        /\ grid_curr' = grid_curr
    BY DEF Mvm!StoreVersion
  <1>2. \A h \in Granules :
            area'[h] = IF Mvm!PageOf(h) # p \/ 0 # next THEN area[h]
                       ELSE IF h = g THEN v ELSE Mvm!Content(cur_slot)[h]
    BY MvmSizes DEF Mvm!StoreVersion
  <1>3. \A h \in Granules :
            copy'[h] = IF Mvm!PageOf(h) # p \/ 1 # next THEN copy[h]
                       ELSE IF h = g THEN v ELSE Mvm!Content(cur_slot)[h]
    BY MvmSizes DEF Mvm!StoreVersion
  <1>4. area' = [h \in Granules |-> area'[h]] /\ copy' = [h \in Granules |-> copy'[h]]
    BY MvmSizes DEF Mvm!StoreVersion
  <1>5. /\ MvmTypes /\ PhaseRounds /\ p \in Mvm!Pages
        /\ slot_ts \in [Mvm!Pages -> [{0, 1} -> Tags]] /\ cur_slot \in [Mvm!Pages -> {0, 1}]
        /\ last_ts_seen \in [Mvm!Pages -> Tags]
    BY PagesOfGranules DEF MvmIInv, MvmTypes
  <1>6. \A h \in Granules : Mvm!Content(cur_slot)[h] \in Values
    <2>1. \A h \in Granules : Mvm!Content(cur_slot)[h] = Slot(cur_slot[Mvm!PageOf(h)], h)
      BY <1>5, PagesOfGranules, MvmObjectIs
    <2> QED
      BY <2>1 DEF Slot, MvmIInv, MvmTypes, MemoryTypeOK
  <1>7. area' \in [Granules -> Values] /\ copy' \in [Granules -> Values]
    BY <1>2, <1>3, <1>4, <1>6 DEF MvmIInv, MvmTypes, MemoryTypeOK
  <1>8. c \in {0, 1} /\ next \in {0, 1} /\ 1 - next \in {0, 1} /\ next # 1 - next
    BY <1>5
  <1>9. opens <=> ~Open(p)
    BY <1>5 DEF MvmIInv, SlotsInOrder
  <1>10. Open(p) <=> slot_ts[p][c] = R
    BY DEF Open
  <1>11. /\ slot_ts'[p][next] = R /\ slot_ts'[p][1 - next] = slot_ts[p][1 - next]
         /\ cur_slot'[p] = next /\ last_ts_seen'[p] = R
         /\ \A q \in Mvm!Pages : q # p => /\ slot_ts'[q] = slot_ts[q] /\ cur_slot'[q] = cur_slot[q]
                                          /\ last_ts_seen'[q] = last_ts_seen[q]
    BY <1>1, <1>5, <1>8, <1>9, <1>10
  <1>12. next = IF Open(p) THEN c ELSE 1 - c
    BY <1>9
  <1>o. PICK older \in {0, 1} : older = 1 - next
    BY <1>8
  <1>13. \A h \in Granules : /\ Mvm!PageOf(h) # p => \A s \in {0, 1} : Slot(s, h)' = Slot(s, h)
                             /\ Slot(older, h)' = Slot(older, h)
    <2>1. ASSUME NEW h \in Granules, NEW s \in {0, 1}, Mvm!PageOf(h) # p \/ s # next
          PROVE  Slot(s, h)' = Slot(s, h)
      BY <2>1, <1>2, <1>3 DEF Slot
    <2> QED
      BY <2>1, <1>8, <1>o
  <1>14. /\ Newest = R /\ R \in Tags /\ touched_curr' \in Lists /\ touched_prev' \in Lists
         /\ last_touched_ts' = [last_touched_ts EXCEPT ![p] = R]
         /\ last_touched_ts' \in [Mvm!Pages -> Tags]
         /\ \A q \in Mvm!Pages : last_touched_ts'[q] = R =>
               touched_curr'.ts = R /\ q \in touched_curr'.pages
    BY <1>1, <1>5, MvmTouch
  <1>15. /\ slot_ts' \in [Mvm!Pages -> [{0, 1} -> Tags]] /\ cur_slot' \in [Mvm!Pages -> {0, 1}]
         /\ last_ts_seen' \in [Mvm!Pages -> Tags]
    BY <1>1, <1>5, <1>8, <1>14
  <1> HIDE DEF p, c, opens, next, R
  <1>16. Tags' = Tags /\ Lists' = Lists
    BY DEF Tags, Newest, Everyone, Lists
  <1>17. /\ Open(p)' /\ \A q \in Mvm!Pages : q # p => (Open(q)' <=> Open(q))
    BY <1>11 DEF Open, R
  <1>a. MvmTypes'
    <2>1. (MemoryTypeOK /\ FreeOnce)'
      BY <1>7 DEF Running, MvmIInv, MvmTypes, MemoryTypeOK, FreeOnce
    <2> QED
      BY <2>1, <1>1, <1>7, <1>14, <1>15, <1>16 DEF MvmIInv, MvmTypes
  <1>b. OpenIsListed'
    <2> SUFFICES ASSUME NEW q \in Mvm!Pages
                 PROVE  /\ last_touched_ts'[q] = R => touched_curr'.ts = R /\ q \in touched_curr'.pages
                        /\ Open(q)' => last_touched_ts'[q] = R
      BY DEF OpenIsListed, R
    <2>1. last_touched_ts \in [Mvm!Pages -> Tags]
      BY DEF MvmIInv, MvmTypes
    <2> QED
      BY <2>1, <1>14, <1>17 DEF MvmIInv, OpenIsListed, R
  <1>c. SlotsInOrder'
    <2> SUFFICES ASSUME NEW q \in Mvm!Pages
                 PROVE  LET this == slot_ts'[q][cur_slot'[q]]
                            other == slot_ts'[q][1 - cur_slot'[q]]
                        IN  /\ other # Mvm!NEVER => this # Mvm!NEVER /\ other < this
                            /\ last_ts_seen'[q] = R <=> Open(q)'
                            /\ last_touched_ts'[q] # Mvm!NEVER => this # Mvm!NEVER
                            /\ phase # "init" \/ checkpointed => this # Mvm!NEVER
                            /\ phase = "epoch" /\ Open(q)' => other # Mvm!NEVER
      BY DEF SlotsInOrder, R
    <2>1. CASE q # p
      BY <2>1, <1>5, <1>11, <1>14, <1>17 DEF MvmIInv, SlotsInOrder, R, MvmTypes
    <2>2. CASE q = p
      <3>1. R \in Nat /\ Mvm!NEVER # R /\ \A t \in Tags : t \in Nat /\ (t = Mvm!NEVER \/ t <= R)
        BY <1>5, <1>14, TagFacts DEF R
      <3>2. slot_ts[p][c] \in Tags /\ slot_ts[p][1 - c] \in Tags
        BY <1>5, <1>8
      <3>3. /\ slot_ts[p][1 - c] # Mvm!NEVER => slot_ts[p][c] # Mvm!NEVER /\ slot_ts[p][1 - c] < slot_ts[p][c]
            /\ phase = "epoch" => slot_ts[p][c] # Mvm!NEVER
            /\ phase = "epoch" /\ Open(p) => slot_ts[p][1 - c] # Mvm!NEVER
        BY <1>5 DEF MvmIInv, SlotsInOrder, c
      <3>4. slot_ts'[p][1 - next] = IF Open(p) THEN slot_ts[p][1 - c] ELSE slot_ts[p][c]
        BY <1>8, <1>11, <1>12
      <3> QED
        BY <2>2, <3>1, <3>2, <3>3, <3>4, <1>10, <1>11, <1>17
    <2> QED
      BY <2>1, <2>2
  <1>d. BackupIsSaved'
    <2> SUFFICES ASSUME phase = "epoch", NEW h \in Kept PROVE Backup(h)' = SavedAt(h)
      BY DEF BackupIsSaved, Kept, SavedAt
    <2>1. Backup(h) = SavedAt(h) /\ h \in Granules /\ Mvm!PageOf(h) \in Mvm!Pages
      BY PagesOfGranules DEF MvmIInv, BackupIsSaved, Kept
    <2>2. CASE Mvm!PageOf(h) # p
      <3>1. cur_slot[Mvm!PageOf(h)] \in {0, 1} /\ 1 - cur_slot[Mvm!PageOf(h)] \in {0, 1}
        BY <2>1, <1>5
      <3> QED
        BY <3>1, <2>1, <2>2, <1>11, <1>13, <1>17 DEF Backup
    <2>3. CASE Mvm!PageOf(h) = p
      <3>1. Backup(h)' = Slot(older, h)'
        BY <2>3, <1>11, <1>17, <1>o DEF Backup
      <3>2. Backup(h) = Slot(older, h)
        BY <2>3, <1>8, <1>12, <1>o DEF Backup, c
      <3> QED
        BY <3>1, <3>2, <2>1, <1>13
    <2> QED
      BY <2>2, <2>3
  <1> QED
    BY <1>a, <1>b, <1>c, <1>d

\* In the store builds: what the store may change is saved before, once per round.
LEMMA MvmSnapshot ==
  ASSUME MvmAssumption, MvmIInv, ~Mvm!MV, Mvm!Claimed, NEW g \in Granules, Mvm!Snapshot(g),
         area' \in [Granules -> Values],
         \A h \in Granules : h # g => area'[h] = area[h],
         UNCHANGED <<addresses, top_elem, addresses_ckpt, top_elem_ckpt,
                     g_epoch_round, g_ckpt_counter, phase, checkpointed, others, saved>>,
         Running
  PROVE  /\ MvmTypes' /\ OpenIsListed' /\ SlotsInOrder' /\ BackupIsSaved'
         /\ Open(Mvm!PageOf(g))' /\ (Mvm!Grid => g \in grid_curr')
         /\ \A h \in Granules : Open(Mvm!PageOf(h)) =>
               Open(Mvm!PageOf(h))' /\ (h \in grid_curr => h \in grid_curr')
  <1> DEFINE p == Mvm!PageOf(g)
             R == g_epoch_round
             marked == IF Open(p) THEN grid_curr ELSE grid_curr \ Mvm!CellsOf(p)
             saves == IF Mvm!Grid THEN {g} \ marked ELSE IF Open(p) THEN {} ELSE Mvm!CellsOf(p)
  <1>1. Open(p) <=> slot_ts[p][1] = R
    BY DEF Open
  <1>2. /\ Mvm!NoteTouch(p)
        /\ slot_ts' = [slot_ts EXCEPT ![p][1] = R]
        /\ grid_curr' = IF Mvm!Grid THEN marked \cup {g} ELSE grid_curr
        /\ copy' = [h \in Granules |-> IF h \in saves THEN area[h] ELSE copy[h]]
        /\ last_ts_seen' \in {last_ts_seen, [last_ts_seen EXCEPT ![p] = R]}
        /\ cur_slot' = cur_slot
    BY <1>1, MvmSizes DEF Mvm!Snapshot
  <1>3. /\ PhaseRounds /\ p \in Mvm!Pages
        /\ slot_ts \in [Mvm!Pages -> [{0, 1} -> Tags]] /\ cur_slot \in [Mvm!Pages -> {0, 1}]
        /\ \A q \in Mvm!Pages : cur_slot[q] = 0
        /\ last_ts_seen \in [Mvm!Pages -> Tags]
        /\ copy \in [Granules -> Values] /\ area \in [Granules -> Values] /\ grid_curr \subseteq Granules
    BY PagesOfGranules DEF MvmIInv, MvmTypes, MemoryTypeOK
  <1>4. /\ slot_ts'[p][1] = R
        /\ \A q \in Mvm!Pages : q # p => slot_ts'[q] = slot_ts[q]
    BY <1>2, <1>3
  <1>5. \A h \in Granules : h \in Mvm!CellsOf(p) <=> Mvm!PageOf(h) = p
    BY PagesOfGranules
  <1>6. /\ Newest = R /\ R \in Tags /\ touched_curr' \in Lists /\ touched_prev' \in Lists
        /\ last_touched_ts' = [last_touched_ts EXCEPT ![p] = R]
        /\ last_touched_ts' \in [Mvm!Pages -> Tags]
        /\ \A q \in Mvm!Pages : last_touched_ts'[q] = R =>
              touched_curr'.ts = R /\ q \in touched_curr'.pages
    BY <1>2, <1>3, MvmTouch
  <1>7. /\ slot_ts' \in [Mvm!Pages -> [{0, 1} -> Tags]]
        /\ last_ts_seen' \in [Mvm!Pages -> Tags]
        /\ copy' \in [Granules -> Values] /\ grid_curr' \subseteq Granules
    BY <1>2, <1>3, <1>6
  <1>8. \A h \in Granules :
           /\ Mvm!PageOf(h) # p => copy'[h] = copy[h] /\ (h \in grid_curr' <=> h \in grid_curr)
           /\ Open(p) /\ h # g => copy'[h] = copy[h] /\ (h \in grid_curr' <=> h \in grid_curr)
           /\ Open(p) /\ (Mvm!Grid => g \in grid_curr) => copy'[g] = copy[g]
           /\ Mvm!Grid /\ (Open(p) => g \notin grid_curr) => copy'[g] = area[g]
           /\ Mvm!Grid => g \in grid_curr'
           /\ Mvm!Grid /\ ~Open(p) /\ Mvm!PageOf(h) = p /\ h # g => h \notin grid_curr'
           /\ ~Mvm!Grid /\ ~Open(p) /\ Mvm!PageOf(h) = p => copy'[h] = area[h]
    BY <1>2, <1>3, <1>5
  <1> HIDE DEF p, R, marked, saves
  <1>9. Tags' = Tags /\ Lists' = Lists
    BY DEF Tags, Newest, Everyone, Lists
  <1>10. Open(p)' /\ \A q \in Mvm!Pages : q # p => (Open(q)' <=> Open(q))
    BY <1>4 DEF Open, R
  <1>a. MvmTypes'
    <2>1. (MemoryTypeOK /\ FreeOnce)'
      BY DEF Running, MvmIInv, MvmTypes, MemoryTypeOK, FreeOnce
    <2> QED
      BY <2>1, <1>2, <1>3, <1>6, <1>7, <1>9 DEF MvmTypes
  <1>b. OpenIsListed'
    <2> SUFFICES ASSUME NEW q \in Mvm!Pages
                 PROVE  /\ last_touched_ts'[q] = R => touched_curr'.ts = R /\ q \in touched_curr'.pages
                        /\ Open(q)' => last_touched_ts'[q] = R
      BY DEF OpenIsListed, R
    <2>1. last_touched_ts \in [Mvm!Pages -> Tags]
      BY DEF MvmIInv, MvmTypes
    <2> QED
      BY <2>1, <1>6, <1>10 DEF MvmIInv, OpenIsListed, R
  <1>c. SlotsInOrder'
    BY DEF SlotsInOrder
  <1>d. BackupIsSaved'
    <2> SUFFICES ASSUME phase = "epoch", NEW h \in Kept PROVE Backup(h)' = SavedAt(h)
      BY DEF BackupIsSaved, Kept, SavedAt
    <2>1. Backup(h) = SavedAt(h) /\ h \in Granules /\ Mvm!PageOf(h) \in Mvm!Pages
      BY PagesOfGranules DEF MvmIInv, BackupIsSaved, Kept
    <2>2. Mvm!PageOf(h) # p => h # g
      BY DEF p
    <2>3. Mvm!PageOf(g) = p
      BY DEF p
    <2>4. CASE Mvm!PageOf(h) # p
      BY <2>1, <2>2, <2>4, <1>8, <1>10 DEF Backup
    <2>5. CASE Mvm!PageOf(h) = p /\ h # g
      BY <2>1, <2>5, <1>8, <1>10 DEF Backup
    <2>6. CASE h = g
      BY <2>1, <2>3, <2>6, <1>8, <1>10 DEF Backup
    <2> QED
      BY <2>4, <2>5, <2>6
  <1>e. \A h \in Granules : Open(Mvm!PageOf(h)) =>
           Open(Mvm!PageOf(h))' /\ (h \in grid_curr => h \in grid_curr')
    <2> SUFFICES ASSUME NEW h \in Granules, Open(Mvm!PageOf(h))
                 PROVE  Open(Mvm!PageOf(h))' /\ (h \in grid_curr => h \in grid_curr')
      OBVIOUS
    <2>1. CASE Mvm!PageOf(h) = p
      BY <2>1, <1>8, <1>10, <1>2
    <2>2. CASE Mvm!PageOf(h) # p
      BY <2>2, <1>8, <1>10, PagesOfGranules
    <2> QED
      BY <2>1, <2>2
  <1> QED
    BY <1>a, <1>b, <1>c, <1>d, <1>e, <1>8, <1>10 DEF p

\* Both kinds of stores keep the rest of the invariant.
LEMMA MvmStores ==
  ASSUME MvmAssumption, MvmIInv,
         Mvm!CountEvent \/ \E g \in Granules, v \in Values : Mvm!StorePatched(g, v)
  PROVE  MvmIInv'
  <1> USE DEF Mvm!allocator, Mvm!allocator_ckpt, Mvm!rounds, Mvm!engine
  <1>1. ASSUME NEW g \in Granules, Mvm!Claimed, Running, counted' \in {counted, TRUE},
               UNCHANGED <<addresses, top_elem, addresses_ckpt, top_elem_ckpt,
                           g_epoch_round, g_ckpt_counter, phase, checkpointed, others, saved>>,
               MvmTypes', OpenIsListed', SlotsInOrder', BackupIsSaved', SeedsAreSaved'
        PROVE  MvmIInv'
    <2>1. last' = (IF last = "init" THEN "init" ELSE "run") /\ last' # "restore"
      BY <1>1 DEF Running
    <2>2. PhaseRounds'
      BY <1>1, <2>1 DEF MvmIInv, PhaseRounds, Everyone, Mvm!Claimed
    <2>3. SavedShape'
      BY <1>1, <2>1 DEF MvmIInv, SavedShape
    <2>4. SetStays'
      BY <1>1 DEF SetStays, Mvm!Claimed, MvmIInv, PhaseRounds
    <2> QED
      BY <1>1, <2>1, <2>2, <2>3, <2>4 DEF MvmIInv, Mvm!SeedsComeBack
  <1>2. ASSUME Mvm!CountEvent PROVE MvmIInv'
    <2>1. /\ Mvm!Claimed /\ Running /\ counted' = TRUE /\ SeedGranule \in Granules
          /\ UNCHANGED <<addresses, top_elem, addresses_ckpt, top_elem_ckpt,
                         g_epoch_round, g_ckpt_counter, phase, checkpointed, others, saved>>
      BY <1>2, MvmAllocator, StateChunkType DEF Mvm!CountEvent, MvmAssumption
    <2>2. CASE Mvm!MV
      <3>1. Mvm!Content(cur_slot)[SeedGranule] \in Values
        BY <2>1, PagesOfGranules, MvmObjectIs DEF Slot, MvmIInv, MvmTypes, MemoryTypeOK
      <3>2. Mvm!StoreVersion(SeedGranule, Mvm!Content(cur_slot)[SeedGranule])
        BY <1>2, <2>2, MvmSizes DEF Mvm!CountEvent
      <3>3. MvmTypes' /\ OpenIsListed' /\ SlotsInOrder' /\ BackupIsSaved'
        BY <2>1, <2>2, <3>1, <3>2, MvmStoreVersion
      <3> QED
        BY <1>1, <2>1, <2>2, <3>3 DEF SeedsAreSaved
    <2>3. CASE ~Mvm!MV
      <3>1. Mvm!Snapshot(SeedGranule) /\ area' = area
        BY <1>2, <2>3, MvmSizes DEF Mvm!CountEvent
      <3>2. area' \in [Granules -> Values]
        BY <3>1 DEF MvmIInv, MvmTypes, MemoryTypeOK
      <3>3. /\ MvmTypes' /\ OpenIsListed' /\ SlotsInOrder' /\ BackupIsSaved'
            /\ Open(Mvm!PageOf(SeedGranule))' /\ (Mvm!Grid => SeedGranule \in grid_curr')
        BY <2>1, <2>3, <3>1, <3>2, MvmSnapshot
      <3>4. SeedsAreSaved'
        BY <3>3 DEF SeedsAreSaved
      <3> QED
        BY <1>1, <2>1, <3>3, <3>4
    <2> QED
      BY <2>2, <2>3
  <1>3. ASSUME NEW g \in Granules, NEW v \in Values, Mvm!StorePatched(g, v) PROVE MvmIInv'
    <2>1. /\ Mvm!Claimed /\ Running /\ counted' = counted
          /\ UNCHANGED <<addresses, top_elem, addresses_ckpt, top_elem_ckpt,
                         g_epoch_round, g_ckpt_counter, phase, checkpointed, others, saved>>
      BY <1>3, MvmAllocator DEF Mvm!StorePatched, Mvm!InEvent, Mvm!Store
    <2>2. CASE Mvm!MV
      <3>1. Mvm!StoreVersion(g, v)
        BY <1>3, <2>2 DEF Mvm!StorePatched
      <3>2. MvmTypes' /\ OpenIsListed' /\ SlotsInOrder' /\ BackupIsSaved'
        BY <2>1, <2>2, <3>1, MvmStoreVersion
      <3> QED
        BY <1>1, <2>1, <2>2, <3>2 DEF SeedsAreSaved
    <2>3. CASE ~Mvm!MV
      <3>1. Mvm!Snapshot(g) /\ area' = [h \in Granules |-> IF h \in {g} THEN v ELSE area[h]]
        BY <1>3, <2>3, MvmSizes DEF Mvm!StorePatched, Mvm!Store
      <3>2. area' \in [Granules -> Values] /\ \A h \in Granules : h # g => area'[h] = area[h]
        BY <3>1 DEF MvmIInv, MvmTypes, MemoryTypeOK
      <3>3. /\ MvmTypes' /\ OpenIsListed' /\ SlotsInOrder' /\ BackupIsSaved'
            /\ \A h \in Granules : Open(Mvm!PageOf(h)) =>
                  Open(Mvm!PageOf(h))' /\ (h \in grid_curr => h \in grid_curr')
        BY <2>1, <2>3, <3>1, <3>2, MvmSnapshot
      <3>4. SeedsAreSaved'
        <4>1. SeedGranule \in Granules
          BY StateChunkType DEF MvmAssumption
        <4> QED
          BY <4>1, <2>1, <3>3 DEF SeedsAreSaved, MvmIInv
      <3> QED
        BY <1>1, <2>1, <3>3, <3>4
    <2> QED
      BY <2>2, <2>3
  <1> QED
    BY <1>2, <1>3

\* When a checkpoint is counted, of this object or of another one, the round
\* advances with the last of them, and no page is of the new round.
LEMMA MvmCount ==
  ASSUME MvmAssumption, MvmIInv, Mvm!CkptPhase, Mvm!CountCkpt, UNCHANGED <<Mvm!versions, phase>>,
         \/ ~checkpointed /\ checkpointed' = TRUE /\ others' = others /\ last' = "set"
         \/ others < OBJECTS - 1 /\ others' = others + 1 /\ UNCHANGED <<checkpointed, last>>,
         counted' \in BOOLEAN, counted' => counted /\ ~checkpointed',
         Mvm!MV /\ phase = "init" /\ checkpointed' /\ ~checkpointed =>
             \A p \in Mvm!Pages : last_touched_ts[p] # Mvm!NEVER
  PROVE  /\ PhaseRounds' /\ OpenIsListed' /\ SlotsInOrder'
         /\ Newest' = Newest /\ Tags' = Tags /\ Lists' = Lists
  <1>1. /\ UNCHANGED <<copy, slot_ts, cur_slot, last_ts_seen, last_touched_ts, touched_curr, touched_prev,
                       grid_curr, phase>>
        /\ phase \in {"init", "flush"}
    BY DEF Mvm!versions, Mvm!CkptPhase, MvmAssumption
  <1>2. /\ PhaseRounds /\ OBJECTS \in Nat \ {0} /\ MaxRound \in Nat /\ others \in 0..(OBJECTS - 1)
        /\ checkpointed \in BOOLEAN /\ checkpointed' \in BOOLEAN
    BY DEF MvmIInv, PhaseRounds, MvmAssumption
  <1>3. /\ ~Everyone /\ others' \in 0..(OBJECTS - 1)
        /\ g_ckpt_counter = others + (IF checkpointed THEN 1 ELSE 0)
        /\ g_epoch_round < MaxRound /\ g_epoch_round \in Nat
        /\ phase = "init" => g_epoch_round = 0
        /\ phase = "flush" => g_epoch_round >= 1
    BY <1>1, <1>2 DEF PhaseRounds, Everyone
  <1>4. IF Everyone' THEN g_ckpt_counter' = 0 /\ g_epoch_round' = g_epoch_round + 1
        ELSE /\ g_ckpt_counter' = others' + (IF checkpointed' THEN 1 ELSE 0)
             /\ g_epoch_round' = g_epoch_round
    BY <1>2, <1>3 DEF Mvm!CountCkpt, Everyone
  <1>5. PhaseRounds'
    <2>1. g_epoch_round' \in 0..MaxRound /\ (phase # "init" => g_epoch_round' >= 1)
      BY <1>1, <1>2, <1>3, <1>4
    <2>2. last' = "init" <=> phase' = "init" /\ ~checkpointed'
      BY <1>1, <1>2 DEF PhaseRounds
    <2>3. counted' => phase' = "epoch" \/ (phase' = "init" /\ ~checkpointed')
      BY <1>1, <1>2 DEF PhaseRounds
    <2> QED
      BY <1>1, <1>2, <1>3, <1>4, <2>1, <2>2, <2>3 DEF PhaseRounds
  <1>6. Newest' = Newest /\ Newest = g_epoch_round
    BY <1>1, <1>3, <1>4 DEF Newest
  <1>7. Tags' = Tags /\ Lists' = Lists
    BY <1>6 DEF Tags, Lists
  <1>8. ASSUME g_epoch_round' # g_epoch_round, NEW t \in Tags PROVE t # g_epoch_round'
    <2>1. g_epoch_round' = g_epoch_round + 1 /\ g_epoch_round' <= MaxRound
      BY <1>2, <1>3, <1>4, <1>8
    <2>2. Mvm!NEVER = MaxRound + 1
      BY DEF Mvm!NEVER
    <2> QED
      BY <1>2, <1>3, <1>6, <1>8, <2>1, <2>2, TagFacts
  <1>9. /\ slot_ts \in [Mvm!Pages -> [{0, 1} -> Tags]] /\ cur_slot \in [Mvm!Pages -> {0, 1}]
        /\ last_ts_seen \in [Mvm!Pages -> Tags] /\ last_touched_ts \in [Mvm!Pages -> Tags]
    BY DEF MvmIInv, MvmTypes
  <1>10. ASSUME g_epoch_round' # g_epoch_round, NEW p \in Mvm!Pages
         PROVE  ~Open(p)' /\ last_ts_seen[p] # g_epoch_round' /\ last_touched_ts[p] # g_epoch_round'
    BY <1>1, <1>8, <1>9, <1>10 DEF Open
  <1>11. ASSUME g_epoch_round' = g_epoch_round, NEW p \in Mvm!Pages PROVE Open(p)' <=> Open(p)
    BY <1>1, <1>11 DEF Open
  <1>12. OpenIsListed'
    BY <1>1, <1>10, <1>11 DEF OpenIsListed, MvmIInv
  <1>13. SlotsInOrder'
    BY <1>1, <1>2, <1>10, <1>11 DEF SlotsInOrder, MvmIInv
  <1> QED
    BY <1>5, <1>6, <1>7, <1>12, <1>13

LEMMA MvmSet ==
  ASSUME MvmAssumption, MvmIInv, Mvm!SetCkpt
  PROVE  MvmIInv' /\ last' = "set" /\ saved'.object = Mvm!Object
  <1>1. /\ Mvm!CkptPhase /\ ~checkpointed /\ Mvm!CountCkpt /\ UNCHANGED <<Mvm!versions, area, phase, others>>
        /\ checkpointed' = TRUE /\ counted' = FALSE /\ last' = "set"
        /\ saved' = [object |-> Mvm!Object, seeds |-> Mvm!Drawn]
        /\ Primed /\ phase = "init" => \A p \in Mvm!Pages : last_touched_ts[p] = 0
    BY DEF Mvm!SetCkpt
  <1>2. /\ top_elem_ckpt' = top_elem /\ addresses_ckpt' = Copied(addresses, top_elem, addresses_ckpt)
        /\ UNCHANGED <<addresses, top_elem>>
    BY MvmAllocator DEF Mvm!SetCkpt, SetAllocatorCkpt, allocator
  <1>3. /\ Stacks(addresses_ckpt', top_elem)
        /\ FreeStack(addresses_ckpt', top_elem) = FreeStack(addresses, top_elem)
        /\ Distinct(addresses_ckpt', top_elem)
    BY <1>2, CopiedStacks DEF MvmAssumption, MvmIInv, MvmTypes, MemoryTypeOK, FreeOnce
  <1>4. MemoryTypeOK' /\ FreeOnce'
    BY <1>1, <1>2, <1>3 DEF MvmIInv, MvmTypes, MemoryTypeOK, FreeOnce
  <1>5. 0 # Mvm!NEVER
    BY TagFacts DEF MvmIInv
  <1>6. /\ PhaseRounds' /\ OpenIsListed' /\ SlotsInOrder' /\ Tags' = Tags /\ Lists' = Lists
    BY <1>1, <1>5, MvmCount DEF MvmAssumption
  <1>7. MvmTypes'
    BY <1>1, <1>4, <1>6 DEF Mvm!versions, MvmIInv, MvmTypes
  <1>8. /\ Mvm!Object = [heap |-> [g \in Granules \ {SeedGranule} |-> Slot(cur_slot[Mvm!PageOf(g)], g)],
                         free |-> FreeStack(addresses, top_elem)]
        /\ Mvm!Drawn = area[SeedGranule]
    BY PagesOfGranules, MvmObjectIs DEF MvmIInv, MvmTypes
  <1>9. phase # "epoch" /\ UNCHANGED <<area, copy, cur_slot, phase>>
    BY <1>1 DEF Mvm!CkptPhase, MvmAssumption, Mvm!versions
  <1>10. SetStays'
    <2> SUFFICES ASSUME NEW g \in Kept PROVE Slot(cur_slot[Mvm!PageOf(g)], g) = SavedAt(g)'
      BY <1>9 DEF SetStays, Slot, Kept
    <2>1. CASE g # SeedGranule
      BY <2>1, <1>1, <1>8 DEF SavedAt, Kept
    <2>2. CASE g = SeedGranule
      <3>1. SavedAt(g)' = area[SeedGranule]
        BY <2>2, <1>1, <1>8 DEF SavedAt
      <3>2. cur_slot[Mvm!PageOf(g)] = 0
        BY <2>2, PagesOfGranules DEF Kept, MvmIInv, MvmTypes
      <3> QED
        BY <2>2, <3>1, <3>2 DEF Slot
    <2> QED
      BY <2>1, <2>2
  <1>11. SavedShape'
    BY <1>1, <1>2, <1>3, <1>8 DEF SavedShape
  <1> QED
    BY <1>1, <1>6, <1>7, <1>9, <1>10, <1>11
       DEF MvmIInv, BackupIsSaved, SeedsAreSaved, Mvm!SeedsComeBack

LEMMA MvmOther ==
  ASSUME MvmAssumption, MvmIInv, Mvm!OtherCkpt
  PROVE  MvmIInv'
  <1>1. /\ Mvm!CkptPhase /\ others < OBJECTS - 1 /\ Mvm!CountCkpt /\ others' = others + 1
        /\ UNCHANGED <<addresses, top_elem, addresses_ckpt, top_elem_ckpt, area, last, Mvm!versions, phase,
                       checkpointed, counted, saved>>
    BY DEF Mvm!OtherCkpt, Mvm!allocator, Mvm!allocator_ckpt
  <1>2. counted' \in BOOLEAN /\ (counted' => counted /\ ~checkpointed')
    BY <1>1 DEF MvmIInv, PhaseRounds, Mvm!CkptPhase, MvmAssumption
  <1>3. PhaseRounds' /\ OpenIsListed' /\ SlotsInOrder' /\ Tags' = Tags /\ Lists' = Lists
    BY <1>1, <1>2, MvmCount
  <1>4. MvmTypes'
    BY <1>1, <1>3 DEF Mvm!versions, MvmIInv, MvmTypes, MemoryTypeOK, FreeOnce
  <1>5. phase # "epoch" /\ UNCHANGED <<area, copy, cur_slot, phase, checkpointed, saved, last>>
    BY <1>1 DEF Mvm!CkptPhase, MvmAssumption, Mvm!versions
  <1>6. BackupIsSaved' /\ SeedsAreSaved'
    BY <1>5 DEF BackupIsSaved, SeedsAreSaved
  <1>7. SetStays'
    BY <1>5 DEF MvmIInv, SetStays, SavedAt, Kept, Slot
  <1>8. SavedShape' /\ Mvm!SeedsComeBack'
    BY <1>1, <1>5 DEF MvmIInv, SavedShape, Mvm!SeedsComeBack, Mvm!Drawn
  <1> QED
    BY <1>3, <1>4, <1>6, <1>7, <1>8 DEF MvmIInv

LEMMA MvmStart ==
  ASSUME MvmAssumption, MvmIInv, Mvm!StartEpoch
  PROVE  MvmIInv'
  <1>1. /\ phase \in {"init", "flush"} /\ Everyone /\ phase' = "epoch"
        /\ UNCHANGED <<addresses, top_elem, addresses_ckpt, top_elem_ckpt, area, last, copy, slot_ts, cur_slot,
                       last_ts_seen, last_touched_ts, touched_curr, touched_prev, grid_curr,
                       g_epoch_round, g_ckpt_counter, checkpointed, others, counted, saved>>
    BY DEF Mvm!StartEpoch, Mvm!allocator, Mvm!allocator_ckpt, Mvm!versions, Mvm!rounds, Everyone
  <1>2. PhaseRounds /\ PhaseRounds' /\ ~counted /\ Everyone'
    BY <1>1 DEF MvmIInv, PhaseRounds, Everyone
  <1>3. \A t \in Tags : t # g_epoch_round /\ t \in Tags'
    <2>1. Newest = g_epoch_round - 1 /\ Newest' = g_epoch_round /\ g_epoch_round >= 1
      BY <1>1, <1>2 DEF Newest, PhaseRounds
    <2>2. Newest \in Nat /\ g_epoch_round \in Nat /\ Mvm!NEVER > g_epoch_round
      BY <1>2, TagFacts
    <2> QED
      BY <1>2, <2>1, <2>2, TagFacts DEF Tags
  <1>4. /\ slot_ts \in [Mvm!Pages -> [{0, 1} -> Tags]] /\ cur_slot \in [Mvm!Pages -> {0, 1}]
        /\ last_ts_seen \in [Mvm!Pages -> Tags] /\ last_touched_ts \in [Mvm!Pages -> Tags]
        /\ touched_curr \in Lists /\ touched_prev \in Lists
    BY DEF MvmIInv, MvmTypes
  <1>5. MvmTypes'
    <2>1. (MemoryTypeOK /\ FreeOnce)'
      BY <1>1 DEF MvmIInv, MvmTypes, MemoryTypeOK, FreeOnce
    <2>2. /\ slot_ts \in [Mvm!Pages -> [{0, 1} -> Tags']]
          /\ last_ts_seen \in [Mvm!Pages -> Tags'] /\ last_touched_ts \in [Mvm!Pages -> Tags']
          /\ touched_curr \in Lists' /\ touched_prev \in Lists'
      BY <1>3, <1>4 DEF Lists
    <2> QED
      BY <2>1, <2>2, <1>1 DEF MvmIInv, MvmTypes
  <1>6. \A p \in Mvm!Pages : ~Open(p) /\ ~Open(p)'
    BY <1>1, <1>3, <1>4 DEF Open
  <1>7. OpenIsListed' /\ SlotsInOrder'
    BY <1>1, <1>6 DEF MvmIInv, OpenIsListed, SlotsInOrder, Everyone
  <1>8. BackupIsSaved'
    <2> SUFFICES ASSUME NEW g \in Kept PROVE Backup(g)' = SavedAt(g)
      BY <1>1 DEF BackupIsSaved, Kept, SavedAt
    <2>1. g \in Granules /\ Mvm!PageOf(g) \in Mvm!Pages
      BY PagesOfGranules DEF Kept
    <2>2. Slot(cur_slot[Mvm!PageOf(g)], g) = SavedAt(g)
      BY <1>1 DEF MvmIInv, SetStays, Everyone
    <2>3. ~Mvm!MV => cur_slot[Mvm!PageOf(g)] = 0
      BY <2>1 DEF MvmIInv, MvmTypes
    <2> QED
      BY <2>1, <2>2, <2>3, <1>1, <1>6 DEF Backup, Slot
  <1>9. SetStays' /\ SeedsAreSaved'
    BY <1>1, <1>2 DEF SetStays, SeedsAreSaved
  <1>10. SavedShape' /\ Mvm!SeedsComeBack'
    BY <1>1 DEF MvmIInv, SavedShape, Mvm!SeedsComeBack, Mvm!Drawn
  <1> QED
    BY <1>2, <1>5, <1>7, <1>8, <1>9, <1>10 DEF MvmIInv

LEMMA MvmEnd ==
  ASSUME MvmAssumption, MvmIInv, Mvm!EndEpoch
  PROVE  MvmIInv'
  <1>1. /\ phase = "epoch" /\ phase' = "flush" /\ checkpointed' = FALSE /\ others' = 0 /\ counted' = FALSE
        /\ g_epoch_round < MaxRound
        /\ UNCHANGED <<addresses, top_elem, addresses_ckpt, top_elem_ckpt, area, last, copy, slot_ts, cur_slot,
                       last_ts_seen, last_touched_ts, touched_curr, touched_prev, grid_curr,
                       g_epoch_round, g_ckpt_counter, saved>>
    BY DEF Mvm!EndEpoch, Mvm!allocator, Mvm!allocator_ckpt, Mvm!versions, Mvm!rounds, MvmAssumption
  <1>2. PhaseRounds'
    <2>1. Everyone /\ ~Everyone' /\ 0 \in 0..(OBJECTS - 1)
      BY <1>1 DEF MvmIInv, PhaseRounds, Everyone, MvmAssumption
    <2>2. g_ckpt_counter = 0 /\ g_epoch_round >= 1 /\ last # "init" /\ g_epoch_round \in 0..MaxRound
      BY <1>1, <2>1 DEF MvmIInv, PhaseRounds
    <2>3. g_ckpt_counter' = others' + (IF checkpointed' THEN 1 ELSE 0)
      BY <1>1, <2>2
    <2> QED
      BY <1>1, <2>1, <2>2, <2>3 DEF PhaseRounds
  <1>3. Tags' = Tags /\ Lists' = Lists
    BY <1>1 DEF Tags, Newest, Everyone, Lists
  <1>4. MvmTypes'
    BY <1>1, <1>3 DEF MvmIInv, MvmTypes, MemoryTypeOK, FreeOnce
  <1>5. OpenIsListed' /\ SlotsInOrder'
    BY <1>1 DEF MvmIInv, OpenIsListed, SlotsInOrder, Open
  <1>6. BackupIsSaved' /\ SetStays' /\ SeedsAreSaved'
    BY <1>1 DEF BackupIsSaved, SetStays, SeedsAreSaved
  <1>7. SavedShape' /\ Mvm!SeedsComeBack'
    BY <1>1 DEF MvmIInv, SavedShape, Mvm!SeedsComeBack, Mvm!Drawn
  <1> QED
    BY <1>2, <1>4, <1>5, <1>6, <1>7 DEF MvmIInv

\* A page of the current round is found by the rollback, and no other page has a
\* version after the target.
LEMMA MvmTarget ==
  ASSUME MvmAssumption, MvmIInv, phase = "epoch"
  PROVE  /\ g_epoch_round >= 1 /\ g_epoch_round - 1 \in Nat
         /\ \A t \in Tags : /\ Mvm!After(t, g_epoch_round - 1) <=> t = g_epoch_round
                            /\ Mvm!Upto(t, g_epoch_round - 1) <=> t # g_epoch_round /\ t # Mvm!NEVER
         /\ \A p \in Mvm!Pages : Open(p) => p \in Mvm!Listed(g_epoch_round - 1)
         /\ Newest = g_epoch_round /\ Mvm!NEVER \in Tags /\ Mvm!NEVER # g_epoch_round
  <1>1. /\ g_epoch_round \in Nat /\ g_epoch_round >= 1 /\ Newest = g_epoch_round
        /\ Mvm!NEVER # g_epoch_round /\ Mvm!NEVER \in Tags
        /\ \A t \in Tags : t \in Nat /\ (t = Mvm!NEVER \/ t <= g_epoch_round)
    <2>1. PhaseRounds
      BY DEF MvmIInv
    <2>2. g_epoch_round >= 1 /\ Newest = g_epoch_round
      BY <2>1 DEF PhaseRounds, Newest
    <2> QED
      BY <2>1, <2>2, TagFacts
  <1>2. \A t \in Tags : /\ Mvm!After(t, g_epoch_round - 1) <=> t = g_epoch_round
                        /\ Mvm!Upto(t, g_epoch_round - 1) <=> t # g_epoch_round /\ t # Mvm!NEVER
    BY <1>1 DEF Mvm!After, Mvm!Upto
  <1>3. ASSUME NEW p \in Mvm!Pages, Open(p) PROVE p \in Mvm!Listed(g_epoch_round - 1)
    <2>1. touched_curr.ts = g_epoch_round /\ p \in touched_curr.pages /\ touched_curr.ts \in Tags
      BY <1>3 DEF MvmIInv, OpenIsListed, MvmTypes, Lists
    <2> QED
      BY <2>1, <1>2 DEF Mvm!Listed
  <1> QED
    BY <1>1, <1>2, <1>3

\* mmap_mv: every page is back at the version before the round.
LEMMA MvmRollbackVersions ==
  ASSUME MvmAssumption, MvmIInv, Mvm!MV, phase = "epoch", Mvm!RollbackVersions(g_epoch_round - 1),
         UNCHANGED <<copy, last_touched_ts, touched_curr, touched_prev, grid_curr,
                     g_epoch_round, g_ckpt_counter, phase, checkpointed, others, saved>>
  PROVE  /\ UNCHANGED area
         /\ slot_ts' \in [Mvm!Pages -> [{0, 1} -> Tags]] /\ cur_slot' \in [Mvm!Pages -> {0, 1}]
         /\ last_ts_seen' \in [Mvm!Pages -> Tags]
         /\ \A g \in Granules : Slot(cur_slot'[Mvm!PageOf(g)], g) = Backup(g)
         /\ \A p \in Mvm!Pages : ~Open(p)'
         /\ SlotsInOrder'
  <1> DEFINE R == g_epoch_round
             target == g_epoch_round - 1
             back == {p \in Mvm!Listed(target) : Mvm!Published(p, target) # {}}
  <1>1. /\ cur_slot' = [p \in Mvm!Pages |-> IF p \in back THEN CHOOSE s \in Mvm!Published(p, target) : TRUE
                                            ELSE cur_slot[p]]
        /\ slot_ts' = [p \in Mvm!Pages |-> [s \in {0, 1} |->
                          IF p \in back /\ Mvm!After(slot_ts[p][s], target)
                          THEN Mvm!NEVER ELSE slot_ts[p][s]]]
        /\ last_ts_seen' = [p \in Mvm!Pages |-> IF p \in back THEN Mvm!NEVER ELSE last_ts_seen[p]]
        /\ area' = area
    BY DEF Mvm!RollbackVersions
  <1>2. /\ \A t \in Tags : /\ Mvm!After(t, target) <=> t = R
                           /\ Mvm!Upto(t, target) <=> t # R /\ t # Mvm!NEVER
        /\ \A p \in Mvm!Pages : Open(p) => p \in Mvm!Listed(target)
        /\ Mvm!NEVER \in Tags /\ Mvm!NEVER # R
        /\ R \in Nat /\ \A t \in Tags : t \in Nat /\ (t = Mvm!NEVER \/ t <= R)
    <2>1. /\ g_epoch_round \in Nat /\ Newest = g_epoch_round
          /\ \A t \in Tags : t \in Nat /\ (t = Mvm!NEVER \/ t <= g_epoch_round)
      BY MvmTarget, TagFacts DEF MvmIInv
    <2> QED
      BY <2>1, MvmTarget
  <1>3. /\ slot_ts \in [Mvm!Pages -> [{0, 1} -> Tags]] /\ cur_slot \in [Mvm!Pages -> {0, 1}]
        /\ last_ts_seen \in [Mvm!Pages -> Tags]
    BY DEF MvmIInv, MvmTypes
  <1> HIDE DEF R, target, back
  <1>4. ASSUME NEW p \in Mvm!Pages
        PROVE  /\ cur_slot'[p] = (IF Open(p) THEN 1 - cur_slot[p] ELSE cur_slot[p])
               /\ cur_slot'[p] \in {0, 1}
               /\ Open(p) => p \in back
               /\ slot_ts'[p][cur_slot'[p]] # R /\ slot_ts'[p][cur_slot'[p]] # Mvm!NEVER
               /\ LET other == slot_ts'[p][1 - cur_slot'[p]]
                  IN  other # Mvm!NEVER => other < slot_ts'[p][cur_slot'[p]]
    <2> DEFINE c == cur_slot[p]
               this == slot_ts[p][c]
               other == slot_ts[p][1 - c]
    <2>1. /\ c \in {0, 1} /\ 1 - c \in {0, 1} /\ c # 1 - c /\ \A s \in {0, 1} : s = c \/ s = 1 - c
          /\ this \in Tags /\ other \in Tags
      BY <1>3
    <2>2. /\ other # Mvm!NEVER => this # Mvm!NEVER /\ other < this
          /\ this # Mvm!NEVER
          /\ Open(p) => other # Mvm!NEVER
          /\ Open(p) <=> this = R
      <3>1. Open(p) <=> this = R
        BY DEF Open, R
      <3> QED
        BY <3>1 DEF MvmIInv, SlotsInOrder
    <2>3. \A s \in {0, 1} : s \in Mvm!Published(p, target) <=>
             /\ Mvm!Upto(slot_ts[p][s], target)
             /\ Mvm!Upto(slot_ts[p][1 - s], target) =>
                   \/ slot_ts[p][s] > slot_ts[p][1 - s]
                   \/ slot_ts[p][s] = slot_ts[p][1 - s] /\ s = 1
      BY DEF Mvm!Published
    <2>4. Mvm!Published(p, target) \subseteq {0, 1}
      BY DEF Mvm!Published
    <2>5. 1 - (1 - c) = c
      BY <2>1
    <2> HIDE DEF c, this, other
    <2>6. Mvm!Upto(this, target) <=> ~Open(p)
      BY <1>2, <2>1, <2>2
    <2>7. Mvm!Upto(other, target) <=> other # Mvm!NEVER
      BY <1>2, <2>1, <2>2
    <2>8. c \in Mvm!Published(p, target) <=> ~Open(p)
      <3>1. c \in Mvm!Published(p, target) <=>
               /\ Mvm!Upto(this, target)
               /\ Mvm!Upto(other, target) => this > other \/ (this = other /\ c = 1)
        BY <2>1, <2>3 DEF this, other
      <3>2. other # Mvm!NEVER => this > other
        BY <1>2, <2>1, <2>2
      <3> QED
        BY <3>1, <3>2, <2>6, <2>7
    <2>9. 1 - c \in Mvm!Published(p, target) <=> Open(p)
      <3>1. 1 - c \in Mvm!Published(p, target) <=>
               /\ Mvm!Upto(other, target)
               /\ Mvm!Upto(this, target) => other > this \/ (other = this /\ 1 - c = 1)
        BY <2>1, <2>3, <2>5 DEF this, other
      <3>2. other # Mvm!NEVER => ~(other > this) /\ other # this
        BY <1>2, <2>1, <2>2
      <3> QED
        BY <3>1, <3>2, <2>2, <2>6, <2>7
    <2>10. Mvm!Published(p, target) = {IF Open(p) THEN 1 - c ELSE c}
      BY <2>1, <2>4, <2>8, <2>9
    <2>11. Open(p) => p \in back
      BY <1>2, <2>10 DEF back
    <2>12. cur_slot'[p] = IF Open(p) THEN 1 - c ELSE c
      BY <1>1, <2>10, <2>11 DEF c
    <2>13. \A s \in {0, 1} : slot_ts'[p][s] = IF p \in back /\ slot_ts[p][s] = R
                                              THEN Mvm!NEVER ELSE slot_ts[p][s]
      BY <1>1, <1>2, <1>3
    <2>14. CASE Open(p)
      <3>1. slot_ts'[p][1 - c] = other /\ slot_ts'[p][c] = Mvm!NEVER
        <4>1. other # R
          BY <1>2, <2>1, <2>2, <2>14
        <4> QED
          BY <4>1, <2>1, <2>2, <2>11, <2>13, <2>14 DEF this, other
      <3> QED
        BY <3>1, <1>2, <2>1, <2>2, <2>5, <2>11, <2>12, <2>14 DEF c
    <2>15. CASE ~Open(p)
      <3>1. slot_ts'[p][c] = this /\ slot_ts'[p][1 - c] = other
        <4>1. this # R /\ other # R
          BY <1>2, <2>1, <2>2, <2>15
        <4> QED
          BY <4>1, <2>1, <2>13 DEF this, other
      <3> QED
        BY <3>1, <1>2, <2>1, <2>2, <2>12, <2>15 DEF c
    <2> QED
      BY <2>14, <2>15
  <1>5. /\ slot_ts' \in [Mvm!Pages -> [{0, 1} -> Tags]] /\ last_ts_seen' \in [Mvm!Pages -> Tags]
    BY <1>1, <1>2, <1>3
  <1>6. cur_slot' \in [Mvm!Pages -> {0, 1}]
    <2>1. cur_slot' = [p \in Mvm!Pages |-> cur_slot'[p]]
      BY <1>1
    <2> QED
      BY <2>1, <1>4
  <1>7. \A g \in Granules : Slot(cur_slot'[Mvm!PageOf(g)], g) = Backup(g)
    BY <1>4, PagesOfGranules DEF Backup
  <1>8. \A p \in Mvm!Pages : ~Open(p)'
    BY <1>4 DEF Open, R
  <1>9. SlotsInOrder'
    <2> SUFFICES ASSUME NEW p \in Mvm!Pages PROVE last_ts_seen'[p] # R
      BY <1>4, <1>8 DEF SlotsInOrder, R
    <2>1. p \notin back => last_ts_seen[p] # R
      BY <1>4 DEF MvmIInv, SlotsInOrder, R
    <2> QED
      BY <2>1, <1>1, <1>2
  <1> QED
    BY <1>1, <1>5, <1>6, <1>7, <1>8, <1>9

\* The store builds: what was saved in the round is copied back.
LEMMA MvmRollbackSnapshots ==
  ASSUME MvmAssumption, MvmIInv, ~Mvm!MV, phase = "epoch", Mvm!RollbackSnapshots(g_epoch_round - 1)
  PROVE  /\ UNCHANGED <<slot_ts, cur_slot>>
         /\ last_ts_seen' \in [Mvm!Pages -> Tags]
         /\ area' \in [Granules -> Values]
         /\ \A g \in Granules : area'[g] = Backup(g)
  <1> DEFINE target == g_epoch_round - 1
             back == {p \in Mvm!Listed(target) : Mvm!After(slot_ts[p][1], target)}
  <1>1. /\ area' = [g \in Granules |-> IF Mvm!PageOf(g) \in back /\ (Mvm!Grid => g \in grid_curr)
                                       THEN copy[g] ELSE area[g]]
        /\ last_ts_seen' = [p \in Mvm!Pages |-> IF p \in back THEN Mvm!NEVER ELSE last_ts_seen[p]]
        /\ UNCHANGED <<slot_ts, cur_slot>>
    BY MvmSizes DEF Mvm!RollbackSnapshots
  <1>2. \A p \in Mvm!Pages : p \in back <=> Open(p)
    BY MvmTarget DEF MvmIInv, MvmTypes, Open
  <1>3. Mvm!NEVER \in Tags /\ last_ts_seen \in [Mvm!Pages -> Tags]
    BY MvmTarget DEF MvmIInv, MvmTypes
  <1> HIDE DEF back
  <1>4. area' \in [Granules -> Values]
    BY <1>1 DEF MvmIInv, MvmTypes, MemoryTypeOK
  <1>5. last_ts_seen' \in [Mvm!Pages -> Tags]
    BY <1>1, <1>3
  <1>6. \A g \in Granules : area'[g] = Backup(g)
    BY <1>1, <1>2, PagesOfGranules DEF Backup
  <1> QED
    BY <1>1, <1>4, <1>5, <1>6

LEMMA MvmRestore ==
  ASSUME MvmAssumption, MvmIInv, Mvm!RestoreObject
  PROVE  /\ MvmIInv' /\ last # "init" /\ last' = "restore" /\ saved' = saved
         /\ Mvm!Object' = saved.object
  <1>1. /\ phase = "epoch" /\ last' = "restore" /\ counted' = FALSE
        /\ UNCHANGED <<copy, last_touched_ts, touched_curr, touched_prev, grid_curr,
                       g_epoch_round, g_ckpt_counter, phase, checkpointed, others, saved>>
    BY DEF Mvm!RestoreObject, Mvm!rounds
  <1>2. IF Mvm!MV THEN Mvm!RollbackVersions(g_epoch_round - 1) ELSE Mvm!RollbackSnapshots(g_epoch_round - 1)
    BY <1>1, MvmTarget DEF Mvm!RestoreObject
  <1>3. /\ top_elem' = top_elem_ckpt /\ addresses' = Copied(addresses_ckpt, top_elem_ckpt, addresses)
        /\ UNCHANGED <<addresses_ckpt, top_elem_ckpt>>
    BY MvmAllocator DEF Mvm!RestoreObject, RestoreAllocator, allocator_ckpt
  <1>4. /\ Stacks(addresses', top_elem_ckpt)
        /\ FreeStack(addresses', top_elem_ckpt) = FreeStack(addresses_ckpt, top_elem_ckpt)
        /\ Distinct(addresses', top_elem_ckpt)
    BY <1>3, CopiedStacks DEF MvmAssumption, MvmIInv, MvmTypes, MemoryTypeOK, FreeOnce
  <1>5. Tags' = Tags /\ Lists' = Lists
    BY <1>1 DEF Tags, Newest, Everyone, Lists
  <1>6. /\ slot_ts' \in [Mvm!Pages -> [{0, 1} -> Tags]] /\ cur_slot' \in [Mvm!Pages -> {0, 1}]
        /\ ~Mvm!MV => \A p \in Mvm!Pages : cur_slot'[p] = 0
        /\ last_ts_seen' \in [Mvm!Pages -> Tags] /\ area' \in [Granules -> Values]
        /\ \A g \in Granules : Slot(cur_slot[Mvm!PageOf(g)], g)' = Backup(g) /\ Backup(g)' = Backup(g)
        /\ SlotsInOrder' /\ \A p \in Mvm!Pages : Open(p)' => Open(p)
    <2>1. CASE Mvm!MV
      <3>1. /\ UNCHANGED area
            /\ slot_ts' \in [Mvm!Pages -> [{0, 1} -> Tags]] /\ cur_slot' \in [Mvm!Pages -> {0, 1}]
            /\ last_ts_seen' \in [Mvm!Pages -> Tags]
            /\ \A g \in Granules : Slot(cur_slot'[Mvm!PageOf(g)], g) = Backup(g)
            /\ \A p \in Mvm!Pages : ~Open(p)'
            /\ SlotsInOrder'
        BY <1>1, <1>2, <2>1, MvmRollbackVersions
      <3>2. \A g \in Granules : Slot(cur_slot[Mvm!PageOf(g)], g)' = Backup(g)
        BY <3>1, <1>1 DEF Slot
      <3>3. \A g \in Granules : Backup(g)' = Backup(g)
        BY <3>1, <3>2, <2>1, PagesOfGranules DEF Backup
      <3>4. area' \in [Granules -> Values]
        BY <3>1 DEF MvmIInv, MvmTypes, MemoryTypeOK
      <3> QED
        BY <3>1, <3>2, <3>3, <3>4, <2>1
    <2>2. CASE ~Mvm!MV
      <3>1. /\ UNCHANGED <<slot_ts, cur_slot>>
            /\ last_ts_seen' \in [Mvm!Pages -> Tags]
            /\ area' \in [Granules -> Values]
            /\ \A g \in Granules : area'[g] = Backup(g)
        BY <1>1, <1>2, <2>2, MvmRollbackSnapshots
      <3>2. /\ \A p \in Mvm!Pages : cur_slot[p] = 0
            /\ slot_ts \in [Mvm!Pages -> [{0, 1} -> Tags]] /\ cur_slot \in [Mvm!Pages -> {0, 1}]
        BY <2>2 DEF MvmIInv, MvmTypes
      <3>3. \A p \in Mvm!Pages : Open(p)' <=> Open(p)
        BY <3>1, <1>1 DEF Open
      <3>4. \A g \in Granules : Slot(cur_slot[Mvm!PageOf(g)], g)' = Backup(g)
        BY <3>1, <3>2, PagesOfGranules DEF Slot
      <3>5. \A g \in Granules : Backup(g)' = Backup(g)
        BY <3>1, <3>3, <2>2, <1>1, PagesOfGranules DEF Backup
      <3>6. SlotsInOrder'
        BY <2>2 DEF SlotsInOrder
      <3> QED
        BY <3>1, <3>2, <3>3, <3>4, <3>5, <3>6
    <2> QED
      BY <2>1, <2>2
  <1>7. \A g \in Kept : Backup(g) = SavedAt(g) /\ g \in Granules
    BY <1>1 DEF MvmIInv, BackupIsSaved, Kept
  <1>8. last # "init"
    BY <1>1 DEF MvmIInv, PhaseRounds
  <1>a. MvmTypes'
    <2>1. (MemoryTypeOK /\ FreeOnce)'
      BY <1>1, <1>3, <1>4, <1>6 DEF MvmIInv, MvmTypes, MemoryTypeOK, FreeOnce
    <2> QED
      BY <2>1, <1>1, <1>5, <1>6 DEF MvmIInv, MvmTypes
  <1>b. PhaseRounds'
    BY <1>1, <1>8 DEF MvmIInv, PhaseRounds, Everyone
  <1>c. OpenIsListed'
    BY <1>1, <1>6 DEF MvmIInv, OpenIsListed
  <1>d. BackupIsSaved'
    BY <1>1, <1>6, <1>7 DEF BackupIsSaved, Kept, SavedAt
  <1>e. SetStays' /\ SeedsAreSaved'
    BY <1>1 DEF SetStays, SeedsAreSaved
  <1>f. SavedShape'
    BY <1>1, <1>3, <1>8 DEF MvmIInv, SavedShape
  <1>g. Mvm!SeedsComeBack'
    <2> SUFFICES ASSUME ~Mvm!MV, CountsFirst PROVE area'[SeedGranule] = saved.seeds
      BY <1>1, MvmSizes DEF Mvm!SeedsComeBack, Mvm!Drawn
    <2>1. SeedGranule \in Kept /\ SeedGranule \in Granules
      BY StateChunkType DEF Kept, MvmAssumption
    <2>2. Slot(cur_slot[Mvm!PageOf(SeedGranule)], SeedGranule)' = area'[SeedGranule]
      BY <2>1, <1>6, PagesOfGranules DEF Slot
    <2> QED
      BY <2>1, <2>2, <1>6, <1>7 DEF SavedAt
  <1>9. Mvm!Object' = saved.object
    <2>1. Mvm!Object' = [heap |-> [g \in Granules \ {SeedGranule} |-> Slot(cur_slot[Mvm!PageOf(g)], g)'],
                         free |-> FreeStack(addresses, top_elem)']
      <3>1. (\A g \in Granules : cur_slot[Mvm!PageOf(g)] \in {0, 1})'
        BY <1>6, PagesOfGranules
      <3>2. ((\A g \in Granules : cur_slot[Mvm!PageOf(g)] \in {0, 1}) =>
                Mvm!Object = [heap |-> [g \in Granules \ {SeedGranule} |-> Slot(cur_slot[Mvm!PageOf(g)], g)],
                              free |-> FreeStack(addresses, top_elem)])'
        BY MvmObjectIs, PTL
      <3> QED
        BY <3>1, <3>2
    <2>2. \A g \in Granules \ {SeedGranule} :
             Slot(cur_slot[Mvm!PageOf(g)], g)' = saved.object.heap[g]
      BY <1>6, <1>7 DEF Kept, SavedAt
    <2>3. FreeStack(addresses, top_elem)' = FreeStack(addresses_ckpt, top_elem_ckpt)
      BY <1>3, <1>4
    <2>4. saved.object = [heap |-> [g \in Granules \ {SeedGranule} |-> saved.object.heap[g]],
                          free |-> FreeStack(addresses_ckpt, top_elem_ckpt)]
      BY <1>8 DEF MvmIInv, SavedShape
    <2> QED
      BY <2>1, <2>2, <2>3, <2>4
  <1>h. MvmIInv'
    BY <1>a, <1>b, <1>c, <1>d, <1>e, <1>f, <1>g, <1>6 DEF MvmIInv
  <1> QED
    BY <1>1, <1>8, <1>9, <1>h

-----------------------------------------------------------------------------
(* The multi-version memory: the refinement *)

LEMMA MvmStepPreserves ==
  ASSUME MvmAssumption, MvmIInv, [Mvm!Next]_(Mvm!vars)
  PROVE  MvmIInv' /\ [Mvm!Abstract!Next]_<<Mvm!Object, saved.object, last>>
  <1>1. ASSUME Running, saved' = saved PROVE Mvm!Abstract!Next
    BY <1>1 DEF Running, Mvm!Abstract!Next, Mvm!Abstract!Run
  <1>2. ASSUME UNCHANGED <<addresses, top_elem, area, last, Mvm!versions, saved>>
        PROVE  UNCHANGED <<Mvm!Object, saved.object, last>>
    BY <1>2 DEF Mvm!Object, Mvm!Content, Mvm!versions
  <1>3. ASSUME NEW size, Mvm!MallocChunk(size) PROVE MvmIInv' /\ Mvm!Abstract!Next
    <2>1. Running /\ saved' = saved
      BY <1>3, MvmAllocator DEF Mvm!MallocChunk, Malloc
    <2> QED
      BY <2>1, <1>1, <1>3, MvmAllocations
  <1>4. ASSUME NEW k, Mvm!FreeChunk(k) PROVE MvmIInv' /\ Mvm!Abstract!Next
    <2>1. Running /\ saved' = saved
      BY <1>4, MvmAllocator DEF Mvm!FreeChunk, Free
    <2> QED
      BY <2>1, <1>1, <1>4, MvmAllocations
  <1>5. ASSUME NEW g \in Granules, NEW v \in Values, Mvm!StorePatched(g, v)
        PROVE  MvmIInv' /\ Mvm!Abstract!Next
    <2>1. Running /\ saved' = saved
      BY <1>5, MvmAllocator DEF Mvm!StorePatched, Mvm!Store
    <2> QED
      BY <2>1, <1>1, <1>5, MvmStores
  <1>6. ASSUME Mvm!CountEvent PROVE MvmIInv' /\ Mvm!Abstract!Next
    <2>1. Running /\ saved' = saved
      BY <1>6, MvmAllocator DEF Mvm!CountEvent
    <2> QED
      BY <2>1, <1>1, <1>6, MvmStores
  <1>7. ASSUME Mvm!DrawRandom PROVE MvmIInv' /\ Mvm!Abstract!Next
    <2>1. Running /\ saved' = saved
      BY <1>7, MvmAllocator DEF Mvm!DrawRandom, Mvm!Draw
    <2> QED
      BY <2>1, <1>1, <1>7, MvmAllocations
  <1>8. ASSUME Mvm!SetCkpt PROVE MvmIInv' /\ Mvm!Abstract!Next
    <2>1. MvmIInv' /\ last' = "set" /\ saved'.object = Mvm!Object
      BY <1>8, MvmSet
    <2>2. Mvm!Object' = Mvm!Object
      <3>1. UNCHANGED <<addresses, top_elem, area, Mvm!versions>>
        BY <1>8, MvmAllocator DEF Mvm!SetCkpt, SetAllocatorCkpt, allocator
      <3> QED
        BY <3>1 DEF Mvm!Object, Mvm!Content, Mvm!versions
    <2> QED
      BY <2>1, <2>2 DEF Mvm!Abstract!Next, Mvm!Abstract!Set
  <1>9. ASSUME Mvm!OtherCkpt \/ Mvm!StartEpoch \/ Mvm!EndEpoch
        PROVE  MvmIInv' /\ UNCHANGED <<Mvm!Object, saved.object, last>>
    <2>1. UNCHANGED <<addresses, top_elem, area, last, Mvm!versions, saved>>
      BY <1>9 DEF Mvm!OtherCkpt, Mvm!StartEpoch, Mvm!EndEpoch, Mvm!allocator
    <2> QED
      BY <2>1, <1>2, <1>9, MvmOther, MvmStart, MvmEnd
  <1>10. ASSUME Mvm!RestoreObject PROVE MvmIInv' /\ Mvm!Abstract!Next
    BY <1>10, MvmRestore DEF Mvm!Abstract!Next, Mvm!Abstract!Restore
  <1>11. CASE UNCHANGED Mvm!vars
    <2>1. /\ UNCHANGED <<addresses, top_elem, addresses_ckpt, top_elem_ckpt, area, last, Mvm!versions, saved>>
          /\ UNCHANGED <<copy, slot_ts, cur_slot, last_ts_seen, last_touched_ts, touched_curr, touched_prev,
                         grid_curr, g_epoch_round, g_ckpt_counter, phase, checkpointed, others, counted>>
      BY <1>11 DEF Mvm!vars, Mvm!allocator, Mvm!allocator_ckpt, Mvm!versions, Mvm!rounds, Mvm!engine
    <2>2. MvmTypes' /\ PhaseRounds'
      BY <2>1 DEF MvmIInv, MvmTypes, Lists, Tags, Newest, Everyone, MemoryTypeOK, FreeOnce, PhaseRounds
    <2>3. OpenIsListed' /\ SlotsInOrder'
      BY <2>1 DEF MvmIInv, OpenIsListed, SlotsInOrder, Open
    <2>4. BackupIsSaved' /\ SetStays'
      BY <2>1 DEF MvmIInv, BackupIsSaved, SetStays, Backup, Slot, Open, SavedAt, Kept
    <2>5. SeedsAreSaved' /\ SavedShape' /\ Mvm!SeedsComeBack'
      BY <2>1 DEF MvmIInv, SeedsAreSaved, SavedShape, Open, Mvm!SeedsComeBack, Mvm!Drawn
    <2> QED
      BY <2>1, <2>2, <2>3, <2>4, <2>5, <1>2 DEF MvmIInv
  <1>12. CASE Mvm!Next
    BY <1>12, <1>3, <1>4, <1>5, <1>6, <1>7, <1>8, <1>9, <1>10, MvmSizes DEF Mvm!Next
  <1> QED
    BY <1>11, <1>12

LEMMA MvmInductive ==
  ASSUME MvmAssumption
  PROVE  Mvm!Spec => []MvmIInv
  <1>1. Mvm!Init => MvmIInv
    BY MvmInit
  <1>2. MvmIInv /\ [Mvm!Next]_(Mvm!vars) => MvmIInv'
    BY MvmStepPreserves
  <1> QED
    BY <1>1, <1>2, PTL DEF Mvm!Spec

\* In the three builds of the multi-version memory, for any number of objects and
\* any page size, every variable keeps its type (no page is of a round that has not
\* been reached) and no chunk is free twice, now or at the checkpoint.
THEOREM MvmMemoryIntact ==
  ASSUME MvmAssumption
  PROVE  Mvm!Spec => []Mvm!MemoryIntact
  <1>1. ASSUME MvmIInv PROVE Mvm!MemoryIntact
    <2>1. Mvm!MemoryTypeOK /\ Mvm!FreeOnce
      BY <1>1, MvmSizes DEF Mvm!MemoryTypeOK, Mvm!Stacks, Stacks, Mvm!FreeOnce, Mvm!Distinct, Distinct,
                            MvmIInv, MvmTypes, MemoryTypeOK, FreeOnce
    <2>2. Tags \subseteq Mvm!Rounds \cup {Mvm!NEVER}
      <3>1. Newest \in Nat /\ Newest <= MaxRound /\ MaxRound \in Nat
        BY <1>1, TagFacts DEF MvmIInv
      <3> QED
        BY <3>1 DEF Tags, Mvm!Rounds
    <2>3. g_ckpt_counter \in 0..(OBJECTS - 1)
      BY <1>1 DEF MvmIInv, PhaseRounds, Everyone, MvmAssumption
    <2>4. /\ slot_ts \in [Mvm!Pages -> [{0, 1} -> Mvm!Rounds \cup {Mvm!NEVER}]]
          /\ last_ts_seen \in [Mvm!Pages -> Mvm!Rounds \cup {Mvm!NEVER}]
          /\ last_touched_ts \in [Mvm!Pages -> Mvm!Rounds \cup {Mvm!NEVER}]
          /\ {touched_curr, touched_prev} \subseteq [pages : SUBSET Mvm!Pages, ts : Mvm!Rounds \cup {Mvm!NEVER}]
      BY <1>1, <2>2 DEF MvmIInv, MvmTypes, Lists
    <2> QED
      BY <1>1, <2>1, <2>3, <2>4, MvmSizes
         DEF Mvm!MemoryIntact, Mvm!TypeOK, Mvm!Rounds, MvmIInv, MvmTypes, PhaseRounds
  <1> QED
    BY <1>1, MvmInductive, PTL

\* The three builds are checkpointing schemes: a rollback of the rounds (restore_object,
\* mvmm_region_rollback of patches.c) gives back the memory and the allocator that the
\* object's last checkpoint (set_ckpt) saw, though the round counter is common to all
\* objects, with the checkpoints between the barriers and, in mmap_mv, every page
\* stored into by the INIT event.
THEOREM VersionsRestoreCheckpoint ==
  ASSUME MvmAssumption
  PROVE  Mvm!Spec => Mvm!RestoresCheckpoint
  <1>1. Mvm!Init => Mvm!Abstract!Init
    BY DEF Mvm!Init, Mvm!SetUp, Mvm!Abstract!Init
  <1>2. MvmIInv /\ [Mvm!Next]_(Mvm!vars) => [Mvm!Abstract!Next]_<<Mvm!Object, saved.object, last>>
    BY MvmStepPreserves
  <1> QED
    BY <1>1, <1>2, MvmInductive, PTL DEF Mvm!Spec, Mvm!RestoresCheckpoint, Mvm!Abstract!Spec

\* In the store builds a restore gives back the seeds too, though Random stores into
\* them unseen, when events count themselves beside the seeds before they draw.
THEOREM SeedsAreRestored ==
  ASSUME MvmAssumption
  PROVE  Mvm!Spec => []Mvm!SeedsComeBack
  <1>1. MvmIInv => Mvm!SeedsComeBack
    BY DEF MvmIInv
  <1> QED
    BY <1>1, MvmInductive, PTL

=============================================================================
