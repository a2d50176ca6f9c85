# PARSIR in TLA+

PARSIR (PARallel SImulation Runner) runs discrete event simulations: a simulation
model supplies `ProcessEvent` and calls `ScheduleNewEvent`, and a runtime of
`THREADS` worker threads executes the events of `OBJECTS` simulation objects.
Time is cut into epochs of one `LOOKAHEAD`. The conservative build relies on models
that schedule for other objects a `LOOKAHEAD` ahead; the speculative build (`SPECULATION`)
lets them schedule into the current epoch, detects events that come too late
(*stragglers*), rolls the object back with the help of a checkpointing scheme and
undoes what it had sent. The schemes see the stores of a model because its object
code is instrumented before `main` runs. This directory holds models of these parts,
the instances TLC checks, and theorems that TLAPS proves for every instance.

## 1. Inventory

| Component | Source (under `src/`) | State | Operations | Hard because |
|---|---|---|---|---|
| Spin barrier | `queue/barrier-synchronization.c` | two counters | `barrier` | reused at once by fast threads, no lock, one thread must be elected |
| Speculative engine | `queue/queue.c`, `speculation/speculation.c`, `stubs/stubs.c`, `engine/engine.c` | per object: slots of the input queue, executed (retractable) events, withheld sends, log of sends, `object_status`, filter; per thread: target, object stack, fallback queue; global: epoch, dispensers, counters | `queue_extract`, `run_rollback`, `speculation_queue_insert`, the flushes, `update_timing`, `fallback_check` | stragglers and annihilations reach an object at any point of its extraction, rollback, execution or release |
| Conservative engine | same files without `SPECULATION` | slots, fallback queues, `pending_events` | `queue_insert`, `queue_extract`, `update_timing`, `fallback_check` | slots read without their lock, reuse of slots, detection of the end |
| NUMA dispenser and start-up | `engine/engine.c:210-446`, `queue/queue.c:387-401` | ranges and counters per node, `startup_info` | parse the machine, lay out objects and threads, hand out, steal | float ratios; every object once per epoch |
| Allocator | `memory/memory.c` | stacks of free chunks per class | wrapped `malloc`, `free`, checkpoint, rollback | only the free part of a stack is copied, while the rest moves on |
| Chunk checkpoint | `chunk_ckpt/`, `memory.c`, `MVM_CHUNK/` | copies of chunks, bitmaps | save on first store, full copy, rollback | chunks stored into, freed and allocated in any order; seeds stored behind the scheme's back |
| Grid checkpoint | `grid_ckpt/`, `MVM_GRID_CKPT*/` | bitmap of saved granules, log or mirror | code run before a store; rollback | stores that cross granules, the end of the area, registers of the interrupted program |
| Multiversion memory | `MVM_MMAP_MULTIVERSIONING/patches/patches.c` | two versions per page or cell, time stamps, touched lists, global epoch | code run before an access, `set_ckpt`, `restore_object` | versions compared with an epoch that other objects advance |
| Instrumentation | `MVM_*/src/_elf_parse.c` | instruction records, zones, patches, the code itself | select, book zones, build patches, apply them | overlapping runs of zones, reach of short jumps, write protection |
| PHOLD, PCS, highway | `models/` | lists of chunks; channels of a cell; cars of a segment | `ProcessEvent` | pairs of events that must agree, lists edited by hand |
| Random numbers, build, plots | `random/`, `build/`, `grafici/`, `*.sh` | none of the simulator | | |

How they interact. `__wrap_main` (`_elf_parse.c`) patches the stores of the model, then
calls the real `main`. It reads the machine, lays out objects and threads and starts the
workers (`engine.c`). A worker runs `INIT` for its share of the objects, meets the others
at the barrier, then loops: `GetEvent` calls `queue_extract`, which chooses an object and
returns its next event, and `ProcessEvent` calls back `ScheduleNewEvent`, which inserts
into the queues of *other* objects, claims them, or withholds the event. The model's
`malloc` and `free` go to the allocator of the object being run, its stores to the
checkpointing scheme. `queue_extract` rolls an object back through that scheme and, when
nothing is left, takes the thread through the barriers that end an epoch, where the
checkpoints are taken. Objects are shared state guarded by `object_lock`; the slots have
locks of their own; counters are atomic; the running object is protected only by its
`owner` field (speculative) or by having been handed out once (conservative). A
simulation object's memory is touched by the thread running it alone.

What makes each part correct: the barrier separates rounds and elects one thread; an
object is run by one thread; queues stay ordered and in their window; what is logged can
be undone; what is undone is repeated, and what stands is not; each epoch commits what a
sequential run would have executed, and ends; the conservative engine executes every
object's events in timestamp order and ends exactly when nothing is left; the dispenser
hands out each object once; a rollback gives back exactly the object the checkpoint saw,
in every build; the instrumented program is the program that was written, with a check
before every access; the models respect the lookahead and keep what they count.

## 2. Modules

| Module | Role |
|---|---|
| `Rendezvous`, `BarrierSync`, `MCBarrierSync`, `BarrierSyncProofs` | what callers of `barrier()` are promised; the two-counter algorithm, one step per memory access, with the refinement; instance; proofs |
| `SpeculativeEngine`, `SpeculationProperties`, `MCSpeculation` | the speculative runtime; its properties; families of small simulation models |
| `SpeculationProofs`, `RollbackProofs` | proofs about it: types, ownership, the lists, the state of the objects and the logs; what is left when an epoch ends, and that nothing is sent twice |
| `Simulation`, `SimulationProofs` | what a simulation by windows promises, without queues, threads or barriers; proof that it respects causality |
| `ConservativeEngine`, `MCConservative`, `ConservativeProofs` | the build without `SPECULATION`, with the refinement to `Simulation`; instance; proofs of its invariants and of the refinement |
| `Startup`, `MCStartup`, `StartupProofs` | the parser of the hardware description, the layout of objects and threads over NUMA nodes; instance; proofs |
| `Dispenser`, `NumaDispenser`, `MCNumaDispenser`, `NumaDispenserProofs` | what `queue_extract` relies on when it asks for an object; the dispensers with stealing, with the refinement; instance; proofs |
| `Checkpoint` | what the engines expect of a checkpointing scheme |
| `ObjectAllocator` | memory and allocator of an object; extended by the three schemes |
| `ChunkCheckpoint`, `GridCheckpoint`, `MultiVersion` | the schemes, each with its refinement to `Checkpoint` |
| `DebugCheckpoint` | the chunk builds with the shadow that the `DEBUG` build compares with |
| `MCMemory`, `MCSchemes` | the instances of the schemes, one per build, in one specification; that and the instrumented programs together |
| `CheckpointProofs` | proofs about the allocator and the three schemes, among them their refinements |
| `CheckedProgram`, `Instrumentation`, `SmallPrograms` | a program with a check before every access; how `_elf_parse.c` produces it, with the refinement; small programs |
| `ModelEvents`, `Phold`, `Pcs`, `Highway`, `MCModels` | events in the order the engine makes them count; the simulation models; instances |

### The barrier

`control_counter`, `era_counter`, `ret` are those of the code; `pc[t]` is the next
statement. The loop of line 18 reads two counters, so it is two steps (`ReadEra`,
`ReadControl`); the compare-and-swap, the reset of the era, the two increments and
the exit from the second loop are a step each. The file is compiled without
optimisation (`build/Makefile:60`), so the plain variables are read in every
iteration. Both `CountersAgree` (the invariant behind the algorithm) and
`ImplementsRendezvous` (the promise) are checked and proved.

### The speculative engine

*State.* `queue`, `retractable_queue`, `speculation_queue`, `log_queue`,
`fallback_queue`, `speculation`, `filter_message`, the dispensers, the counters and
`end` carry the names of the C variables. `current_min_limit`, `current_max_limit`
and `current_index` are functions of `epochs`, as `update_timing` moves them
together. `history[o]` is the state of object `o`: the kinds of the events applied
since the checkpoint. It stands for every checkpointing scheme, which
appear as `Checkpoint` (`set_ckpt`) and in `Restore` (`restore_object`); that a scheme
gives back such a state is what the `schemes` run and the theorems of `CheckpointProofs` show. `inited`
replaces the loop counters of the `INIT` loops. `my_index` equals `current_index`
whenever it is used, since a barrier separates it from `update_timing`.

*Events.* An event is a kind and a copy. The kind fixes destination, timestamp and
what the execution schedules (the constant `Models`, one of which is chosen
initially); the copy is the address, so annihilating and sending again may reuse an
address (`IsFresh`), as `malloc` does. Pointers in the lists become sequences of
such events. `Models` stands for the application: `IsModel` asks that every send is
into the future, which the runtime assumes as well.

*Steps.* One step is the code between two points at which another thread can
interfere. Per thread:

- `InitObject`, `InitSend`, `InitDone`: the start-up loop (`engine.c:127-158`).
- `GetEvent`, `Dispense`, `Finish`: the entry of `queue_extract` and the choice of
  an object.
- `Take`/`TakenByOther`: the first section under `object_lock`; a standing rollback
  is accepted here.
- `Restore`, `Annihilate`, `Reinsert`: `run_rollback`, which runs without the lock
  of the object between its parts; each annihilation locks its receiver.
- `Release`/`Keep`: the second section; `Redo`/`Extract`: the third.
- `Process`/`ReadFreed`: the copy made by `GetEvent` after the lock is released,
  and the change `ProcessEvent` makes to the object. `ReadFreed` is the outcome in
  which the event has been freed in between and its memory reused.
- `SendFiltered`, `SendLater`, `SendNow`: `ScheduleNewEvent` and
  `speculation_queue_insert`.
- `Retract`, `Flush`, `Commit`, `Checkpoint`, `FlushDone`, `UpdateTiming`,
  `FallbackInsert`, `FallbackDone`: the end of an epoch.

`Barriers` releases all threads at once: it is `Rendezvous`, which the spin barrier
is proved to implement. Return from the barrier is merged with the release, since
a thread that has not returned has no effect on the others.

*Exits.* `status` records that the process ended in a way the code provides for
(`no more room into the object stack`) or in undefined behaviour.

*Faithful details worth knowing.* The filter is set to the time of the newest
rollback only. `put_head_into_stack` may stack an object that is stacked already.
Extraction increments `pending_events`. Annihilation decides by `current_time` which
counter to decrement but unlinks the event from whichever list holds it, which is
what unlinking by the neighbours' pointers does. The branch `queue.c:566-590` (slot
empty at the third lock) is not an action: a concurrent annihilation, the only way
to empty a slot of a kept object, makes a rollback standing, so `Redo` is taken;
TLC's deadlock check confirms that some action is always enabled there.
`retractable_queue_insert` (`queue.c:859-897`) is never called. An event that was left
behind in its slot (section 5) may be executed epochs later and then schedules into the
past: `Suppressed` is the filter together with the early return "illegal speculation
queue insert" (`queue.c:696`).

### The conservative engine

The same way of cutting the code into steps. `Dispense` is the atomic increment of
the dispenser; all identifiers from `OBJECTS` on are alike. `Empty` reads the slot
without its lock (`queue.c:466`); the second test under the lock has the same outcome,
as only the thread that runs the object takes from it. `QueueInsert` refuses the past,
inserts into a slot, or puts beyond the last slot into the thread's fallback queue.
`UpdateTiming` runs when all threads are in the barrier, `FallbackInsert` moves what
the last slot has reached. In the abstract `Simulation`, `pending` is everything
scheduled and not executed; the refinement mapping takes it to be what lies in the
slots, in the fallback queues, in the hands of a thread that is still calling
`ScheduleNewEvent`, and in the `INIT` events not run yet. The insertion in `queue.c`,
the removal of the head of a slot and the rest of `GetEvent` are one step each
because they hold the slot's lock.

### Start-up and dispensers

`Startup` is `get_hw_config` followed by the loop of `main` that fills `startup_info`
and the ranges `c`, `min`, `max`. A description of the machine is, per node, a list of
CPUs and ranges of CPUs. `ParseToken` keeps what the code keeps from token to token
(`lower`, `upper`). `Share` is the float ratio plus its corrector; `NodeAt` is the
quotient of line 437, a set because `NUMAratio` is rounded to a `float` and the
quotient may fall just below an integer. `scripts/remove-file` deletes the description
on a machine with one node (otherwise `c[0]` would be left zero there), so one node
means the default configuration.

`NumaDispenser` is the choice of an object in `queue_extract` and its reset at the end
of an epoch. A thread in `retry` searches; it takes an object (`Take`), moves to the
next node (`Steal`) or turns to the barrier (`GiveUp`). With an object it may ask for
another one of the same node (`Proceed`), start again (`StartAgain`) or run one of its
stack (`FromStack`); which of these happens is decided by the engine and left open.
The counter of an exhausted node goes on counting in the code, and stays here: all
values from `c[n]` on are treated alike. `Layouts` are any ranges that partition the
objects, which `NodesPartitionObjects` shows of the ranges that `main` computes. In
`Dispenser`, `left` is the set of objects not yet handed out: a thread is refused only
when it is empty.

### The memory of an object

`ObjectAllocator` is one object's area and allocator; no other object shares them. A
class of chunks has its stack (`addresses`, `top_elem`) and its segment of the area;
memory is seen in granules, the unit the scheme at hand works with. `Malloc`, `Free`,
`SetAllocatorCkpt` and `RestoreAllocator` are the functions of `memory.c`, `Copied` the
`memcpy` from `top_elem` on. `SetUp` includes the allocation of the object's state, which
every `INIT` event starts with; the state holds the seeds (`get_seed1_ptr`). `Draw` is a
random number: `random.c` is compiled with the engine and not instrumented, so no scheme
sees these stores. `Store` is an instrumented store of the model.

`Checkpoint` is the promise: between `Set` and `Restore` the model may do anything,
and `Restore` makes the object what it was at `Set`. The object is what the model can
observe: the memory it holds, the free chunks in the order in which they will be handed
out (a replayed `malloc` must return the same pointer), the seeds. Each scheme maps to
it the object and *what a restore would make of it* (`Recoverable`): the refinement says
that this does not change while the model runs, so it is a statement about every store,
and not only about rollbacks that happen.

- `ChunkCheckpoint`: `CHUNK_BASED_SAVE` saves a chunk before the first store into it
  (`CkptChunk`, called by the patch); `CHUNK_FULL` copies at a checkpoint the chunks in use, and
  copies back those. Of `CHUNK_FULL` the object is therefore the contents of the chunks in use
  (`Visible`): what the model holds, and less than the area.
- `DebugCheckpoint` adds to it what `#ifdef DEBUG` adds in `chunk_ckpt.c`: `shadow_area`, the whole area as
  `set_ckpt` saw it, and its comparison with the area after a restore (`RestoreComplete`). In
  `grid_ckpt.c` the same check compares what `GRID_CKPT_BS` has in its copy, and `Object` of both grid
  builds is the whole area.
- `GridCheckpoint`: the assembly of `MVM_GRID_CKPT*` saves (or marks) the granule of a store
  and, for an unaligned one, the next (`Following`). `Addressed` is the effective address as
  the patch computes it, after it has clobbered part of `%rax` (BS).
- `MultiVersion`: two slots per page with their rounds, the touched lists that a
  rollback walks, the grid of the third build. The round is common to all objects: `others`
  counts the checkpoints of the other objects, and `phase` tells when the engine takes
  checkpoints (after `INIT`, at the end of an epoch, or in the epoch for `AVOID_THROTTLING`).
  The caches of the region lookup are left out.

`MCMemory` puts one instance per build into one specification; the variable `build` is
chosen at the start, and variables a build does not have are constantly 0. `MCSchemes` puts this
beside `Instrumentation` of `SmallPrograms`, as the two halves of a checkpointing build. They share no
state: `half` is chosen at the start, and the other half stays as it started.

### The instrumentation

`Instrumentation` follows `__wrap_main` phase by phase: the disassembly (a sequence
of lines with function, address, size, kind, base register and successors) is searched
for the accesses, zones are found, booked and connected, patches built and applied; then
the patched code runs. `text` is the code byte by byte: the start or the inside of an
instruction, a short jump, a long jump, a nop. `Signed8` is the 8-bit displacement of a
short jump, so a zone out of its reach is a jump to somewhere else. `CKPT` is the copy of
the file in `MVM_GRID_CKPT`; those of `MVM_CHUNK` and `MVM_GRID_CKPT_BS` are the same
algorithm and are not mapped a second time. `CheckedProgram` is what the schemes expect;
the refinement mapping reads off which original instruction a point of the patched code
stands before.

### The simulation models

`ModelEvents` delivers events in the order of their timestamps, any of those that tie,
within a window; `Delays` stand for every random draw, and `Clamped` is the adjustment of
a time to the lookahead. `Phold`, `Pcs`, `Highway` are the three `ProcessEvent`s: lists
of chunks (reallocated and walked), the channels of a cell as counter, list and bitmap,
the cars of a lane. Time is relative to the window, so that state spaces are finite.
Checked here is what the engines assume of a model (`LookaheadRespected`) and what only
the model can get wrong.

## 3. What the runs check

All sizes are small on purpose; each family of models or programs enumerates all timings
and routings of a pattern, and each member is an initial state.

| Run | Instance | Shows |
|---|---|---|
| `barrier` | 4 threads, no bound on rounds, with fairness | counters agree, implements `Rendezvous`, rounds end |
| `races` | 2 or 3 objects, 2 threads, 4 to 6 events at ticks 1..4 (epochs of 4 ticks), 2 epochs; models in which a late event is executed when its slot is current again | ownership, no object claimed and forgotten, order, live logs, undoability, no event twice |
| `forward` | 6 events, 4 epochs, slots reused and fallback queue, with fairness | window of the slots, coasting forward, commits the sequential run, epochs end |
| `conservative` | 3 objects, 2 threads, 5 events, 2 slots of 2 ticks, fallback queue, with fairness | implements `Simulation`, exclusive execution, exact count of pending events, termination with everything executed |
| `startup` | 1 to 12 objects, 1 to 9 threads, machines of 1, 2, 3 and 6 nodes | each object started once, hosted once, on the node of its memory; each thread on a CPU of its own on its node |
| `dispenser` | 3 threads on any of 3 nodes, every consecutive layout of 3 objects, with fairness | implements `Dispenser`; the search ends |
| `schemes`, scheme half | seven builds, one of them twice | every scheme implements `Checkpoint`; no memory handed out twice; the seeds come back; the `DEBUG` comparison of `CHUNK_BASED_SAVE` and (no store going through `%rax`) of `GRID_CKPT_BS` never fails |
| `schemes`, code half | every program of up to 4 instructions around one or two `INSTRUMENT`s, 3 builds | implements `CheckedProgram`; control never derails; in the mmap builds no write to protected pages or past the areas |
| `models` | PHOLD 2 objects, PCS 2 x 2 cells with 2 channels, highway 4 segments | lookahead respected; lists, channels, calls and cars stay consistent |
| `lost_rollback`, `mirror`, `full_shadow`, `lazy` | as above | disagreements between the code and its own checks and comments (section 5) |

Bounds. `LastEpoch` cuts a speculative run when `update_timing` would start epoch
`LastEpoch + 1`; it is the only bound in a guard there. `Copies` bounds the simultaneously
allocated events of one kind: three copies suffice in the races, as `NothingSentTwice`
(proved for all models, section 4) says that one is in use at a time. Two threads suffice for each race between two parties;
two slots let slots be reused within three epochs and put later events beyond the window.
`Epsilon = 1` is the smallest distance of two timestamps. `conservative` needs no bound: a
model schedules finitely many events, and the end is reached. In `startup`, twelve objects
cover every remainder for up to nine threads and six nodes, threads without objects, and nodes
without objects; six nodes make `NUMAratio` inexact. The CPUs are listed singly, or as a range
from 0, the two forms that the parser reads correctly. `dispenser` has no bound in a guard.

In `schemes`, the chunk builds have two classes (two chunks of one granule, one of two), so
that a class overflows into the next; `heap` has four chunks of one class, enough for every
order of freeing; the other builds have two chunks, each of two granules and a page of its own,
so that a store may cross granules but not chunks. `MaxRound = 3` rounds are enough for a slot to
be used, superseded, and used again; with three objects the last checkpoint of a round may be
this object's or another's, with a third one in between. Of the programs, `REACH` is 24 bytes and a
page 32, so that programs of this size have zones in and out of reach and accesses across pages;
`NUM_INSTRUCTIONS = 4` and `NUM_PATCHES = 3` can both be hit. In `models`, `MaxDelay = 3` ticks
with windows of two put events in this window, the next and the one after; `MaxCalls` bounds the
calls that arrive at all, and calls start in the cells `Callers`.

Fairness. `FairSpec` assumes weak fairness of each thread and of a full barrier.
Each worker thread is pinned to a CPU of its own (`engine.c:112`), the spin locks
protect finite sections, and nothing blocks, so a thread with a step takes one. In the
barrier no fairness is assumed for calling `barrier()`. The dispenser assumes weak
fairness of the searching thread only: the search is a loop without waiting. The runs
of the schemes and of the models assume none, and check no liveness.

Deadlock is not checked in `schemes`, `mirror`, `full_shadow`, `lazy` and `models`: there an object may
run out of memory or rounds, a program may end in `exit`, and calls or events may run out.

`EpochsEnd` allows a run to leave an epoch by exiting (full stack, use after free)
or by `end`. In `forward` no send *into* an epoch is ever undone, because the receivers of such
sends only send beyond it, and no object receives two of them; in that fragment `CoastingForward` and
`CommitsSequentialRun` hold. In `races` they do not: see below. The properties of
`races` are those that survive. `schemes` stores into every page before the first epoch
(`Primed`, `mmap_mv` only), lets events count themselves before they draw (`CountsFirst`), and
leaves out zones at the very edge of the reach (`Edge`): section 5 says what happens otherwise. `WritesAllowed`
says of `CKPT` only that its variables have their types. There nothing bounds the patches, the limit of
the records is tested after they are written, and a zone in the page before its instruction ends in the phase
`fault`; of `CKPT` the run shows that what is run derails nowhere and is the checked program.

Each property of a passing run has a mutant in `PROJECT.json`: a small defect
(defined next to the original and named after it) which makes TLC find the property
violated.

## 4. What is proved

For any finite set of threads, `BarrierSyncProofs`:

- `TypeCorrect`, `CountersAlwaysAgree`: `TypeOK /\ CountersAgree` is inductive. The
  disjunction `Closed \/ Open` is the strengthening: between rounds `era_counter`
  counts exactly who has left, during a round `control_counter` counts exactly who
  waits and one thread among those is elected.
- `BarrierImplementsRendezvous`: every step of the barrier is a step of
  `Rendezvous` or a stutter; only the increment that completes a round is its
  `Release`.

For any instance satisfying `ConstantsAssumption` and `ModelsAssumption`,
`SpeculationProofs`:

- `TypeCorrect`: `TypeOK` always.
- `RunnersOwn`: a thread that works on an object (rolling back, extracting,
  executing) is its registered owner.
- `ExecutionIsExclusive`: no two threads work on an object; it follows from the
  uniqueness of `owner`.

The inductive invariant `IInv` adds what these need: lists of an object hold events
addressed to it (`Lists`: `Reinsert` puts events back into the slot of the object
and `Extract` records `Dest(e)` as the object that is run), what a thread holds at
each label (`Held`), and that all threads end an epoch together (`EpochEnds`: `Flush`
resets every owner, which is safe only because nobody runs an object then). The
first lemmas type the list operators; there is one lemma per action, and the temporal
step combines them.

Four more invariants build on `IInv`:

- `BusyObjectsAreHeld`: the property `BusyIsHeld`. `Ownership` adds in which phase of an epoch
  the threads are (`Together`: two threads are never further apart than a barrier), that between
  epochs nothing is busy (`NoneBusy`), that a thread which has been given an object owns it until it
  lets go (`Hands`), and that what is busy is owned (`Owned`).
- `QueuesStayInOrder` and `CausalityIsKept`: `QueuesInOrder` and `CausalOrder` are proved together,
  as `Order`. Sorted insertion and unlinking keep a list sorted, but only if the retractable
  queue is appended to in order, which is what `CausalOrder` says of a settled object; and this in turn
  holds because an event inserted or annihilated behind the object's clock makes a rollback
  standing (`ExecutedInOrder`: the clock is not behind what has been executed). It relates what has been
  executed, and not the clock, to the slot: an epoch sets the clock to its own beginning, and an event
  left behind by a lost rollback (section 5) is earlier. `Cleanup` says what is empty
  between the steps that close an epoch; without it the slot of the next epoch would meet
  the retractable events of the last one.
- `HistoryMatchesRetractable`: `HistoryIsRetractable`. Between `Extract` and `Process` the last
  retractable event is in the queue and not yet in the state (`Recorded`), and an object that is
  being rolled back is at its checkpoint (`Restored`).
- `LogsStayLive`: `LogsAreLive`, under the hypothesis `TimesApart`. That each logged event can be
  unlinked (`Alive`) needs that an event leaves the slot and the retractable queue only by being
  annihilated by its sender, and that it is logged once (`LoggedOnce`). The order of a log
  (`LogSorted`) needs `Clocks`: what an object has sent lies before its filter or is made by an
  event it still holds, the clock is at the event being executed, and a rollback sets the filter
  `Epsilon` below its time. This is where `TimesApart` (different timestamps differ by at least
  `Epsilon`) enters: a send made less than `epsilon` before the rollback is neither undone
  (`queue.c:916`) nor filtered (`queue.c:441`), and its repetition is logged behind later ones.
  `MCSpeculation` checks the hypothesis of its models; the code relies on continuous random times.

For the same instances, `RollbackProofs`, which rests on all of these:

- `SlotsAreDue`: what is in a slot is due by the end of this turn of the slot. `Window` says where the
  times of the events of each list lie (`InTime`, `Beyond`), that withheld sends are committed when
  their object is dispensed (`Committed`), and that one thread turns the epoch, after all objects (`Turned`).
- `FeedForwardLeavesNoRollback` and `FeedForwardKeepsWindow`: `NoRollbackLeft` when the epoch closes, and
  `EventsInWindow`, in feed-forward models, where an object to which events are sent within an epoch does not
  itself send within an epoch. In models in general neither holds (`lost_rollback` refutes the first). A
  receiver of in-epoch sends has nothing to annihilate, so nobody makes roll back an object that has
  already let go of its last event; `Feeding` says so: who logs a send is a sender, who must roll back a
  receiver (`Roles`); who must roll back has work and is in somebody's hands (`Served`); an object with work is
  too, or will be dispensed (`Attended`, `Taken`, `Dispensed`); so when all threads are done no slot has
  kept an event (`Lower`).
- `SendsAreMadeOnce`: `NothingSentTwice` in every model, under `TimesApart` and `SlotsApart`. The
  allocated events are those of the lists, and `Once` says that no kind has two places in them. So an
  execution that the filter lets through must find nothing of what it sends (`OutboxFree`). This follows
  event by event from its cause. If what the cause sends exists, the cause has been executed: in an
  earlier epoch, or in this one and its object still knows the send, logged or withheld (`Caused`, `SentBy`).
  The send then stands (`Stands`, `EventStands`): it lies before the filter, or the event that made it
  is in the retractable queue or about to be undone. An event that is executed and let through is
  neither, since `Once` puts it in the slot and nowhere else. A rollback keeps this true: it drops and annihilates
  what was sent from its time on, a suffix of both lists (`WithheldSorted`, `Undone`, and `LogSorted` from
  `Logs`), and sets the filter just below. `UpToDate` excludes the events that a lost rollback has left
  behind: filters are raised to the end of each epoch before the next one starts (`queue.c:786`), so that
  what was left behind is filtered whenever it is executed. `Startup` is the same for the sends of `INIT`.
- `SlotsApart` (more than one slot, `Epsilon` no longer than an epoch) holds of the code's constants
  (`queue.h:8`, `run.h:11`, `random.h:2`) and is needed: with one slot and `Epsilon` above
  the least distance of ticks, TLC finds an event that a lost rollback left behind, that is executed
  in the very next epoch, and that repeats a send which the filter, `Epsilon` below the limit, lets pass.

For any objects, events and models that respect the lookahead (`SimulationAssumption`),
`SimulationProofs`:

- `CausalityRespected`: every object executes its events in timestamp order. The strengthening:
  what is pending is due no earlier than the window (`Ahead`), what is executed before its end
  (`Behind`), and what is pending for an object no earlier than what the object has executed
  (`NoStraggler`). An event executed in the window schedules for another object at or after the
  end of the window, hence after everything executed; that is the only place where the
  lookahead is needed.

For any threads, objects, slots and such models, `ConservativeProofs`:

- `TypeCorrect`, and `ExecutionIsExclusive`: no two threads run one object. The strengthening
  is `GivenOut`: an object being run has an identifier below the dispenser's. A new identifier is
  therefore nobody's, and the dispenser is reset only when all threads are in the barrier.

- `PendingEventsAreQueued`: `pending_events`, on which the end of the simulation hangs, is the number
  of events in the slots and fallback queues. The property counts the places of the lists (`Cells`),
  so that an insertion adds one place to one list; `Counting` adds that there are finitely many.
- `CausalityRespected`: every object of the engine executes its events in timestamp order. The
  types and `ExclusiveExecution` say nothing of where events lie, so `InOrder` adds it. Of the
  threads: all are in the same phase (`Together`), the dispenser is 0 before and exhausted at the
  end of a window (`Dispensed`), nothing is executed before the first one (`Fresh`), and who looks
  into a slot looks into the current one (`Indexed`). Of the events: a slot holds, sorted, events of
  its object and index within the limits of the queue (`InSlots`); an object given out and no
  longer being run has an empty current slot (`Exhausted`); the fallback queues hold only what is
  beyond the last slot (`Beyond`); what a running event schedules for another object is past the
  window (`InOutbox`); nothing past the window has been executed (`Behind`), and nothing pending
  for an object is earlier than what it has executed (`NoStraggler`). The lemma that carries the
  proof is `CurrentSlot`: of the events within the limits of the queue, those of the current
  window are exactly those of the current slot.
- `EngineImplementsSimulation`: the property `ImplementsSimulation` of the run `conservative`. Its
  second invariant, `Once`, says that an event is in one place: the slots, fallback queues, outboxes
  and histories, and what the causes not yet executed will still schedule, have no event in common and
  none twice; otherwise removing the head of a slot would not remove the event from `pending`.
  It is inductive for models with `ScheduledOnce`: an event is scheduled by `INIT` of one object or
  by one other event. This is how the modules identify events (two `ScheduleNewEvent` calls are two
  events, whatever they carry), and no restriction on what a simulation model does.

For any threads, nodes and layouts satisfying `DispenserAssumption`,
`NumaDispenserProofs`:

- `TypeCorrect`: in particular no counter passes the end of its range by handing out.
- `DispenserIsExact`: the dispensers implement `Dispenser`. The inductive invariant adds
  `Tried`: a thread is as many moves away from its own node as it has counted, and the
  nodes it has passed are exhausted; so the thread that has counted `TOT_NUMA_NODES`
  moves is back at its own node and has seen all of them exhausted, however the other
  threads moved meanwhile. That counters never go down within an epoch is what keeps it.

`CheckpointProofs` is about the schemes, for any classes, sizes of chunks and segments satisfying
`AllocatorAssumption`. The run `schemes` checks `MemoryIntact`, `SeedsComeBack` and `RestoresCheckpoint` of
`MCMemory`, which are those of the scheme whose build was chosen; the theorems state them of each scheme. The
module extends `ChunkCheckpoint` and holds `GridCheckpoint` and `MultiVersion` as the instances `Grid` and
`Mvm` over the same object, so that the lemmas about the allocator serve all three: `MallocTakes` and
`FreeGivesBack` say what the allocator does to the set of live chunks, `CopiedStacks` that only the free
part of a stack counts. Of the chunk builds:

- `TypeCorrect`, `NoChunkFreeTwice`, `BitmapIsUsage`, and together `ChunkMemoryIntact`:
  `TypeOK /\ FreeOnce /\ UsageIsLive` is inductive as it stands.
- `ChunksRestoreCheckpoint`: both builds implement `Checkpoint`. `RunKeeps` reduces a step of the
  model to the contents a restore would give to each granule (`AfterRestore`). With
  `CHUNK_BASED_SAVE` nothing else is needed; with `CHUNK_FULL` a store into a chunk in use at the
  checkpoint is harmless because the chunk was copied (`FullShowsCopies`, from `UsageIsLive`).
- `ChunkRestoreMatchesShadow`: with `CHUNK_BASED_SAVE` the comparison that the DEBUG build makes after a restore
  never fails. `ChunksInUseMatchShadow`: in both builds it holds of the chunks in use, so that what
  `full_shadow` finds is free memory only. Both follow from the refinement: `ShadowMatches` says that what
  a restore would give back is what the shadow holds, which the steps of `Checkpoint` keep.

Of the grid builds:

- `GridMemoryIntact`, `GridRestoresCheckpoint`, `RestoreMatchesShadow`: `MemoryIntact`, the refinement of
  `Checkpoint`, and the comparison that the DEBUG build makes after a restore (`RestoreComplete`).
  `GRID_CKPT` saves a granule before it changes, so the argument of `CHUNK_BASED_SAVE` carries over.
  `GRID_CKPT_BS` copies at the checkpoint and only marks, so what is *not* marked must be the same in the
  area and in the copy (`CopyIsArea`), but for the seeds, which are stored behind its back and kept apart; it
  holds after a store because the marks include every granule the store reaches (`WrittenIsReached`).
  The hypothesis `AddressKnown` excludes what `mirror` shows: BS with a store through `%rax`.

Of the multi-version builds, for any number of objects, page size and number of rounds
(`MvmAssumption`):

- `MvmMemoryIntact`, `VersionsRestoreCheckpoint`, `SeedsAreRestored`: `MemoryIntact`, the refinement of
  `Checkpoint`, and `SeedsComeBack`. The refinement leaves `MultiVersion`'s tags to be told apart by one
  counter that all objects advance, and the invariant says why that is enough. `PhaseRounds` ties the
  round and the counter of checkpoints to the phase of the engine: between the last checkpoint of
  a phase and the next epoch the round is already the next one. `MvmTypes` says that no page is of a round
  later than `Newest`, the last one in which anything was stored; so when an epoch starts no page is `Open`,
  that is, of the current round. A page that is open is in the list that a rollback
  walks (`OpenIsListed`); in `mmap_mv` its other slot is older and a version (`SlotsInOrder`). What a
  rollback would bring back (`Backup`: the other slot of an open page, or the part saved in slot 1) is what the
  checkpoint saw (`BackupIsSaved`), and until the epoch starts the area itself is (`SetStays`). For the seeds
  this needs that they are saved before a draw moves them (`SeedsAreSaved`).
- The hypotheses are those of the runs: checkpoints between the barriers (`~Lazy`; `lazy` shows the
  violation otherwise), and for `mmap_mv` an `INIT` event that stores into every page (`Primed`; without it a
  page has no version to go back to, section 5). `SeedsComeBack` itself is about `CountsFirst`.

For any machines, objects and threads satisfying `ConfigurationsAssumption` (there is a node, an
object and a thread), `StartupProofs`:

- `ObjectsStartedOnce`: `EveryObjectStartedOnce`. `Chunks` says that the threads set up so far start the
  objects below `current_min`, each once; that `THREADS` shares reach `OBJECTS` is `SharesSuffice`.
- `NodesShareOutObjects`: `NodesPartitionObjects`. `Ranges` says that the nodes opened so far host the objects
  below the frontier, the current one the last of them, each later one none. `NodeAt`, the quotient in floating
  point, is any of its possible values; what is needed of it is only that it never moves
  backwards over a node that is in use, and that it stays within the nodes.
- `ThreadsStayOnTheirNodes`: `PinnedToItsNode`, under the hypothesis `PlainLists`: where there are several
  nodes, their lists name each CPU once and no range (a range is expanded from twice its base,
  `engine.c:267`: section 5). `Parsed` says that the parser copies such lists as they are, `CrossedOut` that the CPU of a
  thread is one of its node's that has been crossed out, so that the next thread finds another one.

Only model-checked:

- `CommitsSequentialRun`: it compares the run with a recursive definition.
- `CoastingForward`: it holds of the models of `forward` and not of every feed-forward model (section 5).
- Liveness (`EpochsEnd`, `Terminates`, `RoundsEnd`, `SearchEnds`), which is out of the prover's reach.
- The schemes where the theorems' hypotheses do not hold, that is, what section 5 says of `%rax` and of
  `AVOID_THROTTLING`.
- `NeverDerailed`, `WritesAllowed` and the refinement of the instrumentation: the records and the zones are
  selected from the disassembly by `SelectSeq`, a recursion whose properties need induction over data.
- The simulation models: their walks over lists are recursive, and what they compute is induction over data.
- The four violations.

## 5. Disagreements found

| Run | What happens |
|---|---|
| `lost_rollback` | an object is released without a second look at `standing_rollback` (`queue.c:469`); the rollback is forgotten and `verify_speculation_status` would exit |
| `mirror` | `GRID_CKPT_BS` computes the address of a store after `lahf` has overwritten part of `%rax` (`MVM_GRID_CKPT_BS/patches/patches.c:176`): a store through `%rax` marks another granule, and the rollback leaves the changed one |
| `full_shadow` | `CHUNK_FULL` copies back the chunks in use at the checkpoint only (`memory.c:333`), and the `DEBUG` check compares the whole area with its shadow (`chunk_ckpt.c:47`): a chunk allocated and stored into after the checkpoint keeps its contents through the rollback, and the process exits with "restore failed". The check is at fault, not the scheme: the chunk is free again, and the object has back all it holds (`RestoresCheckpoint`, `ChunksInUseMatchShadow`) |
| `lazy` | with `AVOID_THROTTLING` an object that rolls back before every object has taken its checkpoint is restored one epoch too far (`MVM_MMAP_MULTIVERSIONING/patches/patches.c:867`) |

Met while modelling, and without a run of its own:

- A range of CPUs is expanded from twice its base (`engine.c:267`): threads are pinned outside their node,
  although `cpuID` is what "the thread need to pin to [...] in order to correctly stay on the NUMA node ID"
  (`engine.c:34`). `PinnedToItsNode` is violated when a machine that lists a range not starting at 0 is put
  into `Configurations`; `startup` and the theorem leave such machines out.

Met while modelling, and part of the models, but contradicting no line of the repository:

- A second rollback to a later time raises the filter (`queue.c:441`) over sends that the first
  one undid: events are lost (`CoastingForward` is violated in `races`). Undone sends into an epoch are not
  needed for it. Let an object be sent two
  events of an epoch, the later one first, and roll back for it: its clock is back at the limit (`queue.c:440`),
  so the earlier one is no straggler (`queue.c:719`) and leaves the filter where it is; it is executed for the
  first time, and its sends are suppressed.
- `pending_events` is incremented at extraction (`queue.c:622`) and never comes back to zero:
  the speculative simulation does not end by itself.
- An event with stragglers for two idle objects stacks its source twice: the stack of `OBJECTS`
  entries may overflow and the process exits (`queue.c:742-748`, `speculation.c:68-71`).
- A send less than `epsilon` before the rollback time is neither undone (`queue.c:916`) nor
  filtered (`queue.c:441`): it is produced twice, and the log is no longer in the order of send
  times. This is why `LogsStayLive` assumes `TimesApart`.
- When a rollback has been lost, the event that was to be executed again stays in its slot. It is
  executed when the slot is current again, `NUM_SLOTS` epochs later (the models `LateModels` of `races`;
  `EventsInWindow` does not hold there, and the `DEBUG` check of `queue.c:604` exits). The filter that
  `queue.c:786` has left suppresses what it sends; were the filter lower, sends into the past would be
  refused (`queue.c:696`).
- `mmap_mv`: a page not stored into before the first epoch is left as it is by a rollback
  (`Primed = FALSE`); seeds drawn before the first instrumented store of an event do not
  come back (`CountsFirst = FALSE`, the order of the highway model) with the store builds, and never
  with `mmap_mv` itself.
- `GRID_CKPT` compares the last granule with `ALLOCATOR_AREA_SIZE - 8`, so that for a larger `MOD`
  it goes on with granule 0 instead of stopping: too much is saved, nothing is lost.
- `CKPT` takes a zone to be in reach of the end of the instruction it replaces, but the jump
  is measured from its second byte: at the edge it lands elsewhere (`Edge = TRUE`). It never books the last
  zone, and its `mprotect` of an address that is not a page's fails, so that a zone in the page before its
  instruction cannot be written (phase `fault`).
- PCS: a call handed in starts its duration anew, `HANDOFF_RECV` is never scheduled, and
  `blocked_on_handoff` and `arriving_handoffs` never move. The highway's left lane scales its speed by the
  load of the right one (`application.c:295`). PHOLD's update walks every other chunk of a list,
  and would follow `NULL` in odd lists shorter than `2P - 1`.

## 6. Not modelled, and why

- Floating point. Times are integers (ticks); the division by `SLOT_LEN` is exact and
  the window limits do not drift. Random numbers: a draw is any value of a small set.
- `NUMA_BALANCING` inside the engines, which have one dispenser (`#ifndef NUMA_BALANCING`); the
  dispensers per node are modelled on their own, and the two are not composed. `Dispenser` is what
  a single counter does step by step.
- The placement of memory and the pinning call (`engine.c:113`): only their arguments.
- `AVOID_THROTTLING` inside the speculative engine; its checkpoints are in `MultiVersion`.
- `retractable_events` and `in_stack`: written, and read only by disabled checks.
- The content of events in the engines, `BENCHMARKING` counters, audit output. Of the `DEBUG` checks, which are
  no steps of the models, these are stated as properties: the comparison after a restore (`RestoreComplete` of the
  chunk builds and of `GRID_CKPT_BS`; of `GRID_CKPT` it is part of the refinement, as its object is the whole area),
  the order of the queues and logs (`QueuesInOrder`, `LogsAreLive`) and the standing rollbacks at the end of an
  epoch (`NoRollbackLeft`). Section 5 says which checks the code fails. The bytes of instructions and the text of `objdump`: an instruction is its
  address, size and kind. Stores that are not `mov`, and operands with an index under mmap, are not
  intercepted by the code; a model that has them is outside of `AllPrograms`. Accesses relative to
  `%rip` in `CKPT` get a wrong address from the relocated `lea`, which `Instrumentation` does not follow.
- The flags that `GRID_CKPT_BS` restores from `%gs:14` instead of `%gs:0x14`, the overflow flag that
  `lahf`/`sahf` lose, the two registers `MVM_CHUNK`'s `get_register_index` knows: no model computes with them.
- Exits on failing `malloc` or on a bad pointer freed: steps that are not taken.
- Memory order: the steps are sequentially consistent; locks and `__sync` operations are
  full barriers. The fields read outside of them are owned by one thread, or separated
  by a barrier from their writers.
- Accesses across pages (skipped by `mmap_mv`): no store of an `-O0` build crosses a granule's page.

## 7. Plan

Done: all components of the inventory but random numbers, build scripts and plots; the theorems of
section 4. Next, in this order:

1. `CoastingForward` for feed-forward models in which an object gets one event into an epoch, from `Feeding`
   and `Sending`.
2. `ObjectOwnership`: an abstract specification of claim, hand-over and release that
   `SpeculativeEngine` implements; `Ownership` is the invariant it needs.
3. `AVOID_THROTTLING` and the dispensers per node composed with the speculative engine.
4. `WritesAllowed`, as far as it does not depend on what `SelectSeq` returns.
