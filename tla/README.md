# A verification project for ZeOS (SO2 project)

This directory holds TLA+ models of the ZeOS kernel in `src/`, the TLC
configurations that check them on small instances, and TLAPS proofs of what
matters most for every instance. Each definition is translated from the C or
assembly source; `PROJECT.json` names the lines for each of them.

## 1. The system

ZeOS is a small single-processor x86 kernel: `NR_TASKS` = 10 task_structs,
round-robin scheduling with a timer, `fork`, threads, semaphores, a keyboard
buffer with a blocking `getKey`, dynamic memory regions, a text console, and a
game (`user.c`) as its user program. There are no disks and no messages;
nothing survives a reset.

| component | source | state | operations |
|---|---|---|---|
| kernel lists | `list.c`, `list.h` | `next`/`prev` of every list head | `INIT_LIST_HEAD`, `list_add(_tail)`, `list_del`, `list_for_each_safe` |
| scheduler | `sched.c`, `kernel-utils.S` | `freequeue`, `readyqueue`, `remaining_quantum`, `state`, `list` and `register_esp` of each task | `schedule`, `update_process_state_rr`, `sched_next_rr`, `task_switch`, `force_task_switch` |
| task calls | `sys.c` | task_structs, PID/TID counters, owned semaphores, thread lists | `fork`, `create_thread`, `exit`, `yield`, `get_stats`, `getpid`, `gettime` |
| semaphores | `sys.c`, `init_sems` | `freesems`, `sem_t.count/parent/blocked`, `task_struct.sems` | `semCreate`, `semWait`, `semSignal`, `semDestroy` |
| key input, interrupts | `interrupt.c`, `sys.c`, `devices.c` | `blocked`, `waitKey`, `p_stats.remaining_ticks`, `zeos_ticks` | `clock_routine`, `keyboard_routine`, `getKey` |
| key buffer | `cir_buff.c` | `keyBuff`, `keyHead`, `keyTail`, `numKeys` | `buff_head`, `buff_tail` |
| address spaces | `mm.c`, `allocate_tables` | `phys_mem`, page tables, `pointing_dir` | `alloc_frame`, `free_frame`, `set_ss_pag`, `del_ss_pag`, the memory half of fork, create_thread and exit |
| dynamic regions | `sys.c` | `freedinamic`, `dinamic_lists`, `mem_chunk` | `memRegGet`, `memRegDel`, `num_pointing` |
| slabs | `slabs.c` | `slab_t` | `init_slab`, `allocate_mem`, `deallocate_mem`, `detroy_slab` |
| console | `io.c`, `devices.c`, `sys.c` | cursor, colour, screen | `write`, `gotoXY`, `changeColor`, `clrscr` |
| user-memory helpers | `utils.c` | none | `access_ok`, `copy_data`, `copy_from_user`, `copy_to_user` |
| game | `user.c` | positions, flags, three semaphores, the screen | the threads `main`, `key_read`, `move_agent`, `print_screen` |
| entry, boot, build | `entry.S`, `sys_call_table.S`, `system.c`, `hardware.c`, `bootsect.S`, `build.c` | registers | dispatch, straight-line initialisation |

**How they interact.** System calls and the two interrupts are the only
entries into the kernel. All gates are interrupt gates and `sysenter` clears IF,
so a handler runs to its end, or to the task switch it ends in, without
interruption: the interleaving is between *handlers*, and between the two halves
of a handler that blocks (`sys_getKey` and `sys_semWait` continue after
`sched_next_rr` when somebody switches back). All components move the same
task_structs, through one link field, between the same lists; that is the shared
state where their mistakes would meet. User threads, on the other hand, can be
switched at any instruction: the game is the one program in the tree whose own
steps interleave, over the semaphores and `getKey` of the kernel, and with the
keyboard echo on one console cursor.

**What is hard.** (a) `update_process_state_rr` unlinks a task if `state` says
so, while four other places link and unlink tasks by hand; (b) what a handler
computed before it blocked (`waitKey`, the key it was woken for) is used after
any number of other handlers; (c) a semaphore can be destroyed, by call or by
its owner's exit, and handed out again while others hold it; (d) timeouts race
with keys; (e) the idle task is outside the queues until its first slice and in
them afterwards; (f) a switch saves and loads stack pointers of the same tasks;
(g) fork, create_thread and memRegGet can run out of frames half way and have to
undo what they did; (h) directories are used again with what earlier processes
left in them, and are counted apart from the thread lists that exit decides by;
(i) loops over a list move what they visit to other lists; (j) a text is printed
in pieces, copied by words and then bytes, on a cursor that keys are echoed
through; (k) the game's threads set flags, signal, and clear the flags of others.

**What makes each component correct**

* scheduler: one link, one list (`Discipline`); nobody ready waits for ever
  (`ReadyRuns`), nobody is overtaken (`NoOvertaking`); whoever is resumed has a
  frame (`SuspendedHasFrame`); the life of a task is the one of `TaskLifecycle`.
* semaphores: a semaphore has one owner or is free (`SemOwnership`); no call of
  semWait passes without a signal (`NoUnearnedPass`); destruction releases
  everybody (`DestroyReleases`); nobody is lost otherwise (`StrandedOnlyByReuse`).
* key input: `waitKey` counts (`WaitKeyCounts`); no key lies unread while a task
  sleeps for one (`NoSleepWithSpareKey`); timeouts end (`TimeoutPending`,
  `GetKeyReturns`).
* key buffer: a queue that drops its oldest key (`FifoSpec`).
* address spaces: a data frame belongs to one page of one address space
  (`FrameOwnership`), the code to all of them (`CodeKept`); what a live process
  holds stays mapped and does not overlap (`SpaceKept`); frames do not get lost
  (`DropsNoFrame`); directories are counted right (`DirectoryUse`) and the
  loaded one is that of the running task (`LoadedSpace`).
* dynamic regions: chunks are not lost, and a region ends with its process at
  the latest (`ChunksAccounted`).
* kernel lists: they are the sequences the other models use (`SeqSpec`), both
  directions agree (`Rings`), and a loop visits what it should (`CursorOnList`,
  `VisitsAll`).
* slabs: no chunk is given out twice (`NeverTwice`); what the slab forgets stays
  counted (`CountExplained`); a program that frees the newest chunk first loses none
  (`NewestFirstRefusesNone`), any other may (`RefusesNone` does not hold, section 5).
* console and helpers: calls print on one linear terminal (`TerminalSpec`); the
  cursor stays on the screen if nobody puts it elsewhere (`CarefulStays`); only
  the ranges meant are read (`KernelKept`).
* game: one turn at a time (`OneTurn`), no request without a turn
  (`TurnsOwed`, `PressServed`, `EnemyMoves`), a true screen (`ScreenTrue`), one
  end, which is shown (`EndStable`, `EndShown`).

## 2. Modules

| module | models | extends / uses |
|---|---|---|
| `Lists` | the kernel lists as sequences | SequencesExt |
| `Sched` | scheduler and switch, open to its environment | `Lists`, instantiates `TaskLifecycle` |
| `TaskLifecycle` | abstract: what the scheduler promises | |
| `Tasks` | semaphores, getKey, clock, keyboard, fork/exit/yield/get_stats over the scheduler | `Sched` |
| `CirBuff` | the key buffer, by array and indices | instantiates `KeyFifo` |
| `KeyFifo` | abstract: bounded queue that drops its oldest key | |
| `Memory` | frames, page tables, directories, stacks and regions, in fork, create_thread, exit, memRegGet, memRegDel and switches | FiniteSetsExt |
| `ListPtr` | `list.c` by its pointers, and loops that requeue entries | instantiates `ListSeq` |
| `ListSeq` | abstract: lists as sequences, an entry on one of them | `Lists` |
| `Slab` | the slab allocator | |
| `UserMem` | `access_ok` and the copy loops | |
| `Console` | cursor, colour, `write`, `gotoXY`, `changeColor`, `clrscr`, key echo | `UserMem`, instantiates `Terminal` |
| `Terminal` | abstract: a linear terminal | |
| `Game` | the threads of `user.c` | |
| `ListTheorems` | lemmas on lists | `Lists`, TLAPS |
| `TasksProofs` | theorems about `Sched` and `Tasks` | `Tasks`, `ListTheorems` |
| `ListPtrProofs` | theorems about `ListPtr` | `ListPtr`, `ListTheorems` |
| `ConsoleProofs` | theorems about `Console` | `Console`, `ListTheorems` |
| `MemoryProofs`, `CirBuffProofs`, `SlabProofs`, `GameProofs` | theorems about `Memory`, `CirBuff`, `Slab`, `Game` | those, TLAPS |
| `MCSched`, `MCTasks`, `MCCirBuff`, `MCMemory`, `MCListPtr`, `MCSlab`, `MCConsole`, `MCGame` | instances for TLC | |

**Sched.** `lists` maps each list head a `task_struct.list` can be linked on to
the sequence of tasks on it: `freequeue`, `readyqueue`, `blocked`, and one per
semaphore. `state`, `current`, `remaining_quantum` are the kernel's. Stack
pointers are abstracted to what a switch can confuse: a suspended task's
`register_esp` names the handler under which `switch_stack` saved it, or `new`
(the frame that `init_idle`, `fork` or `create_thread` built), or `boot` (never
set). `derailed` becomes TRUE when a switch resumes a task from a frame it was
not suspended in. The C routines appear under their own names as operators over
the lists their caller has computed so far (`update_process_state_rr`,
`sched_next_rr`, `schedule`); an action is a whole handler and ends with one of
them or with `NoSwitch`. In `Sched` alone the environment is free: any waiter
may expire at a tick, any semaphore may be signalled, destroyed or
reinitialised, a task may block anywhere and exit with any semaphores, in any
order. What holds there holds for every use the rest of the kernel makes of it.
The idle task makes no system calls (`cpu_idle` is an empty loop).

**Tasks** conjoins each handler of `Sched` with the state of its own component:
`count`, `parent`, `owned` (`task_struct.sems`), `freesems`, `numKeys`,
`waitKey`, `remaining_ticks`. A handler that blocks has a second half:
`Resume` does, in the same step as the switch, what the task that is switched to
still does inside the kernel; only `sys_getKey` changes state there (it leaves
`waitKey` and reads a key). This is exact, since interrupts are disabled until
the resumed handler returns. Failure paths without effect (bad arguments, empty
`freesems`) are no steps. `new_task_fails` is the `-EAGAIN` path of fork and
create_thread, which overwrites a free task_struct and puts it back.
`sys_get_stats` overwrites `remaining_ticks` of any waiter, as `sys.c:327` does.
Semaphores are referred to by handles that `semCreate` returned at some time
(`made`): a destroyed handle can still be waited on. The test at `sys.c:581-582`
would also let through pointers that `semCreate` never returned: those of semaphores
not made yet, whose list is not initialised, and, since a difference of
pointers is divided once more by the size of an element, of places behind the array.
Programs have no such handle, and calls with one are left out.

**CirBuff** is `cir_buff.c` statement by statement, with the last answer kept;
`Tasks` uses only its count (`AfterTail`, `AfterHead`).

**Memory.** `PT` is the array `pagusr_table`, flat, because one clean-up loop
runs past the end of a row; an entry is `Absent` (0 in the code) or the frame it
maps. `used` is `phys_mem`, for the frames `alloc_frame` looks at: every other
one. `Granted` is what a series of `alloc_frame` calls returns, up to the one
that fails, so that a call that fails half way is modelled by what it took and
what it gives back. `Gaps` states by a set what the two nested search loops
compute: the outer loop repeats only when the inner one has reached the end of
the table, so the result is the first gap that does not come within its own
length of the end. A `mem_chunk` is a record in `regions`, of the directory whose
list it is on; only the number of free ones is kept. PIDs are compared and never
computed with, so a new one is any number no task has. Page contents, TIDs and
the two guard pages round the task array are left out. Which task runs and which free
task_struct is taken is open here, since `Sched` decides it.

After two events nothing can be said of a process, and the model stops
(`broken`): a fork that finds no directory (`shared directory`), and a
clean-up of `create_thread` that has unmapped pages it did not map (`overrun`).
Both are findings. Properties that speak of live processes hold up to there.

**ListPtr.** `next` and `prev` are the fields of every `struct list_head`, those
that stand for lists (`Heads`) and those embedded in structures (`Nodes`). `on`
is not in the code: it is the list the owner of an entry believes it is on
(the kernel knows it from `state`, or from where it found the entry), and a
caller only links an entry that is on no list and unlinks one that is. The
operations compute the new fields from the old ones, `add_next`, `add_prev`,
`del_next`, `del_prev`, so that a loop body that calls `list_del` and then
`list_add_tail` is one step. A loop is three variables of the caller, `head`,
`pos` and `n`, and two that record it, `seen` and `start`. `INIT_LIST_HEAD` may
happen to a head that has entries, as `semCreate` does it; the entries become
`Lost`, and nobody unlinks them any more (a task there never runs again). The
abstract specification is `ListSeq`, with the operators of `Lists` that
`Sched` uses: `SeqSpec` is what justifies sequences everywhere else.

**Slab.** The two arrays, `count` and `left` are those of `slab_t`; `held` is
what the program got and did not give back. Chunks are numbered from 0.
`init_slab` does not look at what `memRegGet` answers, so any subset of its three
regions may be there (`got`), and a missing array is a fault at its first
use. Two history variables record how the program uses it: `orderly`, whether it
has always freed the newest chunk it holds, and while that is so `given`, its chunks
from the oldest on. `Answer` is what `deallocate_mem` would say to an address. A
program that frees what it does not hold, and threads that share a slab,
are not modelled: `main` uses its slab from one thread.

**UserMem, Console, Terminal.** `UserMem` states the range check in the code's
modular arithmetic and the copy as the place each byte comes from: words while
more than four bytes are left, then bytes. `Console` has `x` and `y` modulo
`BYTE`, as they are of type Byte, and `printc` as an operator on a cursor that also
collects the words it writes, so that a call of `write` is one step: the kernel
is not interrupted within a call. `read` and `printed` are what the last
call read from user memory and put on the screen, `careful` whether `gotoXY` was
only ever given places on the screen. `Paints` are the arguments of
`changeColor`, wrong ones included, and `Colors` those its test lets through:
a background up to 7 and a foreground up to 15. A key that is
echoed is any byte: `char_map` has 98 entries and the keyboard 128 codes, so a
code past them shows what lies behind the array, and nothing if that is a
newline. Its refinement maps the cursor to one cell
number of `Terminal`, or to `Adrift` when it is off the screen, where `Terminal`
promises nothing.

**Game.** One `pc` per thread, one action for each stretch of `user.c` between
two accesses to shared variables, since the clock may switch anywhere.
The semaphores are counters because each has one waiting thread, and for one
waiter `Tasks` shows `semWait` and `semSignal` to count (`SoleWaiterWoken`,
`NoUnearnedPass`). `print_screen` is alone in drawing, so one agent's calls of
`gotoXY`, `write` and `changeColor` are a step; `perror`, which `main` calls
meanwhile and which prints at the cursor, is recorded in `spoiled` when the drawing
had begun. `erased` records the cells of enemies that another enemy has left since the
last one came there: who leaves a cell blanks it, and who stays is not drawn again, so
`ScreenTrue` says that enemies show in exactly the other ones. `press` follows
a key from `getKey` to the turn that reads it. The messages at the end, the
colours and the thread `test`, which returns at once, are left out.

## 3. Runs

| run | instance | what it asks |
|---|---|---|
| `sched` | idle, task 1, two more tasks, two semaphores, quantum 2 | the invariants of the scheduler, order of the ready queue, refinement of `TaskLifecycle`, and that every ready task runs |
| `sched_derail` | the same | whether a switch always resumes what it saved (it does not, see 5) |
| `semaphores` | the same tasks, two semaphores, initial values 0 and 1, count up to 1, quantum 1 | ownership, passes, wake-ups, destruction, reuse |
| `keys` | the same tasks, timeouts 1 and 2, buffer of 2, quantum 2 | getKey against clock and keyboard |
| `circular_buffer` | buffer of 3 (as in the code), three keys | the buffer is a queue |
| `memory` | four task_structs and directories, 11 pages and 5 frames, two mem_chunks, requests of 1 or 2 pages | all invariants of `Memory`; that no call but a fork into a used directory loses frames, none but a failing fork loses a directory, a failing create_thread spares the program, and the last exit frees what the process holds |
| `fork_directory`, `region_exit` | the `memory` instance | the findings of section 5 in `sys.c` |
| `lists` | two lists, four entries | pointers against sequences, loops |
| `slab` | sizes 1, 3 and 4, so slabs of 0 to 4 chunks | what losing an entry costs, and who loses none |
| `console` | screen of 2 rows and 3 columns, pages of 8 bytes, kernel buffer of 6 bytes | the refinement of `Terminal`, the cursor, the ranges read |
| `game` | map of five cells, two enemies, two keys, at most two turns asked for | turns, screen, end, and liveness of the threads |

Some runs check parts that belong together under one name: `SemaphoresSound` is
`TypeOK` and `SemOwnership` of `Tasks` (with the types of `Sched`), `WaitersSound`
is `WaitKeyCounts` and `TimeoutPending`, `SpacesSound` is `MemTypeOK`, `CodeKept` and
`SpaceKept`, `ListsWhole` is `TypeOK`, `Rings` and `CursorOnList` of `ListPtr`,
`CursorSound` is `TypeOK` and `CarefulStays` of `Console`, and `Progress` is
`PressServed`, `EnemyMoves` and `EndShown`. The type invariants of `Sched`,
`CirBuff` and `Slab` are proved and not checked again.

**Bounds.** Four task_structs are idle plus three that make calls: enough for
two waiters on one list and a third task that signals, destroys, exits or
reuses, which is what the properties need to fail; a fourth caller adds only
longer queues. Quantum 2 tells a renewed quantum from a used one; in the
semaphore runs it is 1, since time plays no part there. `MaxCount` bounds how
often a semaphore is signalled without a wait; `Timeouts` and `InitialValues`
are small sets of arguments. No other counter grows. Symmetry is not used: the
order of `freequeue` and `freesems` at boot distinguishes tasks and semaphores.
The runs of `Memory` do use it, for the task_structs other than idle and task 1,
which no action or property of that module tells apart; they check no liveness.
There, two kernel pages, one code and one data page keep the layout of a table,
and 5 frames run out with two processes or with three threads; with as many directories as
task_structs, as in the code, directories run out too. `MaxPages` bounds one request.
Four entries on two lists give every position an operation can meet: first, last,
only one, between two. Four chunks let an entry be lost while older ones shift
past it. The screen wraps in both directions within one text; the
buffers of `console` are of every length from nothing to more than two kernel
buffers, with full and part words at the end of a piece, one begins in the kernel,
two go round the end of memory, and a byte holds 8 values, so that
coordinates overflow. The corridor of `game` has a corner, which blocks
diagonal moves, and room for two enemies to meet; three enemies would only visit
it one more time. `MaxTurns` bounds how far `sem_move_agent` runs ahead of the
mover: `main` and `key_read` wait there where the code would count on.

**Fairness.** In the kernel models the only fairness is weak fairness of the tick (`Tick`,
`clock_routine`): the timer interrupts for ever and interrupts are enabled in
user mode and in `cpu_idle`. No task has to make a call and no key has to be
pressed. `ReadyRuns` therefore says that round robin alone serves everyone.
`GetKeyReturns` assumes in addition that `get_stats` calls on the waiter do not
recur for ever, because each rewrites the timeout; without that assumption
TLC exhibits a waiter postponed for ever. In `Game` every thread but `key_read`
at its `getKey` is weakly fair, which is what `ReadyRuns` says the scheduler gives
to a ready task; no key ever has to come. With `EnemyMoves` the property
itself names what the code does not exclude: enemies wait as long as keys keep
coming.

## 4. Proofs

Every invariant, action property and refinement that a run checks is also a
theorem, for every value of the constants that the named assumptions allow. Only
liveness is left to TLC (see the end of this section). Each proof is one inductive
invariant, checked first as an invariant of the run where it says more than the
property, then the three facts `Init => I`, `I /\ [Next]_vars => I'` and
`I => property`; an action property or a refinement follows from a step taken in `I`.

**Assumptions.** They are the named ones of the modules, which TLC evaluates on
each instance: in `Sched`, idle and task 1 are different tasks, `freequeue` holds the
others once each at boot, there are finitely many semaphores, no other list head
is one of them, and the quantum is positive; in `Memory`, more than two task_structs,
and room for the kernel and twice the program below `TOTAL_PAGES`; in `ListPtr`,
finitely many entries and heads that are no entries; in `Game`, agents start on
different open cells, there is an enemy, the map is closed, and the corner `<<0, 0>>`, which is what
`last_position` holds before the first turn, is a wall; in `Console`, a row has
fewer columns than a byte has values (with as many, `++x >= NUM_COLUMNS` would
compare a byte that went round, and the line would never end), `nbytes` is an int and
so less than half of the address space, and so is the size of a picture. The sizes of the
key buffer and of slabs are positive.

**Lists** (`ListTheorems`). For lists of any length, what appending, taking
the head, joining, filtering (`KeepFacts`, `KeepAllAndTail`, `KeepWithout`) and
chaining (`ChainFacts`) do to members, duplicates and order (`BeforeFacts`).
`Keep` and `Chain` are built on `FlattenSeq`, so these need induction: it is
obtained from well-foundedness of `<` on Nat in a set form (`NatSetInduction`),
with a first lemma that the recursive function inside `FlattenSeq` exists.

**Scheduler** (`TasksProofs`, first part, about `SchedSpec`). `SchedTypeOK /\
Discipline` is inductive and neither conjunct is: that the head of
`readyqueue` is a task needs the types, that it is on no other list afterwards needs
`NoDuplicates` and `OneList`; that `update_process_state_rr` unlinks what it must needs
`StateAgrees`; that the fallback to idle is safe needs `IdleAvailable`. The proof
goes through `Sound(l, st)`, the part of the invariant that speaks of lists and
states, so that one lemma per list operation applies to the intermediate
lists of any handler, and one lemma per way to end closes each action. What
a handler does is then summed up in three shapes: it wakes some waiters and
returns (`Returns`), wakes some and gives the CPU away (`Leaves`), or takes a
task_struct off `freequeue` (`Reuses`); everything further is proved per shape.
`UnlistedBlocked` and `SuspendedHasFrame` need more than `Discipline`
(`LifeInv`): `state` has to determine where a task is (`Settled`), and
every task that may ever be resumed, not only a ready one, needs its frame
(`FramesKept`). With `Settled` each shape is a step of `TaskLifecycle`, which gives
the refinement; `NoOvertaking` follows since no shape puts a task before another one of
`readyqueue`.

**Services** (`TasksProofs`, second part). Every handler of `Tasks` is a
step of `Sched` or leaves it alone (`ServicesUseSched`), so all of that holds of `Tasks`;
this step is also what the free environment of `Sched` is justified by.
`SemInv` adds ownership. `WaitKeyCounts` is not inductive: the frame that a
waiter saved has to tell in which call it waits (`KeyFrames`), so that the task
switched to is inside `getKey` exactly when it resumes there. With it
`NoSleepWithSpareKey` is a bound: while somebody sleeps there are no more keys than
woken waiters on their way (`SpareIs`). `NoUnearnedPass` counts the tasks on the
list of a semaphore against its `count`. `SoleWaiterWoken`, `DestroyReleases`
and `StrandedOnlyByReuse` are action properties: which members a step takes
off a semaphore's list, and where they are afterwards.

**Key buffer** (`CirBuffProofs`). `TypeOK /\ Window` is inductive: that the
tail has caught up with the head of a non-empty buffer means that it is full follows
from `Window`, and keeps `Window`. The modulus is removed first (`Mod`,
`SlotFacts`): indices go round at most once, so they are linear with a case. The
refinement of `KeyFifo` then compares two sequences of the same length element by
element, once for each of: a read from an empty and from a non-empty buffer, a
write to one with room and to a full one.

**Address spaces** (`MemoryProofs`). `MemInv` describes every directory by who
is in it: a frame that is mapped outside the shared code is used and mapped once
(`Owned`); the threads listed for a directory are the live tasks that point to it,
and `pointing_dir` counts them where there are some (`ThreadsTell`), which is
less than it does for all, since a failed fork leaves a count without a thread;
tasks with one PID share a directory (`PidsTell`), which is all that
`inner_task_switch` looks at; the code of every live process is task 1's
(`CodeThere`); and what threads hold is mapped and apart (`SpaceKept`). After a
fork without a directory, or an undo that overran, little more than the types and
`Owned` is claimed, as in the properties. Each call is a sequence of grants and removals of entries, with one lemma
for each: granting free frames keeps `Owned`, removing pages nobody else
holds keeps `SpaceKept`. The four action properties then read off which entries
a call can have touched: `UndoSparesProgram` because the undo begins at
the stack it looked for, behind the program; `DropsNoFrame` because every removal frees what it unmaps.

**List pointers** (`ListPtrProofs`). `Rings` is not inductive: it allows, beside
the ring of a head, circles of entries that the head is not in, down to an entry
that is its own successor; unlinking that one, or moving it out of a loop, would
leave a cursor or a pointer on nothing. The invariant therefore numbers the entries
of each list: there is a rank that grows along `next` (`Numbered`). Each operation is
given its new ranks, from which `Rings` follows (`RingsAreRings`), and a loop is
two operations in a row on the intermediate pointers. For the refinement of
`ListSeq` the sequences are carried along: `Strung(next, on, sq)` says that `next` leads
from every head through `sq[h]` back to it; each operation turns it into `Strung` of what
`Lists` computes (`AddStrung`, `DelStrung`, `InitStrung`), and what is
strung is what `Entries` reads off the pointers (`ReadOff`), because a recursive
walk over finitely many entries has one result. `VisitsAll` is a loop
invariant over the same sequences (`Visiting`): the entries not visited yet still
follow each other as they did at the start, since the body moves visited ones only.

**Slab** (`SlabProofs`). The strengthening says that without a slab nothing is
held and that the number of held chunks is `count`; a free chunk that `allocate_mem`
hands out is not held by `NeverTwice`, so the cardinality grows by one, and
what `deleteOccupiedSpace` returns to the free ones was held, so it shrinks by one.
What the lost entries are plays no part, which is why they do no other harm.
For `NewestFirstRefusesNone` it adds `Ordered`: as long as the program has been
orderly, `given` has `count` chunks, all different, they are the ones held, and
`occupied` lists them in that order. The entry found for the newest is then the last, nothing is
shifted, and what is left of both is again the same.

**Console** (`ConsoleProofs`). `CursorSound` is inductive. The work is in what one
step computes: `copy_from_user` delivers the bytes of the range whatever part of them
goes by words (`CopyIs`), the pieces of `sys_write` are the text, once and in order
(`WrittenIs`), printing a text is a run of `printc` (`WriteConsoleDef`), and each
character takes a place on the screen to where `Terminal` goes (`PrintcFacts`, from the
arithmetic of rows in `CellFacts`). `ConsoleIsTerminal` puts these together, by
induction on the text. `KernelKept` rests on `RangeFacts`: a range that goes round
the end of memory and is shorter than half of it ends at least a page below its start,
where `access_ok` sees it.

**Game** (`GameProofs`). For the turns the invariant adds what a thread has chosen
(`Chosen`: at `player` the flag is up), what main has created (`Created`) and that after
the end no turn is left (`Halted`). `EndStable` follows since a step that
changes the state needs the turn. The lemmas `PlayerOpen` and `EnemyOpen` are the
geometry: a move from an open cell, blocked or not, ends in an open cell. For
`ScreenTrue` the drawing is followed agent by agent (`DrawInv`): between turns the
kept positions are the agents' (`KeptPlaces`), a turn moves one agent (`OneMover`), the
one caught ends the game in that turn (`NotCaught`), the enemy that moved stands in sight
and whoever was with it before is erased (`ErasedTrue`); and at every point of `print_screen` the
screen shows the player as it is or as the turn found it, and, but for the cells
that the drawing has still to go through (`Touched`), the enemies that stand there and are not
erased (`DrawnTrue`).

**Only model-checked.** Liveness: `ReadyRuns`, `GetKeyReturns` and `Progress`
(fairness and ENABLED are out of the prover's reach). The library's induction theorems
take an operator as a parameter, which the provers cannot instantiate; the
inductions above are all done on sets of naturals. The findings of section 5 are
counterexamples and have nothing to prove.

## 5. What the checks show

All properties hold on the instances, except in the runs that are meant to fail:

* **A task that yields alone resumes a stale frame** (`sched_derail`). With an
  empty ready queue `sys_yield` queues the caller, takes it back and switches
  from it to itself. `inner_task_switch` evaluates `new->task.register_esp`
  before `switch_stack` saves the current one, so execution continues from the
  position of the task's previous suspension, or from an unset register for task 1
  before any switch. `sys.c:307` describes the call as forcing a task switch.
  The models stop there (`Derailed`): nothing is claimed of a derailed CPU.
* **A fork without a directory** (`fork_directory`). Directories 0 and 1 both go
  to idle, so the last free task_struct finds none. `allocate_tables`'
  answer is ignored, the child keeps its parent's directory, and fork maps fresh frames
  over the parent's pages (`sys.c:100` "new pages dir").
* **A region goes with the first thread that exits** (`region_exit`), if it was
  made after the threads: `num_pointing` starts at 1 (`sys.c:286`).

More places where the code does less or more than a comment says are
modelled as they are and have no run of their own that fails:

* A create_thread that runs out of frames unmaps too much: the loop at `sys.c:499`
  (`sys.c:498` "Deallocate allocated pages.") ends at `pag + i`, not `i`. It
  goes on behind the failed stack, into other stacks and regions and the next
  table. `UndoSparesProgram` shows that code, data and the processes before it are
  out of its way; the model stops (`overrun`) when something else was hit.
* `deallocate_mem` refuses a chunk that the program holds. `deleteOccupiedSpace`
  decrements `count` before it shifts (`slabs.c:14`), so when an older chunk is freed,
  the entry of the newest stays behind the others and is no longer found: the
  answer for it is -1, where `slabs.c:50` says "Returns -1 if addr does not point to
  any chunk of this slab". `RefusesNone` states the comment; as an INVARIANT with
  the constants of `MCSlab.cfg` it fails in the fifth state: make a slab, take two
  chunks, free the first. The program cannot give the other back before it destroys
  the slab, but nobody else gets it either (`NeverTwice`), and it stays counted
  (`CountExplained`). One that frees newest first never meets this
  (`NewestFirstRefusesNone`).
* A fork that runs out of frames frees them but leaves `pointing_dir` of its new
  directory at 1 for ever (`sys.c:115` "Deallocate everything"); enough of them
  lead to a fork without a directory.
* fork copies the stacks of all threads of the parent, and the exit of the last
  thread of the child frees only its own (`sys.c:268` "Deallocate all the
  propietary physical pages"): the others stay mapped in the free directory,
  with their frames used.
* fork sets the present bit of every kernel entry of the child, that of page 0
  included (`mm.c:70` "Leave the page inaccessible to comply with NULL convention").
* `access_ok` accepts a range to write anywhere from the data on, without
  regard to its end, where `utils.c:57` says "%VERIFY_WRITE is a superset of
  %VERIFY_READ"; for both it accepts the page after the data.
* `changeColor` refuses backgrounds from 8 on (`sys.c:380`), where `sys.c:377` says
  that background and foreground "just can have values from 0 to F".
* `init_slab` divides the size of an element by that of the memory, and returns
  nothing (`slabs.c:20` "return the number of chunks available").

Facts of the code the models make visible, that no text of the repository
contradicts:

* `semSignal` wakes a waiter only when the count has climbed to 0. With n
  waiters the first n-1 signals wake nobody, and n-1 tasks still sleep when the
  count is 0, where a new `semWait` after one more signal passes them. With one
  waiter every signal wakes it (`SoleWaiterWoken`), which is how the game uses it.
* A waiter of a destroyed semaphore can be lost for good when `semCreate`
  hands the semaphore out again (`StrandedOnlyByReuse` says it is the only way).
* After its first slice idle sits in `readyqueue` like any other task and takes
  full quanta while others are ready.
* A fork into a directory whose last process left stacks behind maps over them
  and their frames are lost for good; `DropsNoFrame` says nothing else loses frames.
* A key can be taken by another waiter than the one it woke; the loser gets
  `-EAGAIN` before its timeout.
* `get_stats` on a task in `getKey` sets its timeout to the running quantum.
* The addresses of the chunks of a slab grow by `i * elem_size`, and leave the region
  from the third chunk on; the models, which number chunks, do not show that.
* The keyboard echoes a code past the 98 entries of `char_map` from whatever lies behind it.
* `gotoXY` tests the position it leaves; once off the screen no `gotoXY` works
  until `clrscr` or a new line on the screen.
* In the game a key pressed between the read of the last one and the reset of
  `move_player` is lost, and its turn idle; enemies rest while keys come fast;
  an enemy that leaves a cell it shared erases the other from the screen until that
  one moves or another comes there (`ScreenTrue` says that nothing else is missing);
  `perror` may print into the picture. After the end `move_agent` waits for ever.

## 6. Not modelled, and the plan

In order:

1. Composition of `Tasks` and `Memory` (a child needs a task_struct, a
   directory and frames, and failure of one must undo the others).
2. TIDs and the search of `get_stats` through task_structs of failed forks.

Left out for good: boot code, descriptor tables and drivers (straight-line
register writes), the entry code but for the fact that handlers are not
interrupted, `build.c` (host file I/O), tick accounting on the time stamp
counter, the vendored `libauxjp`/`libzeos` objects (no source), logging and the
clock display.
