------------------------------- MODULE Memory -------------------------------
(***************************************************************************)
(* Address spaces: physical frames (mm.c), page tables and directories     *)
(* (allocate_tables), and what fork, create_thread, exit, memRegGet and    *)
(* memRegDel do to them.  A handler is one action, as in Sched.  Which     *)
(* task runs next and which free task_struct is taken is left open; Sched  *)
(* decides that.                                                           *)
(***************************************************************************)
EXTENDS Integers, FiniteSets, FiniteSetsExt

CONSTANTS
    Tasks, Idle, Task1,
    TOTAL_PAGES,        \* entries of a page table, and frames
    NUM_PAG_KERNEL, NUM_PAG_CODE, NUM_PAG_DATA,
    MAX_DIN,            \* mem_chunks
    MaxPages            \* bound of the model: pages one call asks for

ASSUME MemAssumption ==
    /\ IsFiniteSet(Tasks) /\ Idle \in Tasks /\ Task1 \in Tasks /\ Idle # Task1
    /\ Cardinality(Tasks) > 2
    /\ {TOTAL_PAGES, NUM_PAG_KERNEL, NUM_PAG_CODE, NUM_PAG_DATA, MAX_DIN, MaxPages}
         \subseteq Nat \ {0}
    /\ NUM_PAG_KERNEL + 2 * (NUM_PAG_CODE + NUM_PAG_DATA) <= TOTAL_PAGES

VARIABLES
    used,           \* frames f with phys_mem[f] = USED_FRAME
    PT,             \* pagusr_table, one row of entries per directory
    pointing_dir,
    threads,        \* threads_lists: the tasks on each
    regions,        \* dinamic_lists: the mem_chunks on each
    freedinamic,    \* how many mem_chunks are free
    live,           \* task_structs in use, idle's excepted
    dir, PID,       \* fields of each task_struct
    stack,          \* pages user_stack_page .. + user_stack_size - 1
    current, cr3,
    broken          \* how the memory of a live process was lost, if it was

vars == <<used, PT, pointing_dir, threads, regions, freedinamic, live, dir,
          PID, stack, current, cr3, broken>>

NR_TASKS == Cardinality(Tasks)
Dirs == 0..(NR_TASKS - 1)
Pages == 0..(TOTAL_PAGES - 1)
FirstData == NUM_PAG_KERNEL + NUM_PAG_CODE      \* PAG_LOG_INIT_DATA
FirstFree == FirstData + NUM_PAG_DATA
CodePages == NUM_PAG_KERNEL..(FirstData - 1)
DataPages == FirstData..(FirstFree - 1)

\* alloc_frame looks at every other frame from NUM_PAG_KERNEL on.
Frames == {f \in NUM_PAG_KERNEL..(TOTAL_PAGES - 1) : (f - NUM_PAG_KERNEL) % 2 = 0}

\* The rows of pagusr_table follow one another in memory.
Entries == 0..(NR_TASKS * TOTAL_PAGES - 1)
Entry(d, pag) == d * TOTAL_PAGES + pag
EntriesOf(d, S) == {Entry(d, pag) : pag \in S}
Absent == -1
is_assigned(pt, d, pag) == pt[Entry(d, pag)] # Absent
-----------------------------------------------------------------------------
(* Frames and page tables.                                                  *)

Below(S, x) == Cardinality({y \in S : y < x})

\* The frames that successive calls of alloc_frame give to the entries E, in
\* ascending order, until there are no more.
Granted(u, E) ==
    LET F == Frames \ u
    IN  [e \in {x \in E : Below(E, x) < Cardinality(F)} |->
            CHOOSE f \in F : Below(F, f) = Below(E, e)]
FramesOf(g) == {g[e] : e \in DOMAIN g}

\* set_ss_pag for every entry of g.
Mapped(pt, g) == [e \in Entries |-> IF e \in DOMAIN g THEN g[e] ELSE pt[e]]

\* Faulty: the entries keep their frames.
del_ss_pag_Kept(pt, E) == pt
del_ss_pag(pt, E) == [e \in Entries |-> IF e \in E THEN Absent ELSE pt[e]]

\* Faulty: the frames stay marked.
Freed_Not(u, pt, E) == u
\* free_frame(get_frame(..)) for the entries E.
Freed(u, pt, E) == u \ {f \in {pt[e] : e \in E} : f > NUM_PAG_KERNEL}

\* Faulty: the last page of a gap is not looked at.
Gaps_Short(pt, d, n) ==
    {pag \in FirstFree..(TOTAL_PAGES - 2 * n) :
        \A i \in 0..(n - 2) : ~ is_assigned(pt, d, pag + i)}

\* check_available_space: where n unassigned pages in a row start, none of
\* which is among the last n of the table.
Gaps(pt, d, n) ==
    {pag \in FirstFree..(TOTAL_PAGES - 2 * n) :
        \A i \in 0..(n - 1) : ~ is_assigned(pt, d, pag + i)}
-----------------------------------------------------------------------------
\* At boot init_mm takes directory 0 for the first task_struct, init_idle 1
\* and init_task1 2; set_user_pages gives task 1 its code and data.
Init ==
    LET rows == [e \in Entries |->
                    IF e % TOTAL_PAGES \in 1..(NUM_PAG_KERNEL - 1)
                    THEN e % TOTAL_PAGES ELSE Absent]
        g == Granted({}, EntriesOf(2, CodePages \cup DataPages))
    IN  /\ PT = Mapped(rows, g)
        /\ used = FramesOf(g)
        /\ pointing_dir = [d \in Dirs |-> IF d <= 2 THEN 1 ELSE 0]
        /\ threads = [d \in Dirs |-> IF d = 2 THEN {Task1} ELSE {}]
        /\ regions = [d \in Dirs |-> {}]
        /\ freedinamic = MAX_DIN
        /\ live = {Task1}
        /\ dir = [t \in Tasks |-> IF t = Idle THEN 1 ELSE IF t = Task1 THEN 2 ELSE 0]
        /\ PID = [t \in Tasks |-> IF t = Idle THEN 0 ELSE IF t = Task1 THEN 1 ELSE -1]
        /\ stack = [t \in Tasks |-> {}]
        /\ current = Task1 /\ cr3 = 2
        /\ broken = "no"

\* The directory of the task that makes the call.
home == dir[current]
FreeTasks == Tasks \ (live \cup {Idle})
FreeDirs == {i \in Dirs : pointing_dir[i] < 1}

\* ++global_PID, a number no task has; which one does not matter.
NewPID == CHOOSE n \in 1..(NR_TASKS + 1) : \A t \in Tasks : PID[t] # n

\* Faulty: the child of a fork keeps the number of its parent.
ChildPID_Same == PID[current]
ChildPID == NewPID

\* The pages of the caller that a child gets a copy of, and the entries it
\* shares: those of the kernel, page 0 included, and of the code.
ForkPages == {pag \in FirstData..(TOTAL_PAGES - 1) : is_assigned(PT, home, pag)}
get_frame(e) == IF PT[e] = Absent THEN 0 ELSE PT[e]
Shared(to) ==
    [e \in EntriesOf(to, 0..(FirstData - 1)) |-> get_frame(e - Entry(to, 0) + Entry(home, 0))]

ForkGuard == Cardinality(regions[home]) <= freedinamic

\* With no directory left allocate_tables' answer 0 is ignored: the child
\* keeps its parent's directory, whose pages are replaced by fresh ones, or
\* taken away if the frames run out.  The models stop there.
fork_no_dir(c) ==
    /\ ForkGuard /\ FreeDirs = {}
    /\ LET E == EntriesOf(home, ForkPages)
           g == Granted(used, E)
           pt == Mapped(PT, g)
       IN  IF DOMAIN g = E
           THEN /\ PT' = Mapped(pt, Shared(home))
                /\ used' = used \cup FramesOf(g)
                /\ live' = live \cup {c}
                /\ dir' = [dir EXCEPT ![c] = home]
                /\ PID' = [PID EXCEPT ![c] = ChildPID]
                /\ threads' = [threads EXCEPT ![home] = @ \cup {c}]
                /\ broken' = "shared directory"
           ELSE /\ PT' = del_ss_pag(pt, DOMAIN g)
                /\ broken' = IF g = << >> THEN "no" ELSE "shared directory"
                /\ UNCHANGED <<used, live, dir, PID, threads>>
    /\ UNCHANGED <<pointing_dir, regions, freedinamic, stack, current, cr3>>

\* fork: allocate_tables takes the first free directory i.
fork_in(c, i) ==
    /\ ForkGuard
    /\ pointing_dir' = [pointing_dir EXCEPT ![i] = 1]
    /\ LET E == EntriesOf(i, ForkPages)
           g == Granted(used, E)
           pt == Mapped(PT, g)
           copies == {[m EXCEPT !.num_pointing = 1] : m \in regions[home]}
       IN  IF DOMAIN g = E
           THEN /\ PT' = Mapped(pt, Shared(i))
                /\ used' = used \cup FramesOf(g)
                /\ threads' = [threads EXCEPT ![i] = {c}]
                /\ regions' = [regions EXCEPT ![i] = copies]
                /\ freedinamic' = freedinamic - Cardinality(copies)
                /\ live' = live \cup {c}
                /\ dir' = [dir EXCEPT ![c] = i]
                /\ PID' = [PID EXCEPT ![c] = ChildPID]
                /\ stack' = [stack EXCEPT ![c] = stack[current]]
                /\ cr3' = home
           ELSE /\ PT' = del_ss_pag(pt, DOMAIN g)
                /\ threads' = [threads EXCEPT ![i] = {}]
                /\ regions' = [regions EXCEPT ![i] = {}]
                /\ UNCHANGED <<used, freedinamic, live, dir, PID, stack, cr3>>
    /\ UNCHANGED <<current, broken>>

sys_fork(c) ==
    fork_no_dir(c) \/ (FreeDirs # {} /\ fork_in(c, Min(FreeDirs)))
-----------------------------------------------------------------------------
\* Faulty: the directory does not count the new thread.
OneMoreThread_Not(i) == pointing_dir
OneMoreThread(i) == [pointing_dir EXCEPT ![i] = @ + 1]

\* Faulty: a region counts new threads twice.
Pointed_Twice(S) == {[m EXCEPT !.num_pointing = @ + 2] : m \in S}
Pointed(S) == {[m EXCEPT !.num_pointing = @ + 1] : m \in S}

\* Faulty: the clean-up starts at the data pages, as that of fork does.
Undone_FromData(pag, n, i) == Entry(home, FirstData)..Entry(home, pag + n + i - 1)
\* The entries that a create_thread cleans up when it fails at page i.
Undone(pag, n, i) == Entry(home, pag)..Entry(home, pag + n + i - 1)

\* create_thread with a stack of n pages at the first gap.  If the frames run
\* out at page i, the clean-up goes from the first page of the gap to the one
\* before (end of the gap) + i.
create_thread(c, n) ==
    /\ Gaps(PT, home, n) # {}
    /\ LET pag == Min(Gaps(PT, home, n))
           E == EntriesOf(home, pag..(pag + n - 1))
           g == Granted(used, E)
           pt == Mapped(PT, g)
           i == pag + Cardinality(DOMAIN g)
           clean == Undone(pag, n, i)
       IN  IF DOMAIN g = E
           THEN /\ PT' = pt
                /\ used' = used \cup FramesOf(g)
                /\ live' = live \cup {c}
                /\ dir' = [dir EXCEPT ![c] = home]
                /\ PID' = [PID EXCEPT ![c] = PID[current]]
                /\ stack' = [stack EXCEPT ![c] = pag..(pag + n - 1)]
                /\ pointing_dir' = OneMoreThread(home)
                /\ threads' = [threads EXCEPT ![home] = @ \cup {c}]
                /\ regions' = [regions EXCEPT ![home] = Pointed(@)]
                /\ UNCHANGED broken
           ELSE /\ PT' = del_ss_pag(pt, clean)
                /\ used' = Freed(used \cup FramesOf(g), pt, clean \cap Entries)
                /\ broken' = IF \E e \in clean \ DOMAIN g : e \notin Entries \/ pt[e] # Absent
                             THEN "overrun" ELSE "no"
                /\ UNCHANGED <<live, dir, PID, stack, pointing_dir, threads, regions>>
    /\ UNCHANGED <<freedinamic, current, cr3>>

PagesOf(m) == m.mem_page..(m.mem_page + m.num_pages - 1)
RegionEntries(m) == EntriesOf(home, PagesOf(m))
-----------------------------------------------------------------------------
\* inner_task_switch: the directory that is loaded when t gets the processor.
set_cr3(pid, t) == IF pid # PID[t] THEN dir[t] ELSE cr3

\* Faulty: regions nobody points to any more stay.
Dead_Never(S) == {}
Dead(S) == {m \in S : m.num_pointing < 2}

\* Faulty: only the last thread of a process gives the directory back.
OneThreadLess_Last(i) ==
    IF threads[i] = {current} THEN [pointing_dir EXCEPT ![i] = @ - 1] ELSE pointing_dir
OneThreadLess(i) == [pointing_dir EXCEPT ![i] = @ - 1]

\* exit, up to the switch to any other task. The fields of a free task_struct
\* are written before they are read again, so the model clears them.
sys_exit ==
    /\ pointing_dir' = OneThreadLess(home)
    /\ threads' = [threads EXCEPT ![home] = @ \ {current}]
    /\ LET own == IF threads'[home] = {} THEN DataPages ELSE {}
           E == EntriesOf(home, stack[current] \cup own)
                    \cup UNION {RegionEntries(m) : m \in Dead(regions[home])}
       IN  /\ PT' = del_ss_pag(PT, E)
           /\ used' = Freed(used, PT, E)
    /\ regions' = [regions EXCEPT ![home] =
            {[m EXCEPT !.num_pointing = @ - 1] : m \in @ \ Dead(@)}]
    /\ freedinamic' = freedinamic + Cardinality(Dead(regions[home]))
    /\ live' = live \ {current}
    /\ PID' = [PID EXCEPT ![current] = -1]
    /\ \E t \in live' \cup {Idle} : current' = t /\ cr3' = set_cr3(-1, t)
    /\ dir' = [dir EXCEPT ![current] = 0] /\ stack' = [stack EXCEPT ![current] = {}]
    /\ UNCHANGED broken

\* memRegGet(n): nothing but the order of freedinamic changes when there is
\* no gap, or when the frames run out and allocate_space undoes what it did.
memRegGet(n) ==
    /\ freedinamic > 0 /\ Gaps(PT, home, n) # {}
    /\ LET pag == Min(Gaps(PT, home, n))
           E == EntriesOf(home, pag..(pag + n - 1))
           g == Granted(used, E)
           pt == Mapped(PT, g)
           m == [mem_page |-> pag, num_pages |-> n, num_pointing |-> 1]
       IN  IF DOMAIN g = E
           THEN /\ PT' = pt
                /\ used' = used \cup FramesOf(g)
                /\ regions' = [regions EXCEPT ![home] = @ \cup {m}]
                /\ freedinamic' = freedinamic - 1
           ELSE /\ PT' = del_ss_pag(pt, DOMAIN g)
                /\ used' = Freed(used \cup FramesOf(g), pt, DOMAIN g)
                /\ UNCHANGED <<regions, freedinamic>>
    /\ UNCHANGED <<pointing_dir, threads, live, dir, PID, stack, current, cr3, broken>>

memRegDel(m) ==
    /\ regions' = [regions EXCEPT ![home] = @ \ {m}]
    /\ freedinamic' = freedinamic + 1
    /\ PT' = del_ss_pag(PT, RegionEntries(m))
    /\ used' = Freed(used, PT, RegionEntries(m))
    /\ cr3' = home
    /\ UNCHANGED <<pointing_dir, threads, live, dir, PID, stack, current, broken>>

\* A task switch for any other reason; the lone task may switch to itself.
task_switch(t) ==
    /\ current' = t
    /\ cr3' = set_cr3(PID[current], t)
    /\ UNCHANGED <<used, PT, pointing_dir, threads, regions, freedinamic,
                   live, dir, PID, stack, broken>>

Syscall ==
    /\ current # Idle
    /\ \/ \E c \in FreeTasks : sys_fork(c)
       \/ \E c \in FreeTasks, n \in 1..MaxPages : create_thread(c, n)
       \/ \E n \in 1..MaxPages : memRegGet(n)
       \/ \E m \in regions[home] : memRegDel(m)
       \/ sys_exit

Stopped == broken # "no" /\ UNCHANGED vars

Next ==
    \/ broken = "no" /\ (Syscall \/ \E t \in live \cup {Idle} : task_switch(t))
    \/ Stopped

Spec == Init /\ [][Next]_vars
-----------------------------------------------------------------------------
(* Correctness.                                                             *)

Regions ==
    {m \in [mem_page : FirstFree..(TOTAL_PAGES - 1), num_pages : 1..MaxPages,
            num_pointing : Nat] : m.mem_page + m.num_pages <= TOTAL_PAGES}

\* Every variable holds what its declaration in the source can hold.
MemTypeOK ==
    /\ used \subseteq Frames
    /\ PT \in [Entries -> Pages \cup {Absent}]
    /\ pointing_dir \in [Dirs -> 0..NR_TASKS]
    /\ threads \in [Dirs -> SUBSET Tasks]
    /\ regions \in [Dirs -> SUBSET Regions]
    /\ freedinamic \in 0..MAX_DIN
    /\ live \subseteq Tasks \ {Idle}
    /\ dir \in [Tasks -> Dirs]
    /\ stack \in [Tasks -> SUBSET (FirstFree..(TOTAL_PAGES - 1))]
    /\ current \in live \cup {Idle} /\ cr3 \in Dirs

UserEntries == {e \in Entries : e % TOTAL_PAGES >= FirstData /\ PT[e] # Absent}
CodeFrames == FramesOf(Granted({}, EntriesOf(2, CodePages)))

\* A frame holds one data page of one address space: no two entries beyond
\* the code map it, alloc_frame will not hand it out again, and it is not
\* one of those that hold the shared code.
FrameOwnership ==
    \A e \in UserEntries :
        /\ PT[e] \in used \ CodeFrames
        /\ \A e2 \in UserEntries : PT[e2] = PT[e] => e2 = e

\* Every process runs the program that task 1 was booted with.
CodeKept ==
    broken = "no" => \A t \in live, pag \in CodePages :
        PT[Entry(dir[t], pag)] = PT[Entry(2, pag)] /\ PT[Entry(2, pag)] \in used

\* A directory that a live task uses is taken as often as it is used, and its
\* list of threads holds those tasks: exit relies on it to tell the last.
DirectoryUse ==
    broken = "no" => \A t \in live :
        LET siblings == {u \in live : dir[u] = dir[t]}
        IN  /\ threads[dir[t]] = siblings
            /\ pointing_dir[dir[t]] = Cardinality(siblings)

\* No mem_chunk gets lost when a directory is reused, and no region outlives
\* its process: num_pointing lies between one and the number of threads.
Chunks == UNION {{i} \X regions[i] : i \in Dirs}
ChunksAccounted ==
    broken = "no" =>
        /\ freedinamic + Cardinality(Chunks) = MAX_DIN
        /\ \A i \in Dirs : \A m \in regions[i] :
                m.num_pointing \in 1..Cardinality(threads[i])

\* What a process holds in directory i: its data, the stacks of its threads and
\* its regions.
Held(i) ==
    DataPages \cup (UNION {stack[t] : t \in threads[i]})
              \cup (UNION {PagesOf(m) : m \in regions[i]})

\* No two stacks or regions of it overlap; the data lies before them.
Apart(i) ==
    /\ \A t, u \in threads[i] : t # u => stack[t] \cap stack[u] = {}
    /\ \A m, r \in regions[i] : m # r => PagesOf(m) \cap PagesOf(r) = {}
    /\ \A t \in threads[i], m \in regions[i] : stack[t] \cap PagesOf(m) = {}

\* The data, the stacks of the threads and the regions of a process are
\* assigned and do not overlap, whatever its threads created and deleted.
SpaceKept ==
    broken = "no" => \A t \in live :
        /\ \A pag \in Held(dir[t]) : is_assigned(PT, dir[t], pag)
        /\ Apart(dir[t])

\* Whatever the calls of other processes, and calls that fail, do to the tables,
\* a live process has its program and all it was given.
SpacesSound == MemTypeOK /\ CodeKept /\ SpaceKept

\* The processor translates addresses by the directory of the task it runs,
\* although switches between threads of one process do not reload it.
LoadedSpace == broken = "no" => cr3 = dir[current]

InUse(u, pt) == u \cap {pt[e] : e \in Entries}

\* Frames marked used are mapped somewhere. Only a fork into a directory in
\* which an earlier process left pages drops frames: no other call does,
\* whether it succeeds or fails.
DropsNoFrame ==
    [][(\A c \in FreeTasks : ~ sys_fork(c))
         => used' \ InUse(used', PT') \subseteq used \ InUse(used, PT)]_vars

\* A failing create_thread unmaps pages beyond the stack it did not get, but
\* the program of its process, and the processes before it in the table, stay.
UndoSparesProgram ==
    [][\A c \in FreeTasks, n \in 1..MaxPages :
         create_thread(c, n) /\ c \notin live'
           => \A e \in 0..(Entry(home, FirstFree) - 1) : PT'[e] = PT[e]]_vars

\* A directory that is taken and that no task uses.
Unused(d) == d > 1 /\ pointing_dir[d] # 0 /\ \A t \in live : dir[t] # d

\* Directories get lost by forks that run out of frames, never by an exit,
\* in whatever order threads are made and end.
OnlyForkLosesDirectories ==
    [][\A d \in Dirs : broken' = "no" /\ Unused(d)' /\ ~Unused(d)
         => \E c \in FreeTasks : sys_fork(c) /\ live' = live]_vars

\* The exit of the last thread unmaps the data, the stack and every region of
\* the process; stacks of other threads that a fork copied are all that stays.
LastExitFreesHoldings ==
    [][broken = "no" /\ sys_exit /\ threads'[home] = {}
         => \A pag \in Held(home) : ~ is_assigned(PT', home, pag)]_vars
-----------------------------------------------------------------------------
(* What comments of the source say and the code does not do.                *)

\* sys.c:100, "new pages dir": a child gets a directory of its own.
NewPagesDir == [][\A c \in FreeTasks : sys_fork(c) /\ c \in live' => dir'[c] # home]_vars

\* sys.c:286, "eliminate dinamic variables if not pointed anymore": a region
\* outlives the exit of one thread of several.
NotPointedAnymore ==
    [][sys_exit /\ threads'[home] # {} => freedinamic' = freedinamic]_vars
=============================================================================
