------------------------------- MODULE Sched -------------------------------
(***************************************************************************)
(* The round-robin scheduler of sched.c with the task lists it moves       *)
(* task_structs between, as an open component: it takes every decision of  *)
(* the scheduler and leaves to its environment when a task blocks on a     *)
(* list and when it is woken.  Module Tasks supplies those decisions       *)
(* (semaphores, getKey, keyboard).                                         *)
(*                                                                         *)
(* Interrupt handlers and system calls run with interrupts disabled (every *)
(* gate is an interrupt gate, sysenter clears IF), so each handler is one  *)
(* action, up to and including the task switch it ends in.                 *)
(***************************************************************************)
EXTENDS Lists

CONSTANTS
    Tasks,      \* the task_structs of task[NR_TASKS]
    Idle,       \* task[0], taken by init_idle
    Task1,      \* task[1], taken by init_task1
    BootFree,   \* task[2..NR_TASKS-1], in the order of the freequeue at boot
    Sems,       \* the semaphores; s stands for its list head s->blocked too
    Quantum     \* DEFAULT_QUANTUM, the total_quantum of every task

Queues == {"freequeue", "readyqueue", "blocked"} \cup Sems

ASSUME TaskAssumption ==
    /\ Idle \in Tasks /\ Task1 \in Tasks /\ Idle # Task1
    /\ BootFree \in Seq(Tasks) /\ IsInjective(BootFree)
    /\ Range(BootFree) = Tasks \ {Idle, Task1}
ASSUME SemAssumption ==
    /\ IsFiniteSet(Sems)
    /\ Sems \cap {"freequeue", "readyqueue", "blocked"} = {}
ASSUME QuantumAssumption == Quantum \in Nat \ {0}

VARIABLES
    lists,              \* the list heads a task_struct's `list' is linked on
    current,            \* the task whose kernel stack is in use
    state,              \* task_struct.state
    remaining_quantum,
    register_esp,       \* task_struct.register_esp, see Frames
    derailed            \* a stack frame nobody saved has been resumed

schedVars ==
    <<lists, current, state, remaining_quantum, register_esp, derailed>>

States == {"ST_RUN", "ST_READY", "ST_BLOCKED"}

\* Where register_esp points: nowhere yet ("boot"), the frame that init_idle,
\* sys_fork or sys_create_thread prepared ("new"), or the frame switch_stack
\* saved under the handler of that name.  Every handler starts from the top
\* of the kernel stack, so two frames saved under one handler coincide.
BlockCalls == {"sys_semWait", "sys_getKey"}
Frames == {"boot", "new", "clock_routine", "sys_yield", "sys_exit"} \cup BlockCalls

Ready == lists["readyqueue"]
Members(q) == Range(lists[q])
WaitQueues == {"blocked"} \cup Sems

SchedInit ==
    /\ lists = [q \in Queues |-> IF q = "freequeue" THEN BootFree ELSE << >>]
    /\ current = Task1
    /\ state = [t \in Tasks |-> "ST_RUN"]
    /\ remaining_quantum = Quantum
    /\ register_esp = [t \in Tasks |-> IF t = Idle THEN "new" ELSE "boot"]
    /\ derailed = FALSE
-----------------------------------------------------------------------------
(* The scheduler's routines.  Each takes the lists l and the states st that *)
(* its caller has computed so far and ends the action.                      *)

\* Faulty: t is queued on q without being unlinked.
update_process_state_rr_NoDel(l, st, t, q) == ListAddTail(l, t, q)

\* update_process_state_rr(t, q) for q # NULL, the only calls the kernel makes:
\* the lists after it, and (StateOn) the state it gives t.
update_process_state_rr(l, st, t, q) ==
    ListAddTail(IF st[t] # "ST_RUN" THEN ListDel(l, t) ELSE l, t, q)
StateOn(q) == IF q = "readyqueue" THEN "ST_READY" ELSE "ST_BLOCKED"

\* The handler returns to the task it interrupted or was called by.
NoSwitch(l, st) ==
    /\ lists' = l /\ state' = st
    /\ UNCHANGED <<current, register_esp, derailed>>

\* Faulty: current's position is not saved.
switch_stack_NoSave(t, call) ==
    UNCHANGED register_esp /\ derailed' = FALSE

\* task_switch(t): current saves the frame of `call' and t resumes from its
\* register_esp.  switch_stack gets that register as an argument, read before
\* current's is saved: a task switching to itself resumes from the frame of
\* its previous suspension.
switch_stack(t, call) ==
    /\ register_esp' = [register_esp EXCEPT ![current] = call]
    /\ derailed' = (t = current /\ register_esp[t] # call)

\* Faulty: a lone ready task is passed over for the idle task.
NextTask_Lone(r) == IF Len(r) > 1 THEN Head(r) ELSE Idle

NextTask(r) == IF r # << >> THEN Head(r) ELSE Idle

\* sched_next_rr(), with its task_switch.
sched_next_rr(l, st, call) ==
    LET r == l["readyqueue"]
        t == NextTask(r)
    IN  /\ lists' = IF r # << >> THEN [l EXCEPT !["readyqueue"] = Tail(r)] ELSE l
        /\ state' = [st EXCEPT ![t] = "ST_RUN"]
        /\ current' = t
        /\ remaining_quantum' = Quantum
        /\ switch_stack(t, call)

\* Faulty: one ready task is not enough to switch.
needs_sched_rr_Lone(l, quantum) == quantum = 0 /\ Len(l["readyqueue"]) > 1

needs_sched_rr(l, quantum) == quantum = 0 /\ l["readyqueue"] # << >>

\* needs_sched_rr's effect when it answers no.
Renewed(quantum) == IF quantum = 0 THEN Quantum ELSE quantum

\* schedule(), called by the clock only.
schedule(l, st) ==
    LET quantum == remaining_quantum - 1
    IN  IF needs_sched_rr(l, quantum)
        THEN sched_next_rr(update_process_state_rr(l, st, current, "readyqueue"),
                           [st EXCEPT ![current] = "ST_READY"], "clock_routine")
        ELSE NoSwitch(l, st) /\ remaining_quantum' = Renewed(quantum)
-----------------------------------------------------------------------------
(* What the handlers do to the scheduler.                                   *)

\* A handler of the running task: the idle loop makes no system call.
Syscall == ~derailed /\ current # Idle

\* Faulty: an expired waiter is unlinked and not queued.
Expire_Lost(l, expired) ==
    [l EXCEPT !["blocked"] = Keep(@, Range(@) \ expired)]

\* The waiters whose timeout expires move to the readyqueue, in list order.
Expire(l, expired) ==
    [l EXCEPT !["blocked"] = Keep(@, Range(@) \ expired),
              !["readyqueue"] = @ \o Keep(l["blocked"], expired)]

\* clock_routine: expiry, then schedule().
Clock(expired) ==
    /\ ~derailed
    /\ schedule(Expire(lists, expired),
                [t \in Tasks |-> IF t \in Members("blocked") \cap expired
                                 THEN "ST_READY" ELSE state[t]])

\* keyboard_routine on a break code: the first task of `blocked', if any.
WakeKeyWaiter ==
    /\ ~derailed
    /\ IF lists["blocked"] = << >>
       THEN NoSwitch(lists, state)
       ELSE LET t == Head(lists["blocked"])
            IN  NoSwitch(ListAddTail([lists EXCEPT !["blocked"] = Tail(@)], t, "readyqueue"),
                         [state EXCEPT ![t] = "ST_READY"])
    /\ UNCHANGED remaining_quantum

\* sys_yield: force_task_switch().
Yield ==
    /\ Syscall
    /\ sched_next_rr(update_process_state_rr(lists, state, current, "readyqueue"),
                 [state EXCEPT ![current] = "ST_READY"], "sys_yield")

\* sys_fork, sys_create_thread: child copies current's task_struct, gets a
\* frame of its own and is queued last.
Spawn ==
    /\ Syscall
    /\ lists["freequeue"] # << >>
    /\ LET child == Head(lists["freequeue"])
       IN  /\ lists' = ListAddTail([lists EXCEPT !["freequeue"] = Tail(@)],
                                   child, "readyqueue")
           /\ state' = [state EXCEPT ![child] = "ST_READY"]
           /\ register_esp' = [register_esp EXCEPT ![child] = "new"]
    /\ UNCHANGED <<current, remaining_quantum, derailed>>

\* The same calls when no page or frame is left: the task_struct, already
\* overwritten with a copy of current's, goes back to the freequeue's tail.
SpawnFails ==
    /\ Syscall
    /\ lists["freequeue"] # << >>
    /\ LET child == Head(lists["freequeue"])
       IN  /\ lists' = [lists EXCEPT !["freequeue"] = Append(Tail(@), child)]
           /\ state' = [state EXCEPT ![child] = state[current]]
           /\ register_esp' = [register_esp EXCEPT ![child] = register_esp[current]]
    /\ UNCHANGED <<current, remaining_quantum, derailed>>

\* sys_exit: the tasks blocked on the semaphores `owned' are released, in the
\* order of the owner's list, current's task_struct is freed (its state stays
\* ST_RUN), and another task runs.
Exit(owned) ==
    /\ Syscall
    /\ LET waiters == Chain(lists, owned)
       IN  sched_next_rr([q \in Queues |->
                        CASE q \in Range(owned) -> << >>
                          [] q = "readyqueue"   -> Ready \o waiters
                          [] q = "freequeue"    -> Append(lists[q], current)
                          [] OTHER              -> lists[q]],
                     [t \in Tasks |-> IF t \in Range(waiters)
                                      THEN "ST_READY" ELSE state[t]],
                     "sys_exit")

\* sys_semWait and sys_getKey when they block: current joins q and another
\* task runs.
Block(q, call) ==
    /\ Syscall
    /\ sched_next_rr(update_process_state_rr(lists, state, current, q),
                 [state EXCEPT ![current] = StateOn(q)], call)

\* sys_semSignal when it wakes the first waiter of s.
WakeFirst(s) ==
    /\ Syscall
    /\ lists[s] # << >>
    /\ LET t == Head(lists[s])
       IN  NoSwitch(update_process_state_rr(lists, state, t, "readyqueue"),
                    [state EXCEPT ![t] = "ST_READY"])
    /\ UNCHANGED remaining_quantum

\* Faulty: only the first waiter is woken.
WakeAll_First(s) ==
    IF lists[s] = << >> THEN Syscall /\ UNCHANGED schedVars ELSE WakeFirst(s)

\* sys_semDestroy: every waiter of s, in list order.
WakeAll(s) ==
    /\ Syscall
    /\ NoSwitch([lists EXCEPT ![s] = << >>, !["readyqueue"] = @ \o lists[s]],
                [t \in Tasks |-> IF t \in Members(s) THEN "ST_READY" ELSE state[t]])
    /\ UNCHANGED remaining_quantum

\* sys_semCreate: INIT_LIST_HEAD(&s->blocked) on whatever is linked there.
InitSemList(s) ==
    /\ Syscall
    /\ NoSwitch([lists EXCEPT ![s] = << >>], state)
    /\ UNCHANGED remaining_quantum

\* Nothing is said of a CPU that runs from a frame nobody saved.
Derailed == derailed /\ UNCHANGED schedVars

Tick == \E expired \in SUBSET Members("blocked") : Clock(expired)

SchedNext ==
    \/ Tick \/ WakeKeyWaiter
    \/ Yield \/ Spawn \/ SpawnFails
    \/ \E S \in SUBSET Sems : \E owned \in SetToSeqs(S) : Exit(owned)
    \/ Block("blocked", "sys_getKey")
    \/ \E s \in Sems : \/ Block(s, "sys_semWait")
                       \/ WakeFirst(s) \/ WakeAll(s) \/ InitSemList(s)
    \/ Derailed

\* The timer interrupts for ever; no task has to make a system call.
SchedSpec == SchedInit /\ [][SchedNext]_schedVars /\ WF_schedVars(Tick)
-----------------------------------------------------------------------------
\* Every variable of the scheduler keeps its type; in particular sched_next_rr
\* never takes what is not a task_struct, and the quantum never underflows.
SchedTypeOK ==
    /\ lists \in [Queues -> Seq(Tasks)]
    /\ current \in Tasks
    /\ state \in [Tasks -> States]
    /\ remaining_quantum \in 1..Quantum
    /\ register_esp \in [Tasks -> Frames]
    /\ derailed \in BOOLEAN

\* The kernel has one link field per task_struct: a task on two lists, or
\* twice on one, corrupts both.
NoDuplicates == \A q \in Queues : IsInjective(lists[q])
OneList ==
    \A q1, q2 \in Queues : q1 # q2 => Members(q1) \cap Members(q2) = {}
CurrentUnlisted == \A q \in Queues : current \notin Members(q)

\* update_process_state_rr decides from `state' alone whether a task has to
\* be unlinked first, so state must say what the lists say.
StateAgrees ==
    /\ state[current] = "ST_RUN"
    /\ \A t \in Members("freequeue") : state[t] = "ST_RUN"
    /\ \A t \in Members("readyqueue") : state[t] = "ST_READY"
    /\ \A q \in WaitQueues : \A t \in Members(q) : state[t] = "ST_BLOCKED"

\* idle_task is there whenever sched_next_rr falls back on it: it is current,
\* ready, or was never dispatched.
IdleAvailable ==
    /\ \A q \in Queues \ {"readyqueue"} : Idle \notin Members(q)
    /\ state[Idle] # "ST_BLOCKED"

\* Every task_struct is where the code that touches it expects it.
Discipline ==
    NoDuplicates /\ OneList /\ CurrentUnlisted /\ StateAgrees /\ IdleAvailable

\* A task that is neither current nor listed is idle before its first turn or
\* a waiter whose list was reinitialised under it.
Unlisted(t) == t # current /\ \A q \in Queues : t \notin Members(q)
UnlistedBlocked ==
    \A t \in Tasks : Unlisted(t) => \/ state[t] = "ST_BLOCKED"
                                    \/ t = Idle /\ register_esp[t] = "new"

\* A suspended task has a frame to resume from.
SuspendedHasFrame ==
    \A t \in Members("readyqueue") \cup {Idle} :
        t # current => register_esp[t] \notin {"boot", "sys_exit"}

\* The ready queue is fair: no step puts a task ahead of one that is ready.
Ahead(t) == {u \in Members("readyqueue") :
               \E i, j \in DOMAIN Ready : i < j /\ Ready[i] = u /\ Ready[j] = t}
NoOvertaking ==
    [][\A t \in Members("readyqueue") \cap Members("readyqueue")' :
         Ahead(t)' \subseteq Ahead(t)]_schedVars

\* A task that is ready is given the CPU, whatever the others do.
ReadyRuns ==
    \A t \in Tasks : t \in Members("readyqueue") ~> (current = t \/ derailed)

\* sys.c:307, "System call to force a task switch", and sched.h:40, "position
\* in the stack": what a switch resumes is a position some switch saved.
ResumesSavedFrame == ~derailed

\* The life of a task, as the rest of the system may rely on it.
LifeOf(t) ==
    CASE t = current                -> "running"
      [] t \in Members("freequeue") -> "free"
      [] t \in Members("readyqueue")-> "ready"
      [] Unlisted(t) /\ state[t] = "ST_RUN" -> "reserve"
      [] OTHER                      -> "waiting"
Lifecycle == INSTANCE TaskLifecycle WITH life <- [t \in Tasks |-> LifeOf(t)]
\* Every handler of the scheduler is a step of TaskLifecycle: nobody runs who
\* was not ready, or sleeps and wakes other than through the ready queue.
LifecycleSpec == Lifecycle!Spec
=============================================================================
