------------------------------- MODULE Tasks -------------------------------
(***************************************************************************)
(* The kernel's task-level services over the scheduler: semaphores         *)
(* (sys.c), getKey with its timeout, the keyboard and clock interrupts,    *)
(* and the part of fork, create_thread, exit and get_stats that touches    *)
(* them.  Each action is one handler, run with interrupts disabled up to   *)
(* and including the task switch it ends in, together with what the task   *)
(* it switches to still does inside the kernel (Resume).                   *)
(***************************************************************************)
EXTENDS Sched

CONSTANTS
    NoTask,         \* NULL, for sem_t.parent
    BootSems,       \* sems[MAX_SEM], in the order of freesems at boot
    MAX_BUFF,       \* size of the keyboard's circular buffer
    Timeouts,       \* timeouts user code passes to getKey
    InitialValues,  \* initial values user code passes to semCreate
    MaxCount        \* bound on a semaphore's count: no signal beyond it

ASSUME NoTaskAssumption == NoTask \notin Tasks
ASSUME BootSemsAssumption ==
    BootSems \in Seq(Sems) /\ IsInjective(BootSems) /\ Range(BootSems) = Sems
ASSUME BufferAssumption == MAX_BUFF \in Nat \ {0}
ASSUME InputAssumption ==
    Timeouts \subseteq Nat \ {0} /\ InitialValues \subseteq Nat /\ MaxCount \in Nat

VARIABLES
    numKeys,            \* keys in the circular buffer
    waitKey,            \* the counter of sys_getKey's waiters
    remaining_ticks,    \* p_stats.remaining_ticks while on `blocked', else 0
    count,              \* sem_t.count
    parent,             \* sem_t.parent
    owned,              \* task_struct.sems
    freesems,
    made                \* semaphores semCreate has returned at least once

keyVars == <<numKeys, waitKey>>
semVars == <<count, parent, owned, freesems, made>>
vars == <<schedVars, keyVars, remaining_ticks, semVars>>

Init ==
    /\ SchedInit
    /\ numKeys = 0 /\ waitKey = 0
    /\ remaining_ticks = [t \in Tasks |-> 0]
    /\ count = [s \in Sems |-> 0]
    /\ parent = [s \in Sems |-> NoTask]
    /\ owned = [t \in Tasks |-> << >>]
    /\ freesems = BootSems
    /\ made = {}
-----------------------------------------------------------------------------
(* The keyboard buffer, by its number of keys: module CirBuff shows that    *)
(* buff_tail and buff_head change numKeys in this way.                      *)
AfterTail(n) == IF n < MAX_BUFF THEN n + 1 ELSE n
AfterHead(n) == IF n = 0 THEN 0 ELSE n - 1

\* Faulty: the waiter that resumes is still counted.
Resume_Counted(w, n) ==
    /\ waitKey' = w
    /\ numKeys' = IF current' # current /\ register_esp[current'] = "sys_getKey"
                  THEN AfterHead(n) ELSE n

\* A task switched to returns from sched_next_rr into the handler it left.
\* Only sys_getKey goes on to change kernel state: it leaves the count of
\* waiters and takes a key if there is one (else -EAGAIN).  w and n are
\* waitKey and numKeys at the switch.
Resume(w, n) ==
    IF current' # current /\ register_esp[current'] = "sys_getKey"
    THEN waitKey' = w - 1 /\ numKeys' = AfterHead(n)
    ELSE waitKey' = w /\ numKeys' = n
-----------------------------------------------------------------------------
(* Interrupts.                                                              *)

\* Timeouts are counted down for every task on `blocked'; those that reach
\* zero expire.
Expired == {t \in Members("blocked") : remaining_ticks[t] - 1 = 0}

\* Faulty: only the ticks of the idle task count.
Countdown_Idle ==
    [t \in Tasks |-> IF t \in Members("blocked") /\ current = Idle
                     THEN remaining_ticks[t] - 1 ELSE remaining_ticks[t]]

Countdown ==
    [t \in Tasks |-> IF t \in Members("blocked")
                     THEN remaining_ticks[t] - 1 ELSE remaining_ticks[t]]

clock_routine ==
    /\ Clock(Expired)
    /\ Resume(waitKey, numKeys)
    /\ remaining_ticks' = Countdown
    /\ UNCHANGED semVars

\* A break code; other scan codes change nothing.
keyboard_routine ==
    /\ WakeKeyWaiter
    /\ numKeys' = AfterTail(numKeys)
    /\ remaining_ticks' = [t \in Tasks |->
         IF lists["blocked"] # << >> /\ t = Head(lists["blocked"])
         THEN 0 ELSE remaining_ticks[t]]
    /\ UNCHANGED <<waitKey, semVars>>
-----------------------------------------------------------------------------
(* Life of a task.                                                          *)

sys_yield ==
    /\ Yield
    /\ Resume(waitKey, numKeys)
    /\ UNCHANGED <<remaining_ticks, semVars>>

\* sys_fork and sys_create_thread when they succeed: the child owns nothing.
new_task ==
    /\ Spawn
    /\ owned' = [owned EXCEPT ![Head(lists["freequeue"])] = << >>]
    /\ UNCHANGED <<keyVars, remaining_ticks, count, parent, freesems, made>>

\* The same calls on their -EAGAIN paths: the free task_struct keeps the copy
\* of current's semaphore list head.
new_task_fails ==
    /\ SpawnFails
    /\ owned' = [owned EXCEPT ![Head(lists["freequeue"])] = owned[current]]
    /\ UNCHANGED <<keyVars, remaining_ticks, count, parent, freesems, made>>

\* Faulty: the owner stays in sem_t.parent.
Disowned_Kept(S) == parent

\* sem_t.parent once the semaphores of S are destroyed.
Disowned(S) == [s \in Sems |-> IF s \in S THEN NoTask ELSE parent[s]]

\* Every semaphore the task owns is destroyed, in the order it made them.
sys_exit ==
    /\ Exit(owned[current])
    /\ Resume(waitKey, numKeys)
    /\ parent' = Disowned(Range(owned[current]))
    /\ freesems' = freesems \o owned[current]
    /\ owned' = [owned EXCEPT ![current] = << >>]
    /\ UNCHANGED <<remaining_ticks, count, made>>

\* The report is written over the timeout of a task that waits for a key: any
\* waiter can be the one that the PID of the call finds.
sys_get_stats(t) ==
    /\ Syscall
    /\ t \in Members("blocked")
    /\ remaining_ticks' = [remaining_ticks EXCEPT ![t] = remaining_quantum]
    /\ UNCHANGED <<schedVars, keyVars, semVars>>
-----------------------------------------------------------------------------
(* getKey.                                                                  *)

\* Faulty: one key more is kept back than there are waiters.
KeyToSpare_OffByOne == numKeys > 0 /\ waitKey < numKeys - 1

KeyToSpare == numKeys > 0 /\ waitKey < numKeys

getKey_now ==
    /\ Syscall
    /\ KeyToSpare
    /\ numKeys' = AfterHead(numKeys)
    /\ UNCHANGED <<schedVars, waitKey, remaining_ticks, semVars>>

\* With a timeout <= 0 the call fails instead, and changes nothing.
getKey_wait(timeout) ==
    /\ ~KeyToSpare
    /\ Block("blocked", "sys_getKey")
    /\ Resume(waitKey + 1, numKeys)
    /\ remaining_ticks' = [remaining_ticks EXCEPT ![current] = timeout]
    /\ UNCHANGED semVars

sys_getKey == getKey_now \/ \E timeout \in Timeouts : getKey_wait(timeout)
-----------------------------------------------------------------------------
(* Semaphores.                                                              *)

sys_semCreate(initial_value) ==
    /\ freesems # << >>
    /\ LET s == Head(freesems)
       IN  /\ InitSemList(s)
           /\ count' = [count EXCEPT ![s] = initial_value]
           /\ parent' = [parent EXCEPT ![s] = current]
           /\ owned' = [owned EXCEPT ![current] = Append(@, s)]
           /\ made' = made \cup {s}
    /\ freesems' = Tail(freesems)
    /\ UNCHANGED <<keyVars, remaining_ticks>>

\* Faulty: the count is tested before it is decremented.
WaitBlocks_Early(s) == count[s] < 0

WaitBlocks(s) == count[s] - 1 < 0

\* User code has no handle of a semaphore that was never created.  One that
\* was destroyed is not refused.
sys_semWait(s) ==
    /\ Syscall
    /\ s \in made
    /\ count' = [count EXCEPT ![s] = @ - 1]
    /\ IF WaitBlocks(s)
       THEN Block(s, "sys_semWait") /\ Resume(waitKey, numKeys)
       ELSE UNCHANGED <<schedVars, keyVars>>
    /\ UNCHANGED <<remaining_ticks, parent, owned, freesems, made>>

\* Faulty: the last waiter is not counted.
SignalWakes_Late(k) == k > 0
\* With k the count after the signal.  While more than one task waits, all the
\* signals but the last wake nobody.
SignalWakes(k) == k >= 0

sys_semSignal(s) ==
    /\ Syscall
    /\ parent[s] # NoTask
    /\ count[s] < MaxCount
    /\ count' = [count EXCEPT ![s] = @ + 1]
    /\ IF SignalWakes(count[s] + 1) /\ lists[s] # << >>
       THEN WakeFirst(s)
       ELSE UNCHANGED schedVars
    /\ UNCHANGED <<keyVars, remaining_ticks, parent, owned, freesems, made>>

\* The count is left as it is.
sys_semDestroy(s) ==
    /\ parent[s] = current
    /\ WakeAll(s)
    /\ parent' = Disowned({s})
    /\ owned' = [owned EXCEPT ![current] = Keep(@, Range(@) \ {s})]
    /\ freesems' = Append(freesems, s)
    /\ UNCHANGED <<keyVars, remaining_ticks, count, made>>
-----------------------------------------------------------------------------
Stats == \E t \in Tasks : sys_get_stats(t)

Next ==
    \/ clock_routine \/ keyboard_routine
    \/ sys_yield \/ new_task \/ new_task_fails \/ sys_exit \/ Stats
    \/ sys_getKey
    \/ \E v \in InitialValues : sys_semCreate(v)
    \/ \E s \in Sems : sys_semWait(s) \/ sys_semSignal(s) \/ sys_semDestroy(s)
    \/ Derailed /\ UNCHANGED vars

\* The timer interrupts for ever; no task has to make a system call.
Spec == Init /\ [][Next]_vars /\ WF_vars(clock_routine)
-----------------------------------------------------------------------------
\* Every variable keeps its type, numKeys within the buffer it counts.
TypeOK ==
    /\ SchedTypeOK
    /\ numKeys \in 0..MAX_BUFF
    /\ waitKey \in Int
    /\ remaining_ticks \in [Tasks -> Int]
    /\ count \in [Sems -> Int]
    /\ parent \in [Sems -> Tasks \cup {NoTask}]
    /\ owned \in [Tasks -> Seq(Sems)]
    /\ freesems \in Seq(Sems)
    /\ made \subseteq Sems

\* Waiters that have been made ready and have not run yet.
WokenForKey == {t \in Members("readyqueue") : register_esp[t] = "sys_getKey"}

\* waitKey is incremented before a switch and decremented after another one,
\* perhaps many handlers later, and still counts the tasks inside getKey.
WaitKeyCounts ==
    waitKey = Cardinality(Members("blocked") \cup WokenForKey)

\* A task sleeps for a key only if every key in the buffer is spoken for by a
\* waiter that is already ready: no key is left unread while a task sleeps.
NoSleepWithSpareKey ==
    lists["blocked"] # << >> => numKeys <= Cardinality(WokenForKey)

\* remaining_ticks is unsigned and tested for equality with zero: a waiter
\* whose count were zero before a tick would wait 2^32 ticks.
TimeoutPending == \A t \in Members("blocked") : remaining_ticks[t] > 0

\* Whoever sleeps for a key is counted, and is going to time out.
WaitersSound == WaitKeyCounts /\ TimeoutPending

\* A semaphore is free or belongs to exactly one task that has not exited,
\* and the list, the parent and the owner's list agree on which.
SemOwnership ==
    /\ IsInjective(freesems)
    /\ \A s \in Sems : s \in Range(freesems) <=> parent[s] = NoTask
    /\ \A s \in Sems : parent[s] \notin Members("freequeue")
    /\ \A t \in Tasks \ Members("freequeue") :
         /\ IsInjective(owned[t])
         /\ Range(owned[t]) = {s \in Sems : parent[s] = t}

\* The semaphores, and the tasks and queues under them, are in order.
SemaphoresSound == TypeOK /\ SemOwnership

\* Since a live semaphore was made, initial value + signals = count + calls
\* of semWait: a negative count is matched by tasks that still wait, so
\* no more calls have returned than the value and the signals allow.
NoUnearnedPass ==
    \A s \in Sems : parent[s] # NoTask => count[s] + Len(lists[s]) >= 0

\* Whoever waits when a semaphore is destroyed, by its owner's exit too, is
\* released.
DestroyReleases ==
    [][\A s \in Sems : parent[s] # NoTask /\ parent'[s] = NoTask =>
         \A t \in Members(s) : t = current' \/ t \in Members("readyqueue")']_vars

\* A task that waits alone is woken by the next signal, whatever signals went to
\* waiters before it without effect.
SoleWaiterWoken ==
    [][\A s \in Sems : Len(lists[s]) = 1 /\ count'[s] = count[s] + 1 =>
         lists'[s] = << >>]_vars

\* A task is lost to the kernel (blocked, and on no list) only if it waited
\* on a destroyed semaphore that was then handed out again.
Stranded(t) == state[t] = "ST_BLOCKED" /\ Unlisted(t)
StrandedOnlyByReuse ==
    [][\A t \in Tasks : Stranded(t)' /\ ~Stranded(t) =>
         \E s \in Sems : /\ t \in Members(s)
                         /\ parent[s] = NoTask /\ parent'[s] # NoTask]_vars

\* A getKey returns, by a key or by its timeout, unless its timeout is
\* rewritten by get_stats for ever.
GetKeyReturns ==
    <>[][~Stats]_vars =>
        \A t \in Tasks : t \in Members("blocked") ~> (t = current \/ derailed)
=============================================================================
