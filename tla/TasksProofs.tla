---------------------------- MODULE TasksProofs ----------------------------
(***************************************************************************)
(* Proofs about modules Sched and Tasks, for every number of tasks and     *)
(* semaphores, every quantum and buffer size.                              *)
(*                                                                         *)
(* The first part is the scheduler alone, in any environment (SchedSpec).  *)
(* Its inductive invariant is SchedTypeOK /\ Discipline; Sound is the part *)
(* of it that speaks of lists and states only, so that the lemmas apply to *)
(* the intermediate lists a handler computes before it reaches its last    *)
(* statement.                                                              *)
(*                                                                         *)
(* In the second part every handler of Tasks is shown to be a step of      *)
(* Sched, so that these invariants hold of Tasks too; what is added        *)
(* relates the lists to the semaphores, to the key counters and to the     *)
(* handlers' saved frames.                                                 *)
(***************************************************************************)
EXTENDS Tasks, ListTheorems, FiniteSetTheorems


\* The state a task_struct linked on q has.
StateIn(q) == CASE q = "freequeue"  -> "ST_RUN"
                [] q = "readyqueue" -> "ST_READY"
                [] OTHER            -> "ST_BLOCKED"

Sound(l, st) ==
    /\ l \in [Queues -> Seq(Tasks)]
    /\ st \in [Tasks -> States]
    /\ \A q \in Queues : IsInjective(l[q])
    /\ \A q, r \in Queues : q # r => Range(l[q]) \cap Range(l[r]) = {}
    /\ \A q \in Queues : \A t \in Range(l[q]) : st[t] = StateIn(q)
    /\ \A q \in Queues \ {"readyqueue"} : Idle \notin Range(l[q])
    /\ st[Idle] # "ST_BLOCKED"

\* t is linked on no list.
Off(l, t) == \A q \in Queues : t \notin Range(l[q])

\* The four kinds of list head are different lists.
LEMMA QueueNames ==
    /\ "freequeue" \in Queues /\ "readyqueue" \in Queues /\ "blocked" \in Queues
    /\ Sems \subseteq Queues
    /\ WaitQueues = Queues \ {"freequeue", "readyqueue"}
    /\ \A s \in Sems : s \notin {"freequeue", "readyqueue", "blocked"}
BY SemAssumption DEF Queues, WaitQueues

\* What each kind of list asks of state.
LEMMA StateInFacts ==
    /\ StateIn("freequeue") = "ST_RUN"
    /\ StateIn("readyqueue") = "ST_READY"
    /\ \A q \in WaitQueues : StateIn(q) = "ST_BLOCKED"
    /\ \A q \in Queues : StateIn(q) \in States
BY QueueNames DEF StateIn, States

\* The invariant in terms of Sound.
LEMMA SoundIsDiscipline ==
    ASSUME SchedTypeOK
    PROVE  Discipline <=> /\ Sound(lists, state)
                          /\ Off(lists, current)
                          /\ state[current] = "ST_RUN"
<1>1. StateAgrees <=> /\ state[current] = "ST_RUN"
                      /\ \A q \in Queues : \A t \in Range(lists[q]) : state[t] = StateIn(q)
  BY QueueNames, StateInFacts DEF StateAgrees, Members
<1>2. Idle \in Tasks
  BY TaskAssumption
<1> QED BY <1>1, <1>2 DEF Discipline, NoDuplicates, OneList, CurrentUnlisted,
           IdleAvailable, Sound, Off, Members, SchedTypeOK
\* The same of the state after a step.
LEMMA SoundIsDisciplineNext ==
    ASSUME SchedTypeOK', Sound(lists', state'), Off(lists', current'),
           state'[current'] = "ST_RUN"
    PROVE  Discipline'
<1>1. StateAgrees'
  BY QueueNames, StateInFacts DEF StateAgrees, Members, Sound
<1> QED BY <1>1 DEF Discipline, NoDuplicates, OneList, CurrentUnlisted,
           IdleAvailable, Sound, Off, Members
-----------------------------------------------------------------------------
(* What the list operations do to Sound lists.                              *)

\* list_add_tail of a task that is on no list.
LEMMA SoundAddTail ==
    ASSUME NEW l, NEW st, Sound(l, st),
           NEW t \in Tasks, Off(l, t),
           NEW q \in Queues, t = Idle => q = "readyqueue",
           NEW st2 \in [Tasks -> States],
           st2[t] = StateIn(q), \A u \in Tasks \ {t} : st2[u] = st[u]
    PROVE  /\ Sound(ListAddTail(l, t, q), st2)
           /\ \A r \in Queues : Range(ListAddTail(l, t, q)[r])
                = IF r = q THEN Range(l[q]) \cup {t} ELSE Range(l[r])
<1> DEFINE m == ListAddTail(l, t, q)
<1>1. /\ m \in [Queues -> Seq(Tasks)]
      /\ m[q] = Append(l[q], t)
      /\ \A r \in Queues \ {q} : m[r] = l[r]
  BY AppendFacts DEF ListAddTail, Sound
<1>2. l[q] \in Seq(Tasks) /\ IsInjective(l[q]) /\ t \notin Range(l[q])
  BY DEF Sound, Off
<1>3. Range(m[q]) = Range(l[q]) \cup {t} /\ IsInjective(m[q])
  BY <1>1, <1>2, AppendFacts
<1>4. \A r \in Queues : Range(m[r]) = IF r = q THEN Range(l[q]) \cup {t} ELSE Range(l[r])
  BY <1>1, <1>3
<1> HIDE DEF m
<1>5. \A r \in Queues : IsInjective(m[r])
  BY <1>1, <1>3 DEF Sound
<1>6. \A r, s \in Queues : r # s => Range(m[r]) \cap Range(m[s]) = {}
  BY <1>4 DEF Sound, Off
<1>7. \A r \in Queues : \A u \in Range(m[r]) : u \in Tasks
  BY <1>1 DEF Range
<1>8. \A r \in Queues : \A u \in Range(m[r]) : st2[u] = StateIn(r)
  BY <1>4, <1>7 DEF Sound, Off
<1>9. \A r \in Queues \ {"readyqueue"} : Idle \notin Range(m[r])
  BY <1>4 DEF Sound
<1>10. st2[Idle] # "ST_BLOCKED"
  BY StateInFacts, TaskAssumption DEF Sound
<1>11. Sound(m, st2)
  BY <1>1, <1>5, <1>6, <1>8, <1>9, <1>10 DEF Sound
<1> QED BY <1>4, <1>11 DEF m

\* list_first with list_del of what it returns.
LEMMA SoundTakeFirst ==
    ASSUME NEW l, NEW st, Sound(l, st),
           NEW q \in Queues, l[q] # << >>
    PROVE  /\ Sound([l EXCEPT ![q] = Tail(l[q])], st)
           /\ Head(l[q]) \in Tasks /\ Head(l[q]) \in Range(l[q])
           /\ Off([l EXCEPT ![q] = Tail(l[q])], Head(l[q]))
           /\ \A r \in Queues : Range([l EXCEPT ![q] = Tail(l[q])][r])
                = Range(l[r]) \ {Head(l[q])}
<1> DEFINE t == Head(l[q])
           m == [l EXCEPT ![q] = Tail(l[q])]
<1>1. /\ l[q] \in Seq(Tasks) /\ IsInjective(l[q])
      /\ l \in [Queues -> Seq(Tasks)]
  BY DEF Sound
<1>2. /\ t \in Tasks /\ Tail(l[q]) \in Seq(Tasks) /\ t \in Range(l[q])
      /\ Range(l[q]) = Range(Tail(l[q])) \cup {t}
      /\ IsInjective(Tail(l[q])) /\ t \notin Range(Tail(l[q]))
  BY <1>1, HeadTailFacts
<1>3. m \in [Queues -> Seq(Tasks)] /\ m[q] = Tail(l[q]) /\ \A r \in Queues \ {q} : m[r] = l[r]
  BY <1>1, <1>2
<1> HIDE DEF m, t
<1>4. \A r \in Queues : Range(m[r]) = Range(l[r]) \ {t}
  BY <1>2, <1>3 DEF Sound
<1>5. Sound(m, st)
  BY <1>2, <1>3, <1>4 DEF Sound
<1>6. Off(m, t)
  BY <1>4 DEF Off
<1> QED BY <1>2, <1>4, <1>5, <1>6 DEF m, t

\* list_del.
LEMMA SoundDel ==
    ASSUME NEW l, NEW st, Sound(l, st), NEW t \in Tasks
    PROVE  /\ Sound(ListDel(l, t), st)
           /\ Off(ListDel(l, t), t)
           /\ \A r \in Queues : Range(ListDel(l, t)[r]) = Range(l[r]) \ {t}
<1> DEFINE m == ListDel(l, t)
<1>1. /\ DOMAIN m = Queues
      /\ \A r \in Queues : m[r] = Keep(l[r], Range(l[r]) \ {t}) /\ l[r] \in Seq(Tasks)
  BY DEF ListDel, Sound
<1>2. \A r \in Queues : /\ m[r] \in Seq(Tasks)
                        /\ Range(m[r]) = Range(l[r]) \ {t}
                        /\ IsInjective(m[r])
  <2> SUFFICES ASSUME NEW r \in Queues
               PROVE  /\ m[r] \in Seq(Tasks)
                      /\ Range(m[r]) = Range(l[r]) \ {t}
                      /\ IsInjective(m[r])
    OBVIOUS
  <2>1. IsInjective(l[r])
    BY DEF Sound
  <2> DEFINE S == Range(l[r]) \ {t}
  <2>3. l[r] \in Seq(Tasks) /\ m[r] = Keep(l[r], S)
    BY <1>1
  <2>4. Range(l[r]) \cap S = S
    OBVIOUS
  <2> HIDE DEF m, S
  <2>5. Keep(l[r], S) \in Seq(Tasks) /\ Range(Keep(l[r], S)) = S
        /\ IsInjective(Keep(l[r], S))
    BY <2>1, <2>3, <2>4, KeepFacts
  <2> QED BY <2>3, <2>5 DEF S
<1>3. m \in [Queues -> Seq(Tasks)]
  <2>1. m = [r \in Queues |-> m[r]]
    BY DEF ListDel, Sound
  <2> HIDE DEF m
  <2> QED BY <1>2, <2>1
<1> HIDE DEF m
<1>4. Sound(m, st)
  BY <1>2, <1>3 DEF Sound
<1>5. Off(m, t)
  BY <1>2 DEF Off
<1> QED BY <1>2, <1>4, <1>5 DEF m

\* A running task that is on no list is queued.
LEMMA SoundUpdate ==
    ASSUME NEW l, NEW st, Sound(l, st),
           NEW t \in Tasks, st[t] # "ST_RUN" \/ Off(l, t),
           NEW q \in Queues \ {"freequeue"}, t = Idle => q = "readyqueue"
    PROVE  /\ Sound(update_process_state_rr(l, st, t, q), [st EXCEPT ![t] = StateOn(q)])
           /\ \A u \in Tasks \ {t} :
                Off(l, u) => Off(update_process_state_rr(l, st, t, q), u)
<1> DEFINE m == IF st[t] # "ST_RUN" THEN ListDel(l, t) ELSE l
           st2 == [st EXCEPT ![t] = StateOn(q)]
<1>1. Sound(m, st) /\ Off(m, t) /\ \A r \in Queues : Range(m[r]) = Range(l[r]) \ {t}
  BY SoundDel DEF Off
<1>2. StateOn(q) = StateIn(q)
  BY StateInFacts, QueueNames DEF StateOn, StateIn
<1>3. st2 \in [Tasks -> States] /\ st2[t] = StateIn(q) /\ \A u \in Tasks \ {t} : st2[u] = st[u]
  BY <1>2, StateInFacts DEF Sound
<1> HIDE DEF m, st2
<1>4. /\ Sound(ListAddTail(m, t, q), st2)
      /\ \A r \in Queues : Range(ListAddTail(m, t, q)[r])
           = IF r = q THEN Range(m[q]) \cup {t} ELSE Range(m[r])
  BY <1>1, <1>3, SoundAddTail
<1>5. update_process_state_rr(l, st, t, q) = ListAddTail(m, t, q)
  BY DEF update_process_state_rr, m
<1>6. \A u \in Tasks \ {t} : Off(l, u) => Off(ListAddTail(m, t, q), u)
  BY <1>1, <1>4 DEF Off
<1> QED BY <1>4, <1>5, <1>6 DEF st2

\* m is l after the waiters W have left their lists for the tail of the
\* readyqueue, and possibly other waiters theirs for nowhere.
Releases(l, m, W) ==
    /\ W \in Seq(Tasks) /\ IsInjective(W)
    /\ \A t \in Range(W) : \E q \in WaitQueues : t \in Range(l[q])
    /\ m \in [Queues -> Seq(Tasks)]
    /\ m["freequeue"] = l["freequeue"]
    /\ m["readyqueue"] = l["readyqueue"] \o W
    /\ \A q \in WaitQueues : /\ IsInjective(m[q])
                             /\ Range(m[q]) \subseteq Range(l[q]) \ Range(W)
Woken(st, W) == [t \in Tasks |-> IF t \in Range(W) THEN "ST_READY" ELSE st[t]]

\* Nobody leaves for nowhere.
Keeps(l, m, W) == \A q \in WaitQueues : Range(l[q]) \subseteq Range(m[q]) \cup Range(W)

\* Releasing waiters (clock, sys_exit, sys_semDestroy) keeps lists Sound.
LEMMA SoundRelease ==
    ASSUME NEW l, NEW st, Sound(l, st), NEW W, NEW m, Releases(l, m, W)
    PROVE  /\ Sound(m, Woken(st, W))
           /\ \A t \in Tasks : Off(l, t) => Off(m, t) /\ Woken(st, W)[t] = st[t]
<1> DEFINE st2 == Woken(st, W)
<1>0. /\ W \in Seq(Tasks) /\ IsInjective(W)
      /\ \A t \in Range(W) : \E q \in WaitQueues : t \in Range(l[q])
      /\ m \in [Queues -> Seq(Tasks)]
      /\ m["freequeue"] = l["freequeue"]
      /\ m["readyqueue"] = l["readyqueue"] \o W
      /\ \A q \in WaitQueues : /\ IsInjective(m[q])
                               /\ Range(m[q]) \subseteq Range(l[q]) \ Range(W)
      /\ st2 = [t \in Tasks |-> IF t \in Range(W) THEN "ST_READY" ELSE st[t]]
  BY DEF Releases, Woken
<1> HIDE DEF st2
<1>1. l["readyqueue"] \in Seq(Tasks) /\ IsInjective(l["readyqueue"])
  BY <1>0, QueueNames DEF Sound
<1>2. Range(W) \cap Range(l["readyqueue"]) = {} /\ Range(W) \cap Range(l["freequeue"]) = {}
  BY <1>0, QueueNames DEF Sound
<1>3. IsInjective(m["readyqueue"]) /\ Range(m["readyqueue"]) = Range(l["readyqueue"]) \cup Range(W)
  BY <1>0, <1>1, <1>2, ConcatFacts
<1>4. \A q \in Queues : q = "freequeue" \/ q = "readyqueue" \/ q \in WaitQueues
  BY <1>0, QueueNames
<1>5. "freequeue" \notin WaitQueues /\ "readyqueue" \notin WaitQueues /\ WaitQueues \subseteq Queues
  BY <1>0, QueueNames
<1>6. \A t \in Range(W) : t \in Tasks /\ t # Idle
  <2>1. \A t \in Range(W) : t \in Tasks
    BY <1>0, ElementOfSeq, LenProperties DEF Range
  <2> QED BY <1>0, <2>1, <1>5 DEF Sound
<1>7. st2 \in [Tasks -> States] /\ st2[Idle] # "ST_BLOCKED"
  BY <1>0, TaskAssumption DEF Sound, States
<1>8. \A q \in Queues : IsInjective(m[q])
  BY <1>0, <1>3, <1>4, QueueNames DEF Sound
<1>9. \A q, r \in Queues : q # r => Range(m[q]) \cap Range(m[r]) = {}
  <2> SUFFICES ASSUME NEW q \in Queues, NEW r \in Queues, q # r
               PROVE  Range(m[q]) \cap Range(m[r]) = {}
    OBVIOUS
  <2>1. Range(l[q]) \cap Range(l[r]) = {}
    BY <1>0 DEF Sound
  <2>2. \A p \in {q, r} : \/ p = "readyqueue"
                          \/ /\ p # "readyqueue"
                             /\ Range(m[p]) \subseteq Range(l[p]) \ Range(W)
    BY <1>0, <1>2, <1>4, QueueNames
  <2>3. CASE q = "readyqueue"
    BY <1>0, <1>3, <2>1, <2>2, <2>3
  <2>4. CASE r = "readyqueue"
    BY <1>0, <1>3, <2>1, <2>2, <2>4
  <2>5. CASE q # "readyqueue" /\ r # "readyqueue"
    BY <1>0, <2>1, <2>2, <2>5
  <2> QED BY <1>0, <2>3, <2>4, <2>5
<1>10. \A q \in Queues : \A t \in Range(m[q]) : st2[t] = StateIn(q)
  <2> SUFFICES ASSUME NEW q \in Queues, NEW t \in Range(m[q])
               PROVE  st2[t] = StateIn(q)
    OBVIOUS
  <2>0. t \in Tasks
    BY <1>0, ElementOfSeq, LenProperties DEF Range
  <2>1. CASE q = "readyqueue"
    BY <1>0, <1>3, <2>0, <2>1, StateInFacts, QueueNames DEF Sound
  <2>2. CASE q # "readyqueue"
    <3>1. t \in Range(l[q]) /\ t \notin Range(W)
      BY <1>0, <1>2, <1>4, <2>2
    <3> QED BY <1>0, <2>0, <3>1 DEF Sound
  <2> QED BY <1>0, <2>1, <2>2
<1>11. \A q \in Queues \ {"readyqueue"} : Idle \notin Range(m[q])
  BY <1>0, <1>4 DEF Sound
<1>12. Sound(m, st2)
  BY <1>0, <1>7, <1>8, <1>9, <1>10, <1>11 DEF Sound
<1>13. ASSUME NEW t \in Tasks, Off(l, t)
       PROVE  Off(m, t) /\ st2[t] = st[t]
  <2>1. t \notin Range(W)
    BY <1>0, <1>5, <1>13 DEF Off
  <2>2. Off(m, t)
    BY <1>0, <1>3, <1>4, <1>13, <2>1, QueueNames DEF Off
  <2> QED BY <1>0, <2>1, <2>2
<1> QED BY <1>12, <1>13 DEF st2
-----------------------------------------------------------------------------
(* The switch, and the handlers one by one.                                 *)

IInv == SchedTypeOK /\ Discipline

\* sched_next_rr leaves every task where it should be, whatever Sound lists
\* its caller hands it.
LEMMA SoundNext ==
    ASSUME NEW l, NEW st, Sound(l, st), NEW call \in Frames,
           SchedTypeOK, sched_next_rr(l, st, call)
    PROVE  SchedTypeOK' /\ Discipline'
<1> DEFINE r == l["readyqueue"]
           t == NextTask(r)
<1>1. /\ lists' = IF r # << >> THEN [l EXCEPT !["readyqueue"] = Tail(r)] ELSE l
      /\ state' = [st EXCEPT ![t] = "ST_RUN"]
      /\ current' = t
      /\ remaining_quantum' = Quantum
      /\ register_esp' = [register_esp EXCEPT ![current] = call]
      /\ derailed' = (t = current /\ register_esp[t] # call)
  BY DEF sched_next_rr, switch_stack
<1>2. t \in Tasks /\ Off(lists', t) /\ Sound(lists', st)
  <2>1. CASE r # << >>
    BY <1>1, <2>1, SoundTakeFirst, QueueNames DEF NextTask
  <2>2. CASE r = << >>
    <3>1. t = Idle /\ lists' = l /\ Range(r) = {}
      BY <1>1, <2>2, RangeOfEmpty DEF NextTask
    <3>2. Off(l, Idle)
      BY <3>1 DEF Off, Sound
    <3> QED BY <3>1, <3>2, TaskAssumption
  <2> QED BY <2>1, <2>2
<1> HIDE DEF t
<1>3. state' \in [Tasks -> States] /\ state'[t] = "ST_RUN" /\ \A u \in Tasks \ {t} : state'[u] = st[u]
  BY <1>1, <1>2 DEF Sound, States
<1>4. Sound(lists', state')
  <2>1. \A q \in Queues : \A u \in Range(lists'[q]) : u \in Tasks /\ u # t
    BY <1>2, ElementOfSeq, LenProperties DEF Range, Sound, Off
  <2>2. \A q \in Queues : \A u \in Range(lists'[q]) : state'[u] = StateIn(q)
    BY <1>2, <1>3, <2>1 DEF Sound
  <2>3. state'[Idle] # "ST_BLOCKED"
    BY <1>2, <1>3, TaskAssumption DEF Sound
  <2> QED BY <1>2, <1>3, <2>2, <2>3 DEF Sound
<1>5. SchedTypeOK'
  <2>1. lists' \in [Queues -> Seq(Tasks)] /\ current' \in Tasks
    BY <1>1, <1>2 DEF Sound
  <2>2. remaining_quantum' \in 1..Quantum
    BY <1>1, QuantumAssumption
  <2>3. register_esp' \in [Tasks -> Frames] /\ derailed' \in BOOLEAN
    BY <1>1 DEF SchedTypeOK
  <2> QED BY <1>3, <2>1, <2>2, <2>3 DEF SchedTypeOK
<1>6. Sound(lists', state') /\ Off(lists', current') /\ state'[current'] = "ST_RUN"
  BY <1>1, <1>2, <1>3, <1>4
<1> QED BY <1>5, <1>6, SoundIsDisciplineNext

\* The same when the handler returns to the task it found running.
LEMMA SoundReturn ==
    ASSUME NEW l, NEW st, Sound(l, st), Off(l, current), st[current] = "ST_RUN",
           SchedTypeOK, NoSwitch(l, st), remaining_quantum' \in 1..Quantum
    PROVE  SchedTypeOK' /\ Discipline'
<1>1. SchedTypeOK'
  BY DEF NoSwitch, SchedTypeOK, Sound
<1> QED BY <1>1, SoundIsDisciplineNext DEF NoSwitch

\* What the invariant gives every handler to start from.
LEMMA Facts ==
    ASSUME IInv
    PROVE  /\ Sound(lists, state) /\ Off(lists, current)
           /\ state[current] = "ST_RUN" /\ SchedTypeOK
           /\ current \in Tasks /\ remaining_quantum \in 1..Quantum
BY SoundIsDiscipline DEF IInv, SchedTypeOK

\* The kernel boots into the invariant.
LEMMA InitInv == SchedInit => IInv
<1> SUFFICES ASSUME SchedInit PROVE IInv
  OBVIOUS
<1>1. SchedTypeOK
  <2>1. lists \in [Queues -> Seq(Tasks)]
    BY TaskAssumption, QueueNames DEF SchedInit
  <2>2. remaining_quantum \in 1..Quantum
    BY QuantumAssumption DEF SchedInit
  <2>3. register_esp \in [Tasks -> Frames] /\ state \in [Tasks -> States]
    BY DEF SchedInit, Frames, States
  <2> QED BY <2>1, <2>2, <2>3, TaskAssumption DEF SchedInit, SchedTypeOK
<1>2. \A q \in Queues : lists[q] = IF q = "freequeue" THEN BootFree ELSE << >>
  BY DEF SchedInit
<1>3. \A q \in Queues : Range(lists[q]) = IF q = "freequeue" THEN Range(BootFree) ELSE {}
  BY <1>2, RangeOfEmpty
<1>4. \A q \in Queues : IsInjective(lists[q])
  BY <1>2, RangeOfEmpty, TaskAssumption
<1>5. \A t \in Tasks : state[t] = "ST_RUN"
  BY DEF SchedInit
<1>6. Sound(lists, state)
  <2>1. \A q \in Queues : \A t \in Range(lists[q]) : state[t] = StateIn(q)
    BY <1>3, <1>5, StateInFacts, TaskAssumption
  <2>2. state[Idle] # "ST_BLOCKED"
    BY <1>5, TaskAssumption
  <2> QED BY <1>1, <1>3, <1>4, <2>1, <2>2, TaskAssumption DEF Sound, SchedTypeOK
<1>7. Off(lists, current) /\ state[current] = "ST_RUN"
  BY <1>3, <1>5, TaskAssumption DEF Off, SchedInit
<1> QED BY <1>1, <1>6, <1>7, SoundIsDiscipline DEF IInv

-----------------------------------------------------------------------------
(* Every handler has one of three shapes: it wakes some waiters W and       *)
(* returns to current; it wakes W, queues current on q and another task     *)
(* runs; or it takes a task_struct off the freequeue and queues it on q.    *)
(* The woken come from the lists of S.  Only sys_semCreate drops tasks      *)
(* from the list they wait on.                                              *)

Returns(W, m) ==
    /\ Releases(lists, m, W)
    /\ NoSwitch(m, Woken(state, W))
    /\ remaining_quantum' \in 1..Quantum

Leaves(W, m, q, call) ==
    /\ Releases(lists, m, W) /\ Keeps(lists, m, W)
    /\ q \in Queues /\ (current = Idle => q = "readyqueue")
    /\ call \in Frames \ {"boot"}
    /\ call = "sys_exit" <=> q = "freequeue"
    /\ call = "sys_getKey" <=> q = "blocked"
    /\ call = "sys_semWait" <=> q \in Sems
    /\ sched_next_rr(ListAddTail(m, current, q),
                     [Woken(state, W) EXCEPT ![current] = StateIn(q)], call)

Reuses(q, frame) ==
    /\ lists["freequeue"] # << >> /\ q \in {"freequeue", "readyqueue"}
    /\ frame \in Frames /\ (q = "readyqueue" => frame = "new")
    /\ lists' = ListAddTail([lists EXCEPT !["freequeue"] = Tail(lists["freequeue"])],
                            Head(lists["freequeue"]), q)
    /\ state' = [state EXCEPT ![Head(lists["freequeue"])] = StateIn(q)]
    /\ register_esp' = [register_esp EXCEPT ![Head(lists["freequeue"])] = frame]
    /\ UNCHANGED <<current, remaining_quantum, derailed>>

From(W, S) == \A t \in Range(W) : \E q \in S \cap WaitQueues : t \in Members(q)

Returning(S) == \E W, m : Returns(W, m) /\ Keeps(lists, m, W) /\ From(W, S)
Leaving(q, S) == \E W, m, call : Leaves(W, m, q, call) /\ From(W, S)
Reusing(q) == \E frame : Reuses(q, frame)
Creating(s) == InitSemList(s) /\ \E m : Returns(<< >>, m)

Shape ==
    \/ \E S : Returning(S)
    \/ \E q, S : Leaving(q, S)
    \/ \E q : Reusing(q)
    \/ \E s \in Sems : Creating(s)

\* Nobody is woken.
LEMMA NoRelease ==
    ASSUME IInv
    PROVE  /\ Releases(lists, lists, << >>) /\ Keeps(lists, lists, << >>)
           /\ Woken(state, << >>) = state /\ \A S : From(<< >>, S)
<1>1. Sound(lists, state) /\ lists["readyqueue"] \in Seq(Tasks)
  BY Facts, QueueNames DEF Sound
<1>2. Range(<< >>) = {} /\ IsInjective(<< >>) /\ << >> \in Seq(Tasks)
      /\ lists["readyqueue"] \o << >> = lists["readyqueue"]
  BY <1>1, RangeOfEmpty, EmptySeq, ConcatEmptySeq
<1>3. Releases(lists, lists, << >>)
  BY <1>1, <1>2, QueueNames DEF Releases, Sound
<1> QED BY <1>1, <1>2, <1>3 DEF Woken, Sound, Keeps, From

\* The first waiter of q is woken.
LEMMA OneRelease ==
    ASSUME IInv, NEW q \in WaitQueues, lists[q] # << >>
    PROVE  /\ Head(lists[q]) \in Tasks
           /\ state[Head(lists[q])] = "ST_BLOCKED"
           /\ Releases(lists,
                ListAddTail([lists EXCEPT ![q] = Tail(lists[q])], Head(lists[q]), "readyqueue"),
                <<Head(lists[q])>>)
           /\ Keeps(lists,
                ListAddTail([lists EXCEPT ![q] = Tail(lists[q])], Head(lists[q]), "readyqueue"),
                <<Head(lists[q])>>)
           /\ From(<<Head(lists[q])>>, {q})
           /\ Woken(state, <<Head(lists[q])>>) = [state EXCEPT ![Head(lists[q])] = "ST_READY"]
<1> DEFINE w == Head(lists[q])
           l == [lists EXCEPT ![q] = Tail(lists[q])]
           m == ListAddTail(l, w, "readyqueue")
           W == <<w>>
<1>1. Sound(lists, state) /\ q \in Queues /\ "readyqueue" \in Queues
      /\ q # "readyqueue" /\ q # "freequeue" /\ "freequeue" \in Queues
  BY Facts, QueueNames
<1>2. /\ Sound(l, state) /\ w \in Tasks /\ w \in Range(lists[q])
      /\ \A r \in Queues : Range(l[r]) = Range(lists[r]) \ {w}
  BY <1>1, SoundTakeFirst
<1>3. state[w] = "ST_BLOCKED"
  BY <1>1, <1>2, StateInFacts DEF Sound
<1>4. lists \in [Queues -> Seq(Tasks)] /\ state \in [Tasks -> States]
      /\ \A r \in Queues : IsInjective(l[r])
  BY <1>1, <1>2 DEF Sound
<1>5. W \in Seq(Tasks) /\ Range(W) = {w} /\ IsInjective(W)
      /\ Append(lists["readyqueue"], w) = lists["readyqueue"] \o W
      /\ Append(lists["readyqueue"], w) \in Seq(Tasks)
  <2>1. W \in Seq(Tasks) /\ DOMAIN W = {1} /\ W[1] = w
    BY <1>2
  <2>2. Range(W) = {w} /\ IsInjective(W)
    BY <2>1 DEF Range, IsInjective
  <2>3. lists["readyqueue"] \in Seq(Tasks)
    BY <1>1, <1>4
  <2> QED BY <1>2, <2>1, <2>2, <2>3, AppendIsConcat, AppendFacts
<1>6. l \in [Queues -> Seq(Tasks)] /\ l["readyqueue"] = lists["readyqueue"]
      /\ l["freequeue"] = lists["freequeue"]
  BY <1>1, <1>2, <1>4 DEF Sound
<1>7. Woken(state, W) = [state EXCEPT ![w] = "ST_READY"]
  BY <1>2, <1>4, <1>5 DEF Woken
<1> HIDE DEF w, l, W
<1>8. m \in [Queues -> Seq(Tasks)] /\ m["readyqueue"] = lists["readyqueue"] \o W
      /\ \A r \in Queues \ {"readyqueue"} : m[r] = l[r]
  BY <1>1, <1>5, <1>6 DEF ListAddTail
<1> HIDE DEF m
<1>9. \A t \in Range(W) : \E r \in WaitQueues : t \in Range(lists[r])
  BY <1>2, <1>5
<1>10. \A r \in WaitQueues : IsInjective(m[r]) /\ Range(m[r]) \subseteq Range(lists[r]) \ Range(W)
  BY <1>2, <1>4, <1>5, <1>8, QueueNames
<1>11. Releases(lists, m, W)
  BY <1>1, <1>5, <1>6, <1>8, <1>9, <1>10 DEF Releases
<1>12. Keeps(lists, m, W) /\ From(W, {q})
  BY <1>2, <1>5, <1>8, QueueNames DEF Keeps, From, Members
<1> QED BY <1>2, <1>3, <1>7, <1>11, <1>12 DEF w, l, m, W

\* clock_routine: expired waiters are released, then schedule().
LEMMA ClockShape == ASSUME IInv, NEW expired, Clock(expired)
    PROVE  Returning({"blocked"}) \/ Leaving("readyqueue", {"blocked"})
<1> DEFINE W == Keep(lists["blocked"], expired)
           m == Expire(lists, expired)
           st == [t \in Tasks |-> IF t \in Members("blocked") \cap expired
                                  THEN "ST_READY" ELSE state[t]]
<1>1. Sound(lists, state) /\ Off(lists, current) /\ state[current] = "ST_RUN"
      /\ SchedTypeOK /\ current \in Tasks /\ remaining_quantum \in 1..Quantum
  BY Facts
<1>2. lists["blocked"] \in Seq(Tasks) /\ lists["readyqueue"] \in Seq(Tasks)
      /\ IsInjective(lists["blocked"]) /\ lists \in [Queues -> Seq(Tasks)]
  BY <1>1, QueueNames DEF Sound
<1>3. W \in Seq(Tasks) /\ Range(W) = Members("blocked") \cap expired /\ IsInjective(W)
  BY <1>2, KeepFacts DEF Members
<1> DEFINE stay == Keep(lists["blocked"], Range(lists["blocked"]) \ expired)
<1>4. /\ stay \in Seq(Tasks) /\ IsInjective(stay)
      /\ Range(stay) = Members("blocked") \cap (Members("blocked") \ expired)
  BY <1>2, KeepFacts DEF Members
<1>5. m = [lists EXCEPT !["blocked"] = stay, !["readyqueue"] = @ \o W]
  BY DEF Expire
<1> HIDE DEF W, stay
<1>6. lists["readyqueue"] \o W \in Seq(Tasks)
  BY <1>2, <1>3, ConcatFacts
<1>7. /\ m \in [Queues -> Seq(Tasks)]
      /\ m["readyqueue"] = lists["readyqueue"] \o W
      /\ m["blocked"] = stay
      /\ \A q \in Queues \ {"readyqueue", "blocked"} : m[q] = lists[q]
  BY <1>2, <1>4, <1>5, <1>6, QueueNames
<1> HIDE DEF m
<1>8. \A q \in WaitQueues : IsInjective(m[q]) /\ Range(m[q]) \subseteq Range(lists[q]) \ Range(W)
  <2> SUFFICES ASSUME NEW q \in WaitQueues
               PROVE  IsInjective(m[q]) /\ Range(m[q]) \subseteq Range(lists[q]) \ Range(W)
    OBVIOUS
  <2>1. CASE q = "blocked"
    BY <1>3, <1>4, <1>7, <2>1 DEF Members
  <2>2. CASE q # "blocked"
    BY <1>1, <1>3, <1>7, <2>2, QueueNames DEF Members, Sound
  <2> QED BY <2>1, <2>2
<1>9. \A t \in Range(W) : \E q \in WaitQueues : t \in Range(lists[q])
  BY <1>3, QueueNames DEF Members
<1>10. st = Woken(state, W)
  BY <1>3 DEF Woken
<1>11. Releases(lists, m, W)
  BY <1>3, <1>7, <1>8, <1>9, QueueNames DEF Releases
<1> HIDE DEF st
<1>12. st[current] = "ST_RUN" /\ Keeps(lists, m, W)
      /\ From(W, {"blocked"})
  <2>1. \A q \in WaitQueues : Range(lists[q]) \subseteq Range(m[q]) \cup Range(W)
    BY <1>3, <1>4, <1>7, QueueNames DEF Members
  <2> QED BY <1>1, <1>10, <1>11, <2>1, <1>3, SoundRelease, QueueNames DEF Keeps, From
<1>13. schedule(m, st)
  BY DEF Clock, m, st
<1> DEFINE quantum == remaining_quantum - 1
<1>14. CASE needs_sched_rr(m, quantum)
  <2>1. sched_next_rr(update_process_state_rr(m, st, current, "readyqueue"),
                      [st EXCEPT ![current] = "ST_READY"], "clock_routine")
    BY <1>13, <1>14 DEF schedule
  <2>2. update_process_state_rr(m, st, current, "readyqueue")
          = ListAddTail(m, current, "readyqueue")
    BY <1>12 DEF update_process_state_rr
  <2>3. "clock_routine" \in Frames \ {"boot"}
    BY DEF Frames
  <2>4. Leaves(W, m, "readyqueue", "clock_routine")
    BY <1>10, <1>11, <1>12, <2>1, <2>2, <2>3, StateInFacts, QueueNames DEF Leaves
  <2> QED BY <1>12, <2>4 DEF Leaving
<1>15. CASE ~needs_sched_rr(m, quantum)
  <2>1. NoSwitch(m, st) /\ remaining_quantum' = Renewed(quantum)
    BY <1>13, <1>15 DEF schedule
  <2>2. remaining_quantum' \in 1..Quantum
    BY <1>1, <2>1, QuantumAssumption DEF Renewed
  <2>3. Returns(W, m)
    BY <1>10, <1>11, <2>1, <2>2 DEF Returns
  <2> QED BY <1>12, <2>3 DEF Returning
<1> QED BY <1>14, <1>15

\* keyboard_routine.
LEMMA WakeKeyWaiterShape == ASSUME IInv, WakeKeyWaiter PROVE Returning({"blocked"})
<1>1. remaining_quantum' \in 1..Quantum
  BY Facts DEF WakeKeyWaiter
<1>2. CASE lists["blocked"] = << >>
  <2>1. Returns(<< >>, lists)
    BY <1>1, <1>2, NoRelease DEF WakeKeyWaiter, Returns
  <2> QED BY <2>1, NoRelease DEF Returning
<1>3. CASE lists["blocked"] # << >>
  <2> DEFINE w == Head(lists["blocked"])
             m == ListAddTail([lists EXCEPT !["blocked"] = Tail(lists["blocked"])],
                              w, "readyqueue")
  <2>1. NoSwitch(m, [state EXCEPT ![w] = "ST_READY"])
    BY <1>3 DEF WakeKeyWaiter
  <2>2. /\ Releases(lists, m, <<w>>) /\ Keeps(lists, m, <<w>>) /\ From(<<w>>, {"blocked"})
        /\ Woken(state, <<w>>) = [state EXCEPT ![w] = "ST_READY"]
    BY <1>3, OneRelease, QueueNames
  <2> HIDE DEF w, m
  <2>3. Returns(<<w>>, m)
    BY <1>1, <2>1, <2>2 DEF Returns
  <2> QED BY <2>2, <2>3 DEF Returning
<1> QED BY <1>2, <1>3

\* current is queued on q and another task runs: sys_yield, and the calls
\* that block.
LEMMA RequeueShape ==
    ASSUME IInv, NEW q \in Queues \ {"freequeue"}, current = Idle => q = "readyqueue",
           NEW call \in Frames \ {"boot", "sys_exit"},
           call = "sys_getKey" <=> q = "blocked", call = "sys_semWait" <=> q \in Sems,
           sched_next_rr(update_process_state_rr(lists, state, current, q),
                         [state EXCEPT ![current] = StateOn(q)], call)
    PROVE  Leaving(q, {})
<1>1. update_process_state_rr(lists, state, current, q) = ListAddTail(lists, current, q)
  BY Facts DEF update_process_state_rr
<1>2. StateOn(q) = StateIn(q)
  BY StateInFacts, QueueNames DEF StateOn, StateIn
<1>3. Leaves(<< >>, lists, q, call)
  BY <1>1, <1>2, NoRelease DEF Leaves
<1> QED BY <1>3, NoRelease DEF Leaving

\* sys_yield.
LEMMA YieldShape == ASSUME IInv, Yield PROVE Leaving("readyqueue", {})
<1>1. StateOn("readyqueue") = "ST_READY" /\ "sys_yield" \in Frames \ {"boot", "sys_exit"}
  BY DEF StateOn, Frames
<1> QED BY <1>1, RequeueShape, QueueNames DEF Yield

\* sys_semWait and sys_getKey when they block.
LEMMA BlockShape ==
    ASSUME IInv, NEW q \in WaitQueues,
           NEW call \in BlockCalls, Block(q, call), call = "sys_getKey" <=> q = "blocked"
    PROVE  Leaving(q, {})
<1>1. /\ call \in Frames \ {"boot", "sys_exit"}
      /\ q \in Queues \ {"freequeue"} /\ q # "readyqueue"
      /\ call = "sys_semWait" <=> q \in Sems
  BY QueueNames DEF Frames, BlockCalls, WaitQueues
<1> QED BY <1>1, RequeueShape, QueueNames DEF Block, Syscall

\* sys_fork and sys_create_thread.
LEMMA SpawnShape == ASSUME IInv, Spawn PROVE Reusing("readyqueue")
<1>1. Reuses("readyqueue", "new")
  BY StateInFacts DEF Spawn, Reuses, Frames
<1> QED BY <1>1 DEF Reusing

\* Their -EAGAIN paths.
LEMMA SpawnFailsShape == ASSUME IInv, SpawnFails PROVE Reusing("freequeue")
<1> DEFINE child == Head(lists["freequeue"])
           l == [lists EXCEPT !["freequeue"] = Tail(lists["freequeue"])]
<1>1. SchedTypeOK /\ state[current] = "ST_RUN" /\ lists \in [Queues -> Seq(Tasks)]
      /\ register_esp[current] \in Frames
  BY Facts DEF SchedTypeOK
<1>2. lists' = ListAddTail(l, child, "freequeue")
  BY <1>1, QueueNames DEF SpawnFails, ListAddTail
<1>3. state' = [state EXCEPT ![child] = StateIn("freequeue")]
  BY <1>1, StateInFacts DEF SpawnFails
<1>4. Reuses("freequeue", register_esp[current])
  BY <1>1, <1>2, <1>3 DEF SpawnFails, Reuses
<1> QED BY <1>4 DEF Reusing

\* sys_semSignal moves the first waiter to the end of the readyqueue.
LEMMA WakeFirstLists ==
    ASSUME IInv, NEW s \in Sems, WakeFirst(s)
    PROVE  /\ lists' = ListAddTail([lists EXCEPT ![s] = Tail(lists[s])],
                                   Head(lists[s]), "readyqueue")
           /\ Head(lists[s]) \in Members(s)
<1> DEFINE w == Head(lists[s])
<1>1. Sound(lists, state) /\ s \in WaitQueues /\ s \in Queues /\ lists[s] # << >>
  BY Facts, QueueNames DEF WakeFirst
<1>2. w \in Range(lists[s]) /\ state[w] = "ST_BLOCKED"
  BY <1>1, SoundTakeFirst, OneRelease
<1>3. ListDel(lists, w) = [lists EXCEPT ![s] = Tail(lists[s])]
  <2>1. /\ lists \in [Queues -> Seq(Tasks)] /\ IsInjective(lists[s])
        /\ \A q \in Queues \ {s} : w \notin Range(lists[q])
    BY <1>1, <1>2 DEF Sound
  <2>2. Keep(lists[s], Range(lists[s]) \ {w}) = Tail(lists[s])
    BY <1>1, <2>1, KeepAllAndTail
  <2>3. \A q \in Queues \ {s} : Keep(lists[q], Range(lists[q]) \ {w}) = lists[q]
    BY <2>1, KeepAllAndTail
  <2> HIDE DEF w
  <2> QED BY <2>1, <2>2, <2>3 DEF ListDel
<1>4. lists' = update_process_state_rr(lists, state, w, "readyqueue")
  BY DEF WakeFirst, NoSwitch
<1> QED BY <1>2, <1>3, <1>4 DEF update_process_state_rr, Members

\* Waking the first waiter only makes it ready.
LEMMA WakeFirstShape == ASSUME IInv, NEW s \in Sems, WakeFirst(s) PROVE Returning({s})
<1> DEFINE w == Head(lists[s])
           m == ListAddTail([lists EXCEPT ![s] = Tail(lists[s])], w, "readyqueue")
<1>1. Sound(lists, state) /\ s \in WaitQueues /\ s \in Queues /\ lists[s] # << >>
      /\ remaining_quantum' \in 1..Quantum
  BY Facts, QueueNames DEF WakeFirst
<1>2. /\ Releases(lists, m, <<w>>) /\ Keeps(lists, m, <<w>>)
      /\ From(<<w>>, {s})
      /\ Woken(state, <<w>>) = [state EXCEPT ![w] = "ST_READY"]
  BY <1>1, OneRelease
<1>3. lists' = m
  BY WakeFirstLists
<1>4. NoSwitch(lists', [state EXCEPT ![w] = "ST_READY"])
  BY DEF WakeFirst, NoSwitch
<1> HIDE DEF w, m
<1>5. Returns(<<w>>, m)
  BY <1>1, <1>2, <1>3, <1>4 DEF Returns
<1> QED BY <1>2, <1>5 DEF Returning

\* sys_semDestroy.
LEMMA WakeAllShape == ASSUME IInv, NEW s \in Sems, WakeAll(s) PROVE Returning({s})
<1> DEFINE W == lists[s]
           m == [lists EXCEPT ![s] = << >>, !["readyqueue"] = @ \o W]
           st == [t \in Tasks |-> IF t \in Members(s) THEN "ST_READY" ELSE state[t]]
<1>1. Sound(lists, state) /\ remaining_quantum' \in 1..Quantum
  BY Facts DEF WakeAll
<1>2. s \in WaitQueues /\ s \in Queues /\ s # "readyqueue" /\ s # "freequeue"
  BY QueueNames
<1>3. W \in Seq(Tasks) /\ IsInjective(W) /\ lists["readyqueue"] \in Seq(Tasks)
      /\ lists \in [Queues -> Seq(Tasks)] /\ Range(W) = Members(s)
  BY <1>1, <1>2, QueueNames DEF Sound, Members
<1>4. lists["readyqueue"] \o W \in Seq(Tasks) /\ << >> \in Seq(Tasks)
  BY <1>3, ConcatFacts
<1>5. /\ m \in [Queues -> Seq(Tasks)]
      /\ m["readyqueue"] = lists["readyqueue"] \o W
      /\ m[s] = << >>
      /\ \A q \in Queues \ {"readyqueue", s} : m[q] = lists[q]
  BY <1>2, <1>3, <1>4, QueueNames
<1>6. NoSwitch(m, st) /\ st = Woken(state, W)
  BY <1>3 DEF WakeAll, Woken
<1> HIDE DEF W, m, st
<1>7. \A q \in WaitQueues : IsInjective(m[q]) /\ Range(m[q]) \subseteq Range(lists[q]) \ Range(W)
  BY <1>1, <1>2, <1>3, <1>5, RangeOfEmpty, QueueNames DEF Sound, Members
<1>8. Releases(lists, m, W)
  BY <1>2, <1>3, <1>5, <1>7, QueueNames DEF Releases, Members
<1>9. Returns(W, m)
  BY <1>1, <1>6, <1>8 DEF Returns
<1>10. Keeps(lists, m, W) /\ From(W, {s})
  BY <1>2, <1>3, <1>5, QueueNames DEF Keeps, Members, From
<1> QED BY <1>9, <1>10 DEF Returning

\* sys_semCreate.
LEMMA InitSemListShape == ASSUME IInv, NEW s \in Sems, InitSemList(s) PROVE Creating(s)
<1> DEFINE m == [lists EXCEPT ![s] = << >>]
<1>1. Sound(lists, state) /\ remaining_quantum' \in 1..Quantum
  BY Facts DEF InitSemList
<1>2. s \in Queues /\ s # "readyqueue" /\ s # "freequeue"
  BY QueueNames
<1>3. /\ m \in [Queues -> Seq(Tasks)]
      /\ m["readyqueue"] = lists["readyqueue"] /\ m["freequeue"] = lists["freequeue"]
      /\ \A q \in Queues : IsInjective(m[q]) /\ Range(m[q]) \subseteq Range(lists[q])
  BY <1>1, <1>2, RangeOfEmpty, QueueNames DEF Sound
<1>4. NoSwitch(m, state)
  BY DEF InitSemList
<1>5. Releases(lists, lists, << >>) /\ Woken(state, << >>) = state
  BY NoRelease
<1> HIDE DEF m
<1>6. Releases(lists, m, << >>)
  BY <1>3, <1>5, RangeOfEmpty, QueueNames DEF Releases
<1>7. Returns(<< >>, m)
  BY <1>1, <1>4, <1>5, <1>6 DEF Returns
<1> QED BY <1>7 DEF Creating

\* The semaphores a task owns, listed in any order.
LEMMA OwnedList ==
    ASSUME NEW S \in SUBSET Sems, NEW sems \in SetToSeqs(S)
    PROVE  /\ sems \in Seq(Queues) /\ IsInjective(sems)
           /\ Range(sems) \subseteq Sems
<1>1. IsFiniteSet(S)
  BY SemAssumption, FS_Subset
<1>2. Cardinality(S) \in Nat
  BY <1>1, FS_CardinalityType
<1>3. /\ sems \in [1..Cardinality(S) -> S]
      /\ \A i, j \in 1..Cardinality(S) : i # j => sems[i] # sems[j]
  BY DEF SetToSeqs
<1>4. sems \in Seq(S)
  BY <1>2, <1>3, SeqDef
<1>5. sems \in Seq(Queues)
  BY <1>2, <1>3, SeqDef, QueueNames
<1>6. IsInjective(sems)
  BY <1>3 DEF IsInjective
<1>7. Range(sems) \subseteq Sems
  BY <1>3 DEF Range
<1> QED BY <1>5, <1>6, <1>7

\* The tasks sys_exit releases are those that wait on the semaphores it owned.
LEMMA ExitWaiters ==
    ASSUME IInv, NEW S \in SUBSET Sems, NEW sems \in SetToSeqs(S)
    PROVE  /\ Chain(lists, sems) \in Seq(Tasks) /\ IsInjective(Chain(lists, sems))
           /\ \A t : t \in Range(Chain(lists, sems))
                      <=> \E q \in Range(sems) : t \in Members(q)
<1>1. /\ lists \in [Queues -> Seq(Tasks)] /\ sems \in Seq(Queues)
      /\ IsInjective(sems)
      /\ \A q \in Queues : IsInjective(lists[q])
      /\ \A q, r \in Queues : q # r => Range(lists[q]) \cap Range(lists[r]) = {}
  BY OwnedList, Facts DEF Sound
<1>2. Chain(lists, sems) \in Seq(Tasks) /\ IsInjective(Chain(lists, sems))
  BY ONLY <1>1, ChainFacts
<1>3. \A t : t \in Range(Chain(lists, sems))
                <=> \E q \in Range(sems) : t \in Range(lists[q])
  <2>1. lists \in [Queues -> Seq(Tasks)] /\ sems \in Seq(Queues)
    BY <1>1
  <2> QED BY ONLY <2>1, ChainFacts
<1> QED BY <1>2, <1>3 DEF Members

\* sys_exit.
LEMMA ExitShape ==
    ASSUME IInv, NEW S \in SUBSET Sems, NEW sems \in SetToSeqs(S), Exit(sems)
    PROVE  Leaving("freequeue", Range(sems))
<1> DEFINE W == Chain(lists, sems)
           m == [q \in Queues |-> CASE q \in Range(sems) -> << >>
                                    [] q = "readyqueue"   -> Ready \o W
                                    [] OTHER              -> lists[q]]
           m2 == [q \in Queues |-> CASE q \in Range(sems) -> << >>
                                     [] q = "readyqueue"   -> Ready \o W
                                     [] q = "freequeue"    -> Append(lists[q], current)
                                     [] OTHER              -> lists[q]]
           st == [t \in Tasks |-> IF t \in Range(W) THEN "ST_READY" ELSE state[t]]
<1>1. Sound(lists, state) /\ Off(lists, current) /\ state[current] = "ST_RUN"
      /\ SchedTypeOK /\ current \in Tasks
  BY Facts
<1>2. /\ lists \in [Queues -> Seq(Tasks)] /\ Ready \in Seq(Tasks)
      /\ \A q \in Queues : IsInjective(lists[q])
      /\ \A q, r \in Queues : q # r => Range(lists[q]) \cap Range(lists[r]) = {}
  BY <1>1, QueueNames DEF Sound, Ready
<1>3. /\ sems \in Seq(Queues) /\ IsInjective(sems)
      /\ Range(sems) \subseteq WaitQueues
      /\ "freequeue" \notin Range(sems) /\ "readyqueue" \notin Range(sems)
  BY OwnedList, QueueNames
<1>4. /\ W \in Seq(Tasks) /\ IsInjective(W)
      /\ \A t : t \in Range(W) <=> \E q \in Range(sems) : t \in Range(lists[q])
  BY ExitWaiters DEF Members
<1>5. current # Idle /\ sched_next_rr(m2, st, "sys_exit")
  BY DEF Exit, Syscall
<1> HIDE DEF W
<1>6. Ready \o W \in Seq(Tasks) /\ << >> \in Seq(Tasks)
  BY <1>2, <1>4, ConcatFacts
<1>7. /\ m \in [Queues -> Seq(Tasks)]
      /\ m["readyqueue"] = Ready \o W
      /\ m["freequeue"] = lists["freequeue"]
      /\ \A q \in WaitQueues : m[q] = IF q \in Range(sems) THEN << >> ELSE lists[q]
  BY <1>2, <1>3, <1>6, QueueNames
<1>8. st = Woken(state, W)
  BY DEF Woken
<1>9. m2 = ListAddTail(m, current, "freequeue")
  BY <1>3, <1>7, QueueNames DEF ListAddTail
<1> HIDE DEF m, m2, st
<1>10. \A q \in WaitQueues : IsInjective(m[q]) /\ Range(m[q]) \subseteq Range(lists[q]) \ Range(W)
  <2> SUFFICES ASSUME NEW q \in WaitQueues
               PROVE  IsInjective(m[q]) /\ Range(m[q]) \subseteq Range(lists[q]) \ Range(W)
    OBVIOUS
  <2>1. CASE q \in Range(sems)
    BY <1>7, <2>1, RangeOfEmpty
  <2>2. CASE q \notin Range(sems)
    <3>1. m[q] = lists[q] /\ q \in Queues
      BY <1>7, <2>2, QueueNames
    <3>2. \A r \in Range(sems) : Range(lists[q]) \cap Range(lists[r]) = {}
      BY <1>2, <1>3, <2>2, <3>1, QueueNames
    <3> QED BY <1>2, <1>4, <3>1, <3>2
  <2> QED BY <2>1, <2>2
<1>11. \A t \in Range(W) : \E q \in WaitQueues : t \in Range(lists[q])
  BY <1>3, <1>4
<1>12. Releases(lists, m, W)
  BY <1>4, <1>7, <1>10, <1>11 DEF Releases, Ready
<1>13. st[current] = "ST_RUN" /\ st \in [Tasks -> States]
  BY <1>1, <1>8, <1>12, SoundRelease DEF Sound
<1>14. [st EXCEPT ![current] = StateIn("freequeue")] = st
  BY <1>13, StateInFacts
<1>15. "sys_exit" \in Frames \ {"boot"}
  BY DEF Frames
<1>16. Keeps(lists, m, W) /\ From(W, Range(sems))
  BY <1>3, <1>4, <1>7 DEF Keeps, From, Members
<1>17. Leaves(W, m, "freequeue", "sys_exit")
  BY <1>5, <1>8, <1>9, <1>12, <1>14, <1>15, <1>16, QueueNames DEF Leaves
<1> QED BY <1>16, <1>17 DEF Leaving

\* Every step of the scheduler has one of the shapes.
LEMMA NextShape == IInv /\ [SchedNext]_schedVars => Shape
<1> SUFFICES ASSUME IInv, [SchedNext]_schedVars PROVE Shape
  OBVIOUS
<1>1. CASE Tick
  BY <1>1, ClockShape DEF Tick, Shape
<1>2. CASE WakeKeyWaiter
  BY <1>2, WakeKeyWaiterShape DEF Shape
<1>3. CASE Yield
  BY <1>3, YieldShape DEF Shape
<1>4. CASE Spawn
  BY <1>4, SpawnShape DEF Shape
<1>5. CASE SpawnFails
  BY <1>5, SpawnFailsShape DEF Shape
<1>6. CASE \E S \in SUBSET Sems : \E sems \in SetToSeqs(S) : Exit(sems)
  BY <1>6, ExitShape DEF Shape
<1>7. CASE Block("blocked", "sys_getKey")
  BY <1>7, BlockShape, QueueNames DEF BlockCalls, Shape
<1>8. ASSUME NEW s \in Sems, Block(s, "sys_semWait") PROVE Shape
  BY <1>8, BlockShape, QueueNames DEF BlockCalls, Shape
<1>9. ASSUME NEW s \in Sems, WakeFirst(s) PROVE Shape
  BY <1>9, WakeFirstShape DEF Shape
<1>10. ASSUME NEW s \in Sems, WakeAll(s) PROVE Shape
  BY <1>10, WakeAllShape DEF Shape
<1>11. ASSUME NEW s \in Sems, InitSemList(s) PROVE Shape
  BY <1>11, InitSemListShape DEF Shape
<1>12. CASE UNCHANGED schedVars
  <2>1. NoSwitch(lists, state) /\ remaining_quantum' \in 1..Quantum
    BY <1>12, Facts DEF schedVars, NoSwitch
  <2>2. Returns(<< >>, lists)
    BY <2>1, NoRelease DEF Returns
  <2> QED BY <2>2, NoRelease DEF Shape, Returning
<1> QED BY <1>1, <1>2, <1>3, <1>4, <1>5, <1>6, <1>7, <1>8, <1>9, <1>10, <1>11, <1>12
        DEF SchedNext, Derailed
-----------------------------------------------------------------------------
(* The shapes preserve the invariant.                                       *)

\* A handler that returns.
LEMMA ReturnsInv == ASSUME IInv, NEW W, NEW m, Returns(W, m) PROVE IInv'
<1>1. Sound(m, Woken(state, W)) /\ Off(m, current) /\ Woken(state, W)[current] = "ST_RUN"
  BY Facts, SoundRelease DEF Returns
<1> QED BY <1>1, Facts, SoundReturn DEF Returns, IInv

\* What a handler that switches has done when it comes to the switch.
LEMMA LeavesFacts ==
    ASSUME IInv, NEW W, NEW m, NEW q, NEW call, Leaves(W, m, q, call)
    PROVE  /\ Sound(ListAddTail(m, current, q),
                    [Woken(state, W) EXCEPT ![current] = StateIn(q)])
           /\ \A r \in Queues : \A t :
                t \in Range(ListAddTail(m, current, q)[r])
                  <=> t \in Range(m[r]) \/ (t = current /\ r = q)
<1> DEFINE st == Woken(state, W)
           st2 == [st EXCEPT ![current] = StateIn(q)]
<1>1. Sound(m, st) /\ Off(m, current) /\ current \in Tasks
  BY Facts, SoundRelease DEF Leaves
<1>2. q \in Queues /\ (current = Idle => q = "readyqueue")
  BY DEF Leaves
<1>3. st \in [Tasks -> States] /\ StateIn(q) \in States
  BY <1>1, <1>2, StateInFacts DEF Sound
<1> HIDE DEF st
<1>4. st2 \in [Tasks -> States] /\ st2[current] = StateIn(q)
      /\ \A u \in Tasks \ {current} : st2[u] = st[u]
  BY <1>1, <1>3
<1> HIDE DEF st2
<1>5. /\ Sound(ListAddTail(m, current, q), st2)
      /\ \A r \in Queues : Range(ListAddTail(m, current, q)[r])
           = IF r = q THEN Range(m[q]) \cup {current} ELSE Range(m[r])
  BY <1>1, <1>2, <1>4, SoundAddTail
<1> QED BY <1>5 DEF st2, st

\* A handler that switches.
LEMMA LeavesInv ==
    ASSUME IInv, NEW W, NEW m, NEW q, NEW call, Leaves(W, m, q, call)
    PROVE  IInv'
<1>1. Sound(ListAddTail(m, current, q), [Woken(state, W) EXCEPT ![current] = StateIn(q)])
  BY LeavesFacts
<1>2. call \in Frames
      /\ sched_next_rr(ListAddTail(m, current, q),
                       [Woken(state, W) EXCEPT ![current] = StateIn(q)], call)
  BY DEF Leaves
<1> QED BY <1>1, <1>2, Facts, SoundNext DEF IInv

\* A task_struct taken off the freequeue is queued on q, ready or free again.
LEMMA ReusesFacts ==
    ASSUME IInv, NEW q, NEW frame, Reuses(q, frame), NEW child,
           child = Head(lists["freequeue"])
    PROVE  /\ IInv'
           /\ child \in Range(lists["freequeue"]) /\ child \in Tasks \ {current, Idle}
           /\ \A r \in Queues : Range(lists'[r])
                = IF r = q THEN Range(lists[r]) \cup {child} ELSE Range(lists[r]) \ {child}
<1> DEFINE l == [lists EXCEPT !["freequeue"] = Tail(lists["freequeue"])]
<1>1. Sound(lists, state) /\ Off(lists, current) /\ state[current] = "ST_RUN"
      /\ SchedTypeOK /\ current \in Tasks
  BY Facts
<1>2. /\ lists["freequeue"] # << >> /\ q \in Queues /\ q \in {"freequeue", "readyqueue"}
      /\ lists' = ListAddTail(l, child, q)
      /\ state' = [state EXCEPT ![child] = StateIn(q)]
      /\ register_esp' = [register_esp EXCEPT ![child] = frame] /\ frame \in Frames
      /\ UNCHANGED <<current, remaining_quantum, derailed>>
  BY QueueNames DEF Reuses
<1>3. /\ Sound(l, state) /\ Off(l, child) /\ child \in Tasks
      /\ child \in Range(lists["freequeue"])
      /\ \A r \in Queues : Range(l[r]) = Range(lists[r]) \ {child}
  BY <1>1, <1>2, SoundTakeFirst, QueueNames
<1> HIDE DEF l
<1>4. child # Idle /\ child # current
  BY <1>1, <1>3, QueueNames DEF Sound, Off
<1>5. state' \in [Tasks -> States] /\ state'[child] = StateIn(q)
      /\ \A u \in Tasks \ {child} : state'[u] = state[u]
  BY <1>1, <1>2, <1>3, StateInFacts DEF Sound
<1>6. /\ Sound(lists', state')
      /\ \A r \in Queues : Range(lists'[r])
           = IF r = q THEN Range(l[q]) \cup {child} ELSE Range(l[r])
  <2>1. /\ Sound(ListAddTail(l, child, q), state')
        /\ \A r \in Queues : Range(ListAddTail(l, child, q)[r])
             = IF r = q THEN Range(l[q]) \cup {child} ELSE Range(l[r])
    <3>1. q \in Queues /\ child \in Tasks /\ Sound(l, state) /\ Off(l, child)
          /\ (child = Idle => q = "readyqueue")
      BY <1>2, <1>3, <1>4
    <3>2. state' \in [Tasks -> States] /\ state'[child] = StateIn(q)
          /\ \A u \in Tasks \ {child} : state'[u] = state[u]
      BY <1>5
    <3> QED BY <3>1, <3>2, SoundAddTail
  <2> QED BY <1>2, <2>1
<1>7. \A r \in Queues : Range(lists'[r])
        = IF r = q THEN Range(lists[r]) \cup {child} ELSE Range(lists[r]) \ {child}
  BY <1>2, <1>3, <1>6
<1>8. Off(lists', current') /\ state'[current'] = "ST_RUN"
  BY <1>1, <1>2, <1>4, <1>5, <1>7 DEF Off
<1>9. SchedTypeOK'
  BY <1>1, <1>2, <1>6 DEF SchedTypeOK, Sound
<1> QED BY <1>3, <1>4, <1>6, <1>7, <1>8, <1>9, SoundIsDisciplineNext DEF IInv

\* Every handler preserves the invariant.
LEMMA NextInv == IInv /\ [SchedNext]_schedVars => IInv'
BY NextShape, ReturnsInv, LeavesInv, ReusesFacts
   DEF Shape, Returning, Leaving, Reusing, Creating

\* For any number of tasks and semaphores and any quantum: every variable
\* keeps its type, so no sched_next_rr ever picks what is not a task.
THEOREM SchedTypeCorrect == SchedSpec => []SchedTypeOK
<1>1. IInv => SchedTypeOK
  BY DEF IInv
<1> QED BY <1>1, InitInv, NextInv, PTL DEF SchedSpec

\* The list discipline: the one link field of a task_struct is on at most one
\* list, at most once, never for the running task, and state says on which
\* kind of list it is.
THEOREM ListDiscipline == SchedSpec => []Discipline
<1>1. IInv => Discipline
  BY DEF IInv
<1> QED BY <1>1, InitInv, NextInv, PTL DEF SchedSpec
-----------------------------------------------------------------------------
(* The life of the tasks.  UnlistedBlocked and SuspendedHasFrame are not    *)
(* inductive: what state says has to determine where a task is, and every   *)
(* task that may be resumed later, not only those that are ready, needs its *)
(* frame.                                                                   *)

\* A ready task is on the readyqueue; a task whose state is ST_RUN runs, is
\* free, or is idle before its first turn.
Settled ==
    \A t \in Tasks :
        /\ state[t] = "ST_READY" => t \in Members("readyqueue")
        /\ state[t] = "ST_RUN" => \/ t = current \/ t \in Members("freequeue")
                                  \/ t = Idle /\ register_esp[t] = "new"

\* Every task_struct in use has a frame, except that of the running task.
FramesKept ==
    \A t \in Tasks \ Members("freequeue") :
        t # current => register_esp[t] \notin {"boot", "sys_exit"}

LifeInv == IInv /\ Settled /\ FramesKept

\* The life of a suspended task, by the lists and the states alone.
LifeIn(l, st, t) ==
    IF t \in Range(l["freequeue"]) THEN "free"
    ELSE IF t \in Range(l["readyqueue"]) THEN "ready"
    ELSE IF st[t] = "ST_RUN" THEN "reserve" ELSE "waiting"

\* LifeOf reads it off.
LEMMA LifeOfIs ==
    ASSUME IInv
    PROVE  \A t \in Tasks :
             LifeOf(t) = IF t = current THEN "running" ELSE LifeIn(lists, state, t)
<1> SUFFICES ASSUME NEW t \in Tasks
             PROVE  LifeOf(t) = IF t = current THEN "running" ELSE LifeIn(lists, state, t)
  OBVIOUS
<1>1. Sound(lists, state) /\ Off(lists, current)
  BY Facts
<1>2. \A q \in WaitQueues : t \in Range(lists[q]) => state[t] = "ST_BLOCKED"
  BY <1>1, QueueNames, StateInFacts DEF Sound
<1>3. Unlisted(t) <=> t # current /\ Off(lists, t)
  BY DEF Unlisted, Off, Members
<1>4. state[t] = "ST_RUN" => (Off(lists, t) <=> /\ t \notin Range(lists["freequeue"])
                                                /\ t \notin Range(lists["readyqueue"]))
  BY <1>2, QueueNames DEF Off
<1>5. t = current => t \notin Range(lists["freequeue"]) /\ t \notin Range(lists["readyqueue"])
  BY <1>1, QueueNames DEF Off
<1>6. t \notin Range(lists["freequeue"]) \cap Range(lists["readyqueue"])
  BY <1>1, QueueNames DEF Sound
<1> QED BY <1>3, <1>4, <1>5, <1>6, QueueNames DEF LifeOf, LifeIn, Members, Off

\* The same after a step.
LEMMA LifeOfIsNext ==
    ASSUME IInv'
    PROVE  \A t \in Tasks :
             LifeOf(t)' = IF t = current' THEN "running" ELSE LifeIn(lists', state', t)
<1> SUFFICES ASSUME NEW t \in Tasks
             PROVE  LifeOf(t)' = IF t = current' THEN "running" ELSE LifeIn(lists', state', t)
  OBVIOUS
<1>1. /\ \A q \in Queues : current' \notin Range(lists'[q])
      /\ \A q, r \in Queues : q # r => Range(lists'[q]) \cap Range(lists'[r]) = {}
      /\ \A q \in WaitQueues : \A u \in Range(lists'[q]) : state'[u] = "ST_BLOCKED"
  BY DEF IInv, Discipline, OneList, CurrentUnlisted, StateAgrees, Members
<1>2. state'[t] = "ST_RUN" => (Off(lists', t) <=> /\ t \notin Range(lists'["freequeue"])
                                                  /\ t \notin Range(lists'["readyqueue"]))
  BY <1>1, QueueNames DEF Off
<1>3. Unlisted(t)' <=> t # current' /\ Off(lists', t)
  BY DEF Unlisted, Off, Members
<1>4. t = current' => t \notin Range(lists'["freequeue"]) /\ t \notin Range(lists'["readyqueue"])
  BY <1>1, QueueNames
<1>5. t \notin Range(lists'["freequeue"]) \cap Range(lists'["readyqueue"])
  BY <1>1, QueueNames
<1> QED BY <1>2, <1>3, <1>4, <1>5, QueueNames DEF LifeOf, LifeIn, Members, Off

\* Releasing W in terms of members.
LEMMA ReleaseSets ==
    ASSUME IInv, NEW W, NEW m, Releases(lists, m, W)
    PROVE  /\ Range(W) \subseteq Tasks \ {current, Idle}
           /\ \A t \in Range(W) : /\ state[t] = "ST_BLOCKED"
                                  /\ t \notin Range(lists["freequeue"])
                                  /\ t \notin Range(lists["readyqueue"])
           /\ Range(m["freequeue"]) = Range(lists["freequeue"])
           /\ Range(m["readyqueue"]) = Range(lists["readyqueue"]) \cup Range(W)
           /\ IsInjective(lists["readyqueue"] \o W)
           /\ \A t \in Tasks : Woken(state, W)[t]
                                 = IF t \in Range(W) THEN "ST_READY" ELSE state[t]
<1>1. Sound(lists, state) /\ Off(lists, current)
  BY Facts
<1>2. /\ W \in Seq(Tasks) /\ IsInjective(W)
      /\ \A t \in Range(W) : \E q \in WaitQueues : t \in Range(lists[q])
      /\ m["freequeue"] = lists["freequeue"] /\ m["readyqueue"] = lists["readyqueue"] \o W
  BY DEF Releases
<1>3. Range(W) \subseteq Tasks
  BY <1>2, ElementOfSeq, LenProperties DEF Range
<1>4. \A t \in Range(W) : /\ state[t] = "ST_BLOCKED"
                          /\ t \notin Range(lists["freequeue"])
                          /\ t \notin Range(lists["readyqueue"])
                          /\ t # current /\ t # Idle
  <2> SUFFICES ASSUME NEW t \in Range(W), NEW q \in WaitQueues, t \in Range(lists[q])
               PROVE  /\ state[t] = "ST_BLOCKED"
                      /\ t \notin Range(lists["freequeue"])
                      /\ t \notin Range(lists["readyqueue"])
                      /\ t # current /\ t # Idle
    BY <1>2
  <2> QED BY <1>1, QueueNames, StateInFacts DEF Sound, Off
<1>5. lists["readyqueue"] \in Seq(Tasks) /\ IsInjective(lists["readyqueue"])
  BY <1>1, QueueNames DEF Sound
<1>6. /\ Range(lists["readyqueue"] \o W) = Range(lists["readyqueue"]) \cup Range(W)
      /\ IsInjective(lists["readyqueue"] \o W)
  BY <1>2, <1>4, <1>5, ConcatFacts
<1>7. \A t \in Tasks : Woken(state, W)[t] = IF t \in Range(W) THEN "ST_READY" ELSE state[t]
  BY DEF Woken
<1> QED BY <1>2, <1>3, <1>4, <1>6, <1>7

\* A handler that returns has made some waiting tasks ready.
LEMMA ReturnsLife ==
    ASSUME LifeInv, NEW W, NEW m, Returns(W, m)
    PROVE  /\ LifeInv'
           /\ Range(W) \subseteq {t \in Tasks : LifeOf(t) = "waiting"}
           /\ \A t \in Tasks : LifeOf(t)' = IF t \in Range(W) THEN "ready" ELSE LifeOf(t)
<1>1. IInv /\ Settled /\ FramesKept /\ IInv' /\ Releases(lists, m, W)
  BY ReturnsInv DEF LifeInv, Returns
<1>2. lists' = m /\ state' = Woken(state, W) /\ current' = current /\ register_esp' = register_esp
  BY DEF Returns, NoSwitch
<1>3. /\ Range(W) \subseteq Tasks \ {current, Idle}
      /\ \A t \in Range(W) : /\ state[t] = "ST_BLOCKED"
                             /\ t \notin Range(lists["freequeue"])
                             /\ t \notin Range(lists["readyqueue"])
      /\ Range(m["freequeue"]) = Range(lists["freequeue"])
      /\ Range(m["readyqueue"]) = Range(lists["readyqueue"]) \cup Range(W)
      /\ \A t \in Tasks : Woken(state, W)[t] = IF t \in Range(W) THEN "ST_READY" ELSE state[t]
  BY <1>1, ReleaseSets
<1>4. Settled'
  BY <1>1, <1>2, <1>3 DEF Settled, Members
<1>5. FramesKept'
  BY <1>1, <1>2, <1>3 DEF FramesKept, Members
<1>6. \A t \in Tasks : LifeOf(t) = IF t = current THEN "running" ELSE LifeIn(lists, state, t)
  BY <1>1, LifeOfIs
<1>7. \A t \in Tasks : LifeOf(t)' = IF t = current' THEN "running" ELSE LifeIn(lists', state', t)
  BY <1>1, LifeOfIsNext
<1>8. \A t \in Range(W) : LifeOf(t) = "waiting" /\ LifeOf(t)' = "ready"
  BY <1>2, <1>3, <1>6, <1>7 DEF LifeIn
<1>9. \A t \in Tasks \ Range(W) : LifeOf(t)' = LifeOf(t)
  BY <1>2, <1>3, <1>6, <1>7 DEF LifeIn
<1> QED BY <1>1, <1>3, <1>4, <1>5, <1>8, <1>9 DEF LifeInv

\* What becomes of a task that is queued on q.
Fate(q) == IF q = "freequeue" THEN "free" ELSE IF q = "readyqueue" THEN "ready" ELSE "waiting"

\* A handler that switches has made some waiting tasks ready and current
\* what its queue says; the task that runs next was ready by then, or is idle
\* in reserve and nobody was.
LEMMA LeavesLife ==
    ASSUME LifeInv, NEW W, NEW m, NEW q, NEW call, Leaves(W, m, q, call),
           NEW M, M = [t \in Tasks |-> IF t = current THEN Fate(q)
                                       ELSE IF t \in Range(W) THEN "ready" ELSE LifeOf(t)]
    PROVE  /\ LifeInv'
           /\ Range(W) \subseteq {t \in Tasks : LifeOf(t) = "waiting"}
           /\ \A t \in Tasks : LifeOf(t)' = IF t = current' THEN "running" ELSE M[t]
           /\ \/ M[current'] = "ready"
              \/ M[current'] = "reserve" /\ \A v \in Tasks : M[v] # "ready"
<1> DEFINE l == ListAddTail(m, current, q)
           st == [Woken(state, W) EXCEPT ![current] = StateIn(q)]
           ready == l["readyqueue"]
           next == NextTask(ready)
<1>1. /\ IInv /\ Settled /\ FramesKept /\ Releases(lists, m, W)
      /\ q \in Queues /\ (current = Idle => q = "readyqueue")
      /\ call \in Frames \ {"boot"} /\ (call = "sys_exit" <=> q = "freequeue")
      /\ sched_next_rr(l, st, call)
  BY DEF LifeInv, Leaves
<1>2. /\ IInv' /\ Sound(l, st)
      /\ \A p \in Queues : \A t : t \in Range(l[p]) <=> t \in Range(m[p]) \/ (t = current /\ p = q)
  <2>1. IInv'
    BY <1>1, LeavesInv
  <2>2. /\ Sound(l, st)
        /\ \A p \in Queues : \A t : t \in Range(l[p]) <=> t \in Range(m[p]) \/ (t = current /\ p = q)
    BY <1>1, LeavesFacts
  <2> QED BY <2>1, <2>2
<1>3. /\ Range(W) \subseteq Tasks \ {current, Idle}
      /\ \A t \in Range(W) : /\ state[t] = "ST_BLOCKED"
                             /\ t \notin Range(lists["freequeue"])
                             /\ t \notin Range(lists["readyqueue"])
      /\ Range(m["freequeue"]) = Range(lists["freequeue"])
      /\ Range(m["readyqueue"]) = Range(lists["readyqueue"]) \cup Range(W)
      /\ \A t \in Tasks : Woken(state, W)[t] = IF t \in Range(W) THEN "ST_READY" ELSE state[t]
  BY <1>1, ReleaseSets
<1>4. current \in Tasks /\ state[current] = "ST_RUN" /\ Off(lists, current)
      /\ register_esp \in [Tasks -> Frames]
  BY <1>1, Facts DEF SchedTypeOK
<1>5. \A t \in Tasks : st[t] = IF t = current THEN StateIn(q)
                               ELSE IF t \in Range(W) THEN "ST_READY" ELSE state[t]
  <2>1. Woken(state, W) \in [Tasks -> {Woken(state, W)[t] : t \in Tasks}]
    BY DEF Woken
  <2> QED BY <1>3, <1>4, <2>1
<1>6. /\ lists' = IF ready # << >> THEN [l EXCEPT !["readyqueue"] = Tail(ready)] ELSE l
      /\ state' = [st EXCEPT ![next] = "ST_RUN"]
      /\ current' = next
      /\ register_esp' = [register_esp EXCEPT ![current] = call]
  BY <1>1 DEF sched_next_rr, switch_stack
<1>7. /\ next \in Tasks
      /\ Range(lists'["freequeue"]) = Range(l["freequeue"]) \ {next}
      /\ Range(lists'["readyqueue"]) = Range(ready) \ {next}
      /\ IF ready = << >> THEN next = Idle /\ Range(ready) = {} ELSE next \in Range(ready)
      /\ next \notin Range(l["freequeue"])
  <2>1. CASE ready # << >>
    <3>1. next = Head(ready) /\ lists' = [l EXCEPT !["readyqueue"] = Tail(ready)]
      BY <1>6, <2>1 DEF NextTask
    <3>2. /\ Head(ready) \in Tasks /\ Head(ready) \in Range(ready)
          /\ \A p \in Queues : Range(lists'[p]) = Range(l[p]) \ {Head(ready)}
      BY <1>2, <2>1, <3>1, SoundTakeFirst, QueueNames
    <3>3. Head(ready) \notin Range(l["freequeue"])
      BY <1>2, <3>2, QueueNames DEF Sound
    <3> HIDE DEF next, ready, l
    <3> QED BY <2>1, <3>1, <3>2, <3>3, QueueNames DEF ready
  <2>2. CASE ready = << >>
    <3>1. next = Idle /\ lists' = l /\ Range(ready) = {}
      BY <1>6, <2>2, RangeOfEmpty DEF NextTask
    <3>2. Idle \notin Range(l["freequeue"])
      BY <1>2, QueueNames DEF Sound
    <3> QED BY <2>2, <3>1, <3>2, TaskAssumption
  <2> QED BY <2>1, <2>2
<1>8. st \in [Tasks -> States] /\ st[Idle] # "ST_BLOCKED"
  BY <1>2 DEF Sound
<1> HIDE DEF l, st, ready, next
<1>9. \A t \in Tasks : state'[t] = IF t = next THEN "ST_RUN" ELSE st[t]
  BY <1>6, <1>7, <1>8
<1>10. \A t \in Tasks : t \in Range(l["freequeue"])
                          <=> t \in Range(lists["freequeue"]) \/ (t = current /\ q = "freequeue")
  BY <1>2, <1>3, QueueNames
<1>11. \A t \in Tasks : t \in Range(ready)
          <=> \/ t \in Range(lists["readyqueue"]) \/ t \in Range(W)
              \/ t = current /\ q = "readyqueue"
  BY <1>2, <1>3, QueueNames DEF ready
<1>12. StateIn(q) = IF q = "freequeue" THEN "ST_RUN"
                    ELSE IF q = "readyqueue" THEN "ST_READY" ELSE "ST_BLOCKED"
  BY DEF StateIn
<1>13. \A t \in Tasks : LifeOf(t) = IF t = current THEN "running" ELSE LifeIn(lists, state, t)
  BY <1>1, LifeOfIs
<1>14. \A t \in Tasks : LifeOf(t)' = IF t = current' THEN "running" ELSE LifeIn(lists', state', t)
  BY <1>2, LifeOfIsNext
<1>15. \A t \in Tasks : M[t] = LifeIn(l, st, t)
  <2> SUFFICES ASSUME NEW t \in Tasks PROVE M[t] = LifeIn(l, st, t)
    OBVIOUS
  <2>1. CASE t = current
    <3>1. t \notin Range(lists["freequeue"]) /\ t \notin Range(lists["readyqueue"])
          /\ t \notin Range(W)
      BY <1>3, <1>4, <2>1, QueueNames DEF Off
    <3>2. M[t] = Fate(q)
      BY <2>1
    <3> QED BY <1>5, <1>10, <1>11, <1>12, <2>1, <3>1, <3>2 DEF LifeIn, Fate, ready
  <2>2. CASE t \in Range(W)
    <3>1. M[t] = "ready"
      BY <1>3, <2>2
    <3> QED BY <1>3, <1>10, <1>11, <2>2, <3>1 DEF LifeIn, ready
  <2>3. CASE t # current /\ t \notin Range(W)
    <3>1. M[t] = LifeIn(lists, state, t) /\ st[t] = state[t]
      BY <1>5, <1>13, <2>3
    <3> QED BY <1>10, <1>11, <2>3, <3>1 DEF LifeIn, ready
  <2> QED BY <2>1, <2>2, <2>3
<1>16. \A t \in Tasks : t # next => LifeIn(lists', state', t) = LifeIn(l, st, t)
  BY <1>7, <1>9 DEF LifeIn, ready
<1>17. \A t \in Tasks : LifeOf(t)' = IF t = current' THEN "running" ELSE M[t]
  BY <1>6, <1>14, <1>15, <1>16
<1>18. \/ M[next] = "ready"
       \/ M[next] = "reserve" /\ \A v \in Tasks : M[v] # "ready"
  <2>1. CASE ready # << >>
    BY <1>7, <1>15, <2>1 DEF LifeIn, ready
  <2>2. CASE ready = << >>
    <3>1. next = Idle /\ Range(ready) = {}
      BY <1>7, <2>2
    <3>2. Idle \in Tasks /\ Idle \notin Range(lists["readyqueue"]) /\ Idle # current
      BY <1>1, <1>11, <3>1, TaskAssumption
    <3>3. st[Idle] = state[Idle] /\ state[Idle] \in States
      BY <1>1, <1>3, <1>5, <3>2, Facts DEF Sound
    <3>4. st[Idle] = "ST_RUN"
      BY <1>1, <1>8, <3>2, <3>3 DEF Settled, Members, States
    <3>5. M[next] = "reserve"
      BY <1>7, <1>15, <3>1, <3>4 DEF LifeIn, ready
    <3>6. \A v \in Tasks : M[v] # "ready"
      BY <1>15, <3>1 DEF LifeIn, ready
    <3> QED BY <3>5, <3>6
  <2> QED BY <2>1, <2>2
<1>19. Settled'
  <2> SUFFICES ASSUME NEW t \in Tasks
               PROVE  /\ state'[t] = "ST_READY" => t \in Range(lists'["readyqueue"])
                      /\ state'[t] = "ST_RUN" => \/ t = current' \/ t \in Range(lists'["freequeue"])
                                                 \/ t = Idle /\ register_esp'[t] = "new"
    BY DEF Settled, Members
  <2>1. CASE t = next
    BY <1>6, <1>9, <2>1
  <2>2. CASE t # next /\ t = current
    BY <1>5, <1>7, <1>9, <1>10, <1>11, <1>12, <2>2 DEF ready
  <2>3. CASE t # next /\ t # current
    <3>1. state'[t] = IF t \in Range(W) THEN "ST_READY" ELSE state[t]
      BY <1>5, <1>9, <2>3
    <3>2. register_esp'[t] = register_esp[t]
      BY <1>4, <1>6, <2>3
    <3> QED BY <1>1, <1>7, <1>10, <1>11, <2>3, <3>1, <3>2 DEF Settled, Members, ready
  <2> QED BY <2>1, <2>2, <2>3
<1>20. FramesKept'
  <2> SUFFICES ASSUME NEW t \in Tasks, t \notin Range(lists'["freequeue"]), t # current'
               PROVE  register_esp'[t] \notin {"boot", "sys_exit"}
    BY DEF FramesKept, Members
  <2>1. CASE t = current
    BY <1>1, <1>4, <1>6, <1>7, <1>10, <2>1
  <2>2. CASE t # current
    BY <1>1, <1>4, <1>6, <1>7, <1>10, <2>2 DEF FramesKept, Members
  <2> QED BY <2>1, <2>2
<1>21. \A t \in Range(W) : t \in Tasks /\ LifeOf(t) = "waiting"
  BY <1>3, <1>13 DEF LifeIn
<1> QED BY <1>2, <1>6, <1>17, <1>18, <1>19, <1>20, <1>21 DEF LifeInv

\* A task_struct taken off the freequeue becomes ready or stays free.
LEMMA ReusesLife ==
    ASSUME LifeInv, NEW q, NEW frame, Reuses(q, frame), NEW child,
           child = Head(lists["freequeue"])
    PROVE  /\ LifeInv'
           /\ child \in Tasks /\ LifeOf(child) = "free"
           /\ \A t \in Tasks : LifeOf(t)' = IF t = child THEN Fate(q) ELSE LifeOf(t)
<1>1. IInv /\ Settled /\ FramesKept
  BY DEF LifeInv
<1>2. /\ IInv'
      /\ child \in Range(lists["freequeue"]) /\ child \in Tasks \ {current, Idle}
      /\ \A r \in Queues : Range(lists'[r])
           = IF r = q THEN Range(lists[r]) \cup {child} ELSE Range(lists[r]) \ {child}
  BY <1>1, ReusesFacts
<1>3. /\ q \in {"freequeue", "readyqueue"} /\ (q = "readyqueue" => frame = "new")
      /\ state' = [state EXCEPT ![child] = StateIn(q)]
      /\ register_esp' = [register_esp EXCEPT ![child] = frame]
      /\ current' = current
  BY DEF Reuses
<1>4. /\ state \in [Tasks -> States] /\ register_esp \in [Tasks -> Frames]
      /\ Off(lists, current)
      /\ Range(lists["freequeue"]) \cap Range(lists["readyqueue"]) = {}
  BY <1>1, Facts, QueueNames DEF SchedTypeOK, Sound
<1>5. /\ \A t \in Tasks : state'[t] = IF t = child THEN StateIn(q) ELSE state[t]
      /\ \A t \in Tasks : register_esp'[t] = IF t = child THEN frame ELSE register_esp[t]
  BY <1>2, <1>3, <1>4
<1>6. /\ Range(lists'["freequeue"]) = IF q = "freequeue" THEN Range(lists["freequeue"])
                                      ELSE Range(lists["freequeue"]) \ {child}
      /\ Range(lists'["readyqueue"]) = IF q = "readyqueue"
                                       THEN Range(lists["readyqueue"]) \cup {child}
                                       ELSE Range(lists["readyqueue"])
  <2>1. \A r \in {"freequeue", "readyqueue"} :
          Range(lists'[r]) = IF r = q THEN Range(lists[r]) \cup {child}
                                      ELSE Range(lists[r]) \ {child}
    BY <1>2, QueueNames
  <2>2. child \in Range(lists["freequeue"]) /\ child \notin Range(lists["readyqueue"])
    BY <1>2, <1>4
  <2>3. Range(lists["freequeue"]) \cup {child} = Range(lists["freequeue"])
        /\ Range(lists["readyqueue"]) \ {child} = Range(lists["readyqueue"])
    BY <2>2
  <2> QED BY <1>3, <2>1, <2>3
<1>7. Settled'
  BY <1>1, <1>2, <1>3, <1>5, <1>6, StateInFacts DEF Settled, Members
<1>8. FramesKept'
  BY <1>1, <1>2, <1>3, <1>5, <1>6 DEF FramesKept, Members
<1>9. \A t \in Tasks : LifeOf(t) = IF t = current THEN "running" ELSE LifeIn(lists, state, t)
  BY <1>1, LifeOfIs
<1>10. \A t \in Tasks : LifeOf(t)' = IF t = current' THEN "running" ELSE LifeIn(lists', state', t)
  BY <1>2, LifeOfIsNext
<1>11. LifeOf(child) = "free" /\ LifeOf(child)' = Fate(q)
  <2>1. LifeOf(child) = "free"
    BY <1>2, <1>9 DEF LifeIn
  <2>2. LifeOf(child)' = LifeIn(lists', state', child)
    BY <1>2, <1>3, <1>10
  <2>3. CASE q = "freequeue"
    BY <1>2, <1>6, <2>1, <2>2, <2>3 DEF LifeIn, Fate
  <2>4. CASE q = "readyqueue"
    BY <1>2, <1>4, <1>6, <2>1, <2>2, <2>4 DEF LifeIn, Fate
  <2> QED BY <1>3, <2>1, <2>3, <2>4
<1>12. \A t \in Tasks \ {child} : LifeOf(t)' = LifeOf(t)
  BY <1>3, <1>5, <1>6, <1>9, <1>10 DEF LifeIn
<1> QED BY <1>1, <1>2, <1>7, <1>8, <1>11, <1>12 DEF LifeInv

\* The kernel boots into the invariant.
LEMMA LifeInit == SchedInit => LifeInv
<1> SUFFICES ASSUME SchedInit PROVE LifeInv
  OBVIOUS
<1>1. IInv
  BY InitInv
<1>2. /\ current = Task1 /\ \A t \in Tasks : state[t] = "ST_RUN"
      /\ \A t \in Tasks : register_esp[t] = IF t = Idle THEN "new" ELSE "boot"
      /\ Members("freequeue") = Tasks \ {Idle, Task1}
  BY TaskAssumption, QueueNames DEF SchedInit, Members
<1>3. Settled
  BY <1>2 DEF Settled
<1>4. FramesKept
  BY <1>2 DEF FramesKept
<1> QED BY <1>1, <1>3, <1>4 DEF LifeInv

\* Every handler preserves it.
LEMMA LifeNext == LifeInv /\ [SchedNext]_schedVars => LifeInv'
<1> SUFFICES ASSUME LifeInv, [SchedNext]_schedVars PROVE LifeInv'
  OBVIOUS
<1>1. Shape
  BY NextShape DEF LifeInv
<1>2. ASSUME NEW W, NEW m, NEW q, NEW call, Leaves(W, m, q, call) PROVE LifeInv'
  BY <1>2, LeavesLife
<1> QED BY <1>1, <1>2, ReturnsLife, ReusesLife DEF Shape, Returning, Leaving, Reusing, Creating

\* A task that is on no list and not running is blocked, or the idle task
\* before its first turn: sys_exit and the release of waiters lose nobody.
THEOREM NobodyLost == SchedSpec => []UnlistedBlocked
<1>1. LifeInv => UnlistedBlocked
  <2> SUFFICES ASSUME LifeInv, NEW t \in Tasks, Unlisted(t)
               PROVE  \/ state[t] = "ST_BLOCKED"
                      \/ t = Idle /\ register_esp[t] = "new"
    BY DEF UnlistedBlocked
  <2>1. state[t] \in States
    BY Facts DEF LifeInv, SchedTypeOK
  <2> QED BY <2>1, QueueNames DEF LifeInv, Settled, Unlisted, States
<1> QED BY <1>1, LifeInit, LifeNext, PTL DEF SchedSpec

\* Whatever sched_next_rr may choose has a frame that init_idle, a fork or an
\* earlier switch left: it is never the frame of the boot or of a dead task.
THEOREM FrameToResume == SchedSpec => []SuspendedHasFrame
<1>1. LifeInv => SuspendedHasFrame
  <2> SUFFICES ASSUME LifeInv, NEW t \in Members("readyqueue") \cup {Idle}, t # current
               PROVE  register_esp[t] \notin {"boot", "sys_exit"}
    BY DEF SuspendedHasFrame
  <2>1. Sound(lists, state) /\ t \in Tasks
    <3>1. Sound(lists, state) /\ lists["readyqueue"] \in Seq(Tasks)
      BY Facts, QueueNames DEF LifeInv, Sound
    <3>2. Members("readyqueue") \subseteq Tasks
      BY <3>1, ElementOfSeq, LenProperties DEF Members, Range
    <3> QED BY <3>1, <3>2, TaskAssumption
  <2>2. t \notin Members("freequeue")
    BY <2>1, QueueNames DEF Sound, Members
  <2> QED BY <2>1, <2>2 DEF LifeInv, FramesKept
<1> QED BY <1>1, LifeInit, LifeNext, PTL DEF SchedSpec
-----------------------------------------------------------------------------
(* The refinement of TaskLifecycle.                                         *)

Life == [t \in Tasks |-> LifeOf(t)]

\* Booting is the initial state of TaskLifecycle.
LEMMA LifecycleInit == SchedInit => Lifecycle!Init
<1> SUFFICES ASSUME SchedInit
             PROVE  \A t \in Tasks : LifeOf(t) = CASE t = Idle  -> "reserve"
                                                   [] t = Task1 -> "running"
                                                   [] OTHER     -> "free"
  BY DEF Lifecycle!Init
<1>1. IInv /\ current = Task1 /\ Idle # Task1
  BY InitInv, TaskAssumption DEF SchedInit
<1>2. /\ \A t \in Tasks : state[t] = "ST_RUN"
      /\ Range(lists["freequeue"]) = Tasks \ {Idle, Task1}
      /\ Range(lists["readyqueue"]) = {}
  BY TaskAssumption, QueueNames, RangeOfEmpty DEF SchedInit
<1> QED BY <1>1, <1>2, LifeOfIs DEF LifeIn

\* Every handler is a step of TaskLifecycle, or none: a handler that returns
\* wakes, one that switches hands the CPU over (unless the lone ready task
\* yields to itself), a fork creates.
LEMMA LifecycleStep ==
    LifeInv /\ [SchedNext]_schedVars => [Lifecycle!Next]_Life
<1> SUFFICES ASSUME LifeInv, [SchedNext]_schedVars PROVE [Lifecycle!Next]_Life
  OBVIOUS
<1>0. Shape /\ LifeInv' /\ \A t \in Tasks : Life[t] = LifeOf(t)
  BY NextShape, LifeNext DEF LifeInv, Life
<1>1. ASSUME NEW W, NEW m, Returns(W, m) PROVE Lifecycle!Next
  <2>1. /\ Range(W) \subseteq {t \in Tasks : LifeOf(t) = "waiting"}
        /\ \A t \in Tasks : LifeOf(t)' = IF t \in Range(W) THEN "ready" ELSE LifeOf(t)
    BY <1>1, ReturnsLife
  <2>2. Life' = [t \in Tasks |-> IF t \in Range(W) THEN "ready" ELSE LifeOf(t)]
    BY <2>1 DEF Life
  <2>3. Lifecycle!Wake(Range(W))
    BY <2>2, Zenon DEF Lifecycle!Wake, Lifecycle!Woken, Life
  <2>4. Range(W) \in SUBSET Lifecycle!Waiting
    BY <2>1 DEF Lifecycle!Waiting
  <2> QED BY <2>3, <2>4 DEF Lifecycle!Next
<1>2. ASSUME NEW W, NEW m, NEW q, NEW call, Leaves(W, m, q, call)
      PROVE  Lifecycle!Next
  <2>1. PICK M : M = [t \in Tasks |-> IF t = current THEN Fate(q)
                                      ELSE IF t \in Range(W) THEN "ready" ELSE LifeOf(t)]
    OBVIOUS
  <2>2. /\ Range(W) \subseteq {t \in Tasks : LifeOf(t) = "waiting"}
        /\ \A t \in Tasks : LifeOf(t)' = IF t = current' THEN "running" ELSE M[t]
        /\ \/ M[current'] = "ready"
           \/ M[current'] = "reserve" /\ \A v \in Tasks : M[v] # "ready"
    BY <1>2, <2>1, LeavesLife
  <2>3. current \in Tasks /\ current' \in Tasks /\ LifeOf(current) = "running"
    BY <1>0, Facts, LifeOfIs DEF LifeInv, IInv, SchedTypeOK
  <2>4. Range(W) \in SUBSET Lifecycle!Waiting
    BY <2>2 DEF Lifecycle!Waiting
  <2>5. CASE current' = current
    <3>1. Life' = [t \in Tasks |-> IF t \in Range(W) THEN "ready" ELSE LifeOf(t)]
      BY <2>1, <2>2, <2>3, <2>5 DEF Life
    <3>2. Lifecycle!Wake(Range(W))
      BY <3>1, Zenon DEF Lifecycle!Wake, Lifecycle!Woken, Life
    <3> QED BY <2>4, <3>2 DEF Lifecycle!Next
  <2>6. CASE current' # current
    <3>1. M = [Lifecycle!Woken(Range(W)) EXCEPT ![current] = Fate(q)]
      BY <1>0, <2>1, <2>3 DEF Lifecycle!Woken
    <3>2. Life' = [M EXCEPT ![current'] = "running"]
      BY <2>1, <2>2, <2>3 DEF Life
    <3>3. Fate(q) \in {"ready", "waiting", "free"} /\ (current = Idle => Fate(q) = "ready")
      BY <1>2, QueueNames DEF Fate, Leaves
    <3>4. Lifecycle!Handover(Range(W), current, Fate(q), current')
      <4>1. Life[current] = "running" /\ current' # current
        BY <1>0, <2>3, <2>6
      <4>2. LET m0 == [Lifecycle!Woken(Range(W)) EXCEPT ![current] = Fate(q)]
            IN  /\ \/ m0[current'] = "ready"
                   \/ m0[current'] = "reserve" /\ \A v \in Tasks : m0[v] # "ready"
                /\ Life' = [m0 EXCEPT ![current'] = "running"]
        BY <2>2, <3>1, <3>2
      <4> QED BY <3>3, <4>1, <4>2, Zenon DEF Lifecycle!Handover, Life
    <3> QED BY <2>3, <2>4, <3>3, <3>4 DEF Lifecycle!Next
  <2> QED BY <2>5, <2>6
<1>3. ASSUME NEW q, NEW frame, Reuses(q, frame) PROVE [Lifecycle!Next]_Life
  <2>1. PICK child : child = Head(lists["freequeue"])
    OBVIOUS
  <2>2. /\ child \in Tasks /\ LifeOf(child) = "free"
        /\ \A t \in Tasks : LifeOf(t)' = IF t = child THEN Fate(q) ELSE LifeOf(t)
    BY <1>3, <2>1, ReusesLife
  <2>3. q \in {"freequeue", "readyqueue"}
    BY <1>3 DEF Reuses
  <2>4. CASE q = "freequeue"
    BY <2>2, <2>4 DEF Life, Fate
  <2>5. CASE q = "readyqueue"
    <3>1. Life' = [Life EXCEPT ![child] = "ready"]
      BY <2>2, <2>5 DEF Life, Fate
    <3>2. Lifecycle!Create(child)
      BY <1>0, <2>2, <3>1 DEF Lifecycle!Create, Life
    <3> QED BY <2>2, <3>2 DEF Lifecycle!Next
  <2> QED BY <2>3, <2>4, <2>5
<1> QED BY <1>0, <1>1, <1>2, <1>3 DEF Shape, Returning, Leaving, Reusing, Creating

\* The scheduler implements TaskLifecycle: whatever its queues, quanta and
\* stacks are, a task gets the CPU only when it is ready, the idle task only
\* when nobody is, and a waiting task becomes ready first.
THEOREM SchedulerKeepsLifecycle == SchedSpec => LifecycleSpec
<1>1. LifecycleSpec <=> Lifecycle!Init /\ [][Lifecycle!Next]_Life
  BY DEF LifecycleSpec, Lifecycle!Spec, Life
<1> QED BY <1>1, LifecycleInit, LifecycleStep, LifeInit, LifeNext, PTL DEF SchedSpec
-----------------------------------------------------------------------------
(* The order of the readyqueue.                                             *)

\* Every handler joins tasks at the tail of the readyqueue and takes one, if
\* any, from its head.
LEMMA ReadyStep ==
    ASSUME IInv, [SchedNext]_schedVars
    PROVE  \A t \in Range(Ready) : \A u : Before(Ready', u, t) => Before(Ready, u, t)
<1> SUFFICES ASSUME NEW t \in Range(Ready), NEW u, Before(Ready', u, t)
             PROVE  Before(Ready, u, t)
  OBVIOUS
<1>0. /\ Shape /\ Ready \in Seq(Tasks) /\ current \in Tasks
      /\ Sound(lists, state) /\ Off(lists, current)
  BY NextShape, Facts, QueueNames DEF Sound, Ready
<1>1. ASSUME NEW W, NEW m, Releases(lists, m, W)
      PROVE  /\ m["readyqueue"] = Ready \o W /\ m["readyqueue"] \in Seq(Tasks)
             /\ IsInjective(m["readyqueue"]) /\ t \in Range(m["readyqueue"])
             /\ Before(m["readyqueue"], u, t) => Before(Ready, u, t)
  <2>1. m["readyqueue"] = Ready \o W /\ W \in Seq(Tasks) /\ IsInjective(Ready \o W)
    BY <1>1, ReleaseSets DEF Releases, Ready
  <2>2. Ready \o W \in Seq(Tasks) /\ t \in Range(Ready \o W)
    BY <1>0, <2>1, ConcatFacts
  <2>3. Before(Ready \o W, u, t) => Before(Ready, u, t)
    BY <1>0, <2>1, BeforeFacts
  <2> QED BY <2>1, <2>2, <2>3
<1>2. ASSUME NEW W, NEW m, Returns(W, m) PROVE Before(Ready, u, t)
  <2>1. Ready' = m["readyqueue"] /\ Releases(lists, m, W)
    BY <1>2 DEF Returns, NoSwitch, Ready
  <2> QED BY <1>1, <2>1
<1>3. ASSUME NEW W, NEW m, NEW q, NEW call, Leaves(W, m, q, call)
      PROVE  Before(Ready, u, t)
  <2> DEFINE l == ListAddTail(m, current, q)
             joined == l["readyqueue"]
  <2>1. /\ Releases(lists, m, W) /\ q \in Queues /\ m \in [Queues -> Seq(Tasks)]
        /\ sched_next_rr(l, [Woken(state, W) EXCEPT ![current] = StateIn(q)], call)
    BY <1>3 DEF Leaves, Releases
  <2>2. /\ m["readyqueue"] = Ready \o W /\ m["readyqueue"] \in Seq(Tasks)
        /\ IsInjective(m["readyqueue"]) /\ t \in Range(m["readyqueue"])
        /\ Before(m["readyqueue"], u, t) => Before(Ready, u, t)
    BY <1>1, <2>1
  <2>3. /\ joined = m["readyqueue"] \/ joined = Append(m["readyqueue"], current)
        /\ l \in [Queues -> Seq(Tasks)] /\ IsInjective(joined)
    BY <1>3, <2>1, LeavesFacts, QueueNames DEF Sound, ListAddTail
  <2>4. /\ joined \in Seq(Tasks) /\ t \in Range(joined)
        /\ Before(joined, u, t) => Before(m["readyqueue"], u, t)
    <3>1. PICK r, j : r = m["readyqueue"] /\ j = joined
      OBVIOUS
    <3>2. /\ r \in Seq(Tasks) /\ t \in Range(r) /\ current \in Tasks
          /\ j = r \/ j = Append(r, current)
          /\ IsInjective(j)
      BY <1>0, <2>2, <2>3, <3>1
    <3>3. j \in Seq(Tasks) /\ t \in Range(j) /\ (Before(j, u, t) => Before(r, u, t))
      <4>1. CASE j = r
        BY <3>2, <4>1
      <4>2. CASE j = Append(r, current)
        BY <3>2, <4>2, AppendFacts, BeforeFacts
      <4> QED BY <3>2, <4>1, <4>2
    <3> QED BY <3>1, <3>3
  <2>5. Ready' = joined \/ Ready' = Tail(joined)
    <3>1. lists' = IF joined # << >> THEN [l EXCEPT !["readyqueue"] = Tail(joined)] ELSE l
      BY <2>1 DEF sched_next_rr
    <3> HIDE DEF joined
    <3> QED BY <2>3, <3>1, QueueNames DEF Ready, joined
  <2> HIDE DEF joined
  <2>6. Before(joined, u, t)
    BY <2>4, <2>5, BeforeFacts
  <2> QED BY <2>2, <2>4, <2>6
<1>4. ASSUME NEW q, NEW frame, Reuses(q, frame) PROVE Before(Ready, u, t)
  <2>1. PICK child : child = Head(lists["freequeue"])
    OBVIOUS
  <2>2. child \in Range(lists["freequeue"]) /\ child \in Tasks
    BY <1>4, <2>1, ReusesFacts
  <2>3. child \notin Range(Ready) /\ IsInjective(Ready) /\ lists \in [Queues -> Seq(Tasks)]
    BY <1>0, <2>2, QueueNames DEF Sound, Ready
  <2>4. Ready' = Ready \/ Ready' = Append(Ready, child)
    BY <1>4, <2>1, <2>3, QueueNames DEF Reuses, ListAddTail, Ready
  <2>5. IsInjective(Append(Ready, child))
    BY <1>0, <2>2, <2>3, AppendFacts
  <2> QED BY <1>0, <2>2, <2>4, <2>5, BeforeFacts
<1> QED BY <1>0, <1>2, <1>3, <1>4 DEF Shape, Returning, Leaving, Reusing, Creating

\* The ready queue is fair in every instance: no handler lets a task stand
\* before one that was ready and is still, unless it stood there already.
THEOREM ReadyQueueFair == SchedSpec => NoOvertaking
<1> DEFINE Fair == \A t \in Members("readyqueue") \cap Members("readyqueue")' :
                     Ahead(t)' \subseteq Ahead(t)
<1>1. IInv /\ [SchedNext]_schedVars => [Fair]_schedVars
  <2> SUFFICES ASSUME IInv, [SchedNext]_schedVars,
                      NEW t \in Members("readyqueue"), NEW u \in Ahead(t)'
               PROVE  u \in Ahead(t)
    BY DEF Fair
  <2>1. Before(Ready', u, t)
    BY DEF Ahead, Before, Ready
  <2>2. Before(Ready, u, t)
    BY <2>1, ReadyStep DEF Members, Ready
  <2>3. u \in Members("readyqueue")
    BY <2>2 DEF Before, Members, Ready, Range
  <2> QED BY <2>2, <2>3 DEF Ahead, Before
<1> QED BY <1>1, InitInv, NextInv, PTL DEF SchedSpec, NoOvertaking
-----------------------------------------------------------------------------
(* What the shapes do to the members of the lists.                          *)

\* A handler that switches: W is woken, current joins q, the next task leaves
\* the readyqueue.
LEMMA LeavesSets ==
    ASSUME IInv, NEW W, NEW m, NEW q, NEW call, Leaves(W, m, q, call)
    PROVE  /\ current' \in Tasks
           /\ \A p \in Queues : \A t : t \in Members(p)'
                <=> (t \in Range(m[p]) \/ (t = current /\ p = q)) /\ t # current'
           /\ \/ current' = Idle
              \/ current' \in Range(m["readyqueue"]) \/ (current' = current /\ q = "readyqueue")
           /\ register_esp' = [register_esp EXCEPT ![current] = call]
<1> DEFINE l == ListAddTail(m, current, q)
           st == [Woken(state, W) EXCEPT ![current] = StateIn(q)]
<1>1. /\ Sound(l, st)
      /\ \A p \in Queues : \A t : t \in Range(l[p]) <=> t \in Range(m[p]) \/ (t = current /\ p = q)
  BY LeavesFacts
<1>2. sched_next_rr(l, st, call)
  BY DEF Leaves
<1> HIDE DEF l, st
<1> DEFINE ready == l["readyqueue"]
<1>3. /\ lists' = IF ready # << >> THEN [l EXCEPT !["readyqueue"] = Tail(ready)] ELSE l
      /\ current' = NextTask(ready)
      /\ register_esp' = [register_esp EXCEPT ![current] = call]
  BY <1>2 DEF sched_next_rr, switch_stack
<1>4. CASE ready # << >>
  <2>1. current' = Head(ready) /\ lists' = [l EXCEPT !["readyqueue"] = Tail(ready)]
    BY <1>3, <1>4 DEF NextTask
  <2>2. /\ current' \in Tasks /\ current' \in Range(ready)
        /\ \A p \in Queues : Range(lists'[p]) = Range(l[p]) \ {current'}
    BY <1>1, <1>4, <2>1, SoundTakeFirst, QueueNames
  <2>3. current' \in Range(m["readyqueue"]) \/ (current' = current /\ q = "readyqueue")
    BY <1>1, <2>2, QueueNames
  <2> HIDE DEF ready
  <2> QED BY <1>1, <1>3, <2>2, <2>3 DEF Members
<1>5. CASE ready = << >>
  <2>1. current' = Idle /\ lists' = l /\ Range(ready) = {}
    BY <1>3, <1>5, RangeOfEmpty DEF NextTask
  <2>2. \A p \in Queues : Idle \notin Range(l[p])
    BY <1>1, <2>1 DEF Sound
  <2> QED BY <1>1, <1>3, <2>1, <2>2, TaskAssumption DEF Members
<1> QED BY <1>4, <1>5

\* Releasing W takes it off its lists; only semCreate takes more.
LEMMA ReleaseMembers ==
    ASSUME IInv, NEW W, NEW m, Releases(lists, m, W), Keeps(lists, m, W)
    PROVE  /\ \A p \in WaitQueues : \A t : t \in Range(m[p]) <=> t \in Members(p) /\ t \notin Range(W)
           /\ \A t : t \in Range(m["readyqueue"]) <=> t \in Members("readyqueue") \/ t \in Range(W)
           /\ Range(m["freequeue"]) = Members("freequeue")
<1>1. \A p \in WaitQueues : \A t : t \in Range(m[p]) <=> t \in Members(p) /\ t \notin Range(W)
  BY DEF Releases, Keeps, Members
<1>2. /\ Range(m["readyqueue"]) = Range(lists["readyqueue"]) \cup Range(W)
      /\ Range(m["freequeue"]) = Range(lists["freequeue"])
  BY ReleaseSets
<1> QED BY <1>1, <1>2 DEF Members

\* A handler that returns, by members.
LEMMA ReturningSets ==
    ASSUME IInv, NEW S, Returning(S)
    PROVE  \E W : /\ current' = current /\ register_esp' = register_esp
                  /\ Members("freequeue")' = Members("freequeue")
                  /\ \A p \in WaitQueues : \A t :
                       t \in Members(p)' <=> t \in Members(p) /\ t \notin W
                  /\ \A t : t \in Members("readyqueue")' <=> t \in Members("readyqueue") \/ t \in W
                  /\ \A t \in W : \E p \in WaitQueues \cap S : t \in Members(p)
<1>1. PICK W, m : Returns(W, m) /\ Keeps(lists, m, W) /\ From(W, S)
  BY DEF Returning
<1>2. lists' = m /\ current' = current /\ register_esp' = register_esp /\ Releases(lists, m, W)
  BY <1>1 DEF Returns, NoSwitch
<1>3. /\ \A p \in WaitQueues : \A t : t \in Range(m[p]) <=> t \in Members(p) /\ t \notin Range(W)
      /\ \A t : t \in Range(m["readyqueue"]) <=> t \in Members("readyqueue") \/ t \in Range(W)
      /\ Range(m["freequeue"]) = Members("freequeue")
  BY <1>1, <1>2, ReleaseMembers
<1>4. \A t \in Range(W) : \E p \in WaitQueues \cap S : t \in Members(p)
  BY <1>1 DEF From
<1> WITNESS Range(W)
<1> QED BY <1>2, <1>3, <1>4 DEF Members

\* A handler that switches, by members: W are the woken, current joins q with
\* the frame of call.
Switches(W, q, call) ==
    /\ current' \in Tasks /\ current \notin W
    /\ q \in Queues /\ (current = Idle => q = "readyqueue")
    /\ q = "freequeue" <=> call = "sys_exit"
    /\ q = "blocked" <=> call = "sys_getKey"
    /\ q \in Sems <=> call = "sys_semWait"
    /\ register_esp' = [register_esp EXCEPT ![current] = call]
    /\ current' = current => q = "readyqueue"
    /\ current' \in Members("readyqueue") \cup W \cup {current, Idle}
    /\ \A t : t \in Members("freequeue")'
                <=> t \in Members("freequeue") \/ (t = current /\ q = "freequeue")
    /\ \A p \in WaitQueues : \A t :
          t \in Members(p)' <=> (t \in Members(p) /\ t \notin W) \/ (t = current /\ p = q)
    /\ \A t : t \in Members("readyqueue")'
                <=> /\ \/ t \in Members("readyqueue") \/ t \in W
                       \/ t = current /\ q = "readyqueue"
                    /\ t # current'

\* Whoever leaves its queue was moved by one call of the scheduler.
LEMMA LeavingSets ==
    ASSUME IInv, NEW q, NEW S, Leaving(q, S)
    PROVE  \E W, call : /\ Switches(W, q, call)
                        /\ \A t \in W : \E p \in WaitQueues \cap S : t \in Members(p)
<1>1. PICK W, m, call : Leaves(W, m, q, call) /\ From(W, S)
  BY DEF Leaving
<1>2. /\ Releases(lists, m, W) /\ Keeps(lists, m, W)
      /\ q \in Queues /\ (current = Idle => q = "readyqueue")
      /\ call = "sys_exit" <=> q = "freequeue"
      /\ call = "sys_getKey" <=> q = "blocked"
      /\ call = "sys_semWait" <=> q \in Sems
  BY <1>1 DEF Leaves
<1>3. /\ current' \in Tasks
      /\ \A p \in Queues : \A t : t \in Members(p)'
           <=> (t \in Range(m[p]) \/ (t = current /\ p = q)) /\ t # current'
      /\ \/ current' = Idle
         \/ current' \in Range(m["readyqueue"]) \/ (current' = current /\ q = "readyqueue")
      /\ register_esp' = [register_esp EXCEPT ![current] = call]
  BY <1>1, LeavesSets
<1>4. /\ \A p \in WaitQueues : \A t : t \in Range(m[p]) <=> t \in Members(p) /\ t \notin Range(W)
      /\ \A t : t \in Range(m["readyqueue"]) <=> t \in Members("readyqueue") \/ t \in Range(W)
      /\ Range(m["freequeue"]) = Members("freequeue")
  BY <1>2, ReleaseMembers
<1>5. Sound(lists, state) /\ Off(lists, current)
  BY Facts
<1>6. \A t \in Range(W) : \E p \in WaitQueues \cap S : t \in Members(p)
  BY <1>1 DEF From
<1>7. current \notin Range(W) /\ \A p \in Queues : current \notin Members(p)
  BY <1>5, <1>6, QueueNames DEF Off, Members
<1>8. \A t \in Members("readyqueue") \cup Range(W) \cup {Idle} :
        \A p \in Queues \ {"readyqueue"} : t \in Members(p) => t \in Range(W) /\ p \in WaitQueues
  <2> SUFFICES ASSUME NEW t \in Members("readyqueue") \cup Range(W) \cup {Idle},
                      NEW p \in Queues \ {"readyqueue"}, t \in Members(p)
               PROVE  t \in Range(W) /\ p \in WaitQueues
    OBVIOUS
  <2>1. t \notin Members("readyqueue") /\ t # Idle
    BY <1>5, QueueNames DEF Sound, Members
  <2>2. PICK r \in WaitQueues : t \in Members(r)
    BY <1>6, <2>1
  <2>3. p = r
    BY <1>5, <2>2, QueueNames DEF Sound, Members
  <2> QED BY <2>1, <2>2, <2>3
<1>9. current' = current => q = "readyqueue"
  <2>1. current \notin Range(m["readyqueue"])
    BY <1>4, <1>7, QueueNames
  <2> QED BY <1>2, <1>3, <2>1
<1>10. current' \in Members("readyqueue") \cup Range(W) \cup {current, Idle}
  BY <1>3, <1>4
<1>11. \A t : t \in Members("freequeue")'
                <=> t \in Members("freequeue") \/ (t = current /\ q = "freequeue")
  <2>1. current' # current => current' \notin Members("freequeue")
    BY <1>8, <1>10, QueueNames
  <2> QED BY <1>3, <1>4, <1>7, <1>9, <2>1, QueueNames
<1>12. \A p \in WaitQueues : \A t : t \in Members(p)'
                <=> (t \in Members(p) /\ t \notin Range(W)) \/ (t = current /\ p = q)
  <2> SUFFICES ASSUME NEW p \in WaitQueues
               PROVE  \A t : t \in Members(p)'
                <=> (t \in Members(p) /\ t \notin Range(W)) \/ (t = current /\ p = q)
    OBVIOUS
  <2>1. p \in Queues /\ p # "readyqueue"
    BY QueueNames
  <2>2. current' # current => current' \notin Members(p) \/ current' \in Range(W)
    BY <1>8, <1>10, <2>1
  <2> QED BY <1>3, <1>4, <1>7, <1>9, <2>1, <2>2
<1>13. \A t : t \in Members("readyqueue")'
                <=> /\ \/ t \in Members("readyqueue") \/ t \in Range(W)
                       \/ t = current /\ q = "readyqueue"
                    /\ t # current'
  BY <1>3, <1>4, QueueNames
<1> WITNESS Range(W), call
<1> QED BY <1>2, <1>3, <1>6, <1>7, <1>9, <1>10, <1>11, <1>12, <1>13
        DEF Switches

\* A handler that takes a task_struct off the freequeue, for good or not.
LEMMA ReusingSets ==
    ASSUME IInv, NEW q, Reusing(q), NEW child, child = Head(lists["freequeue"])
    PROVE  /\ child \in Members("freequeue") /\ child \in Tasks \ {current, Idle}
           /\ current' = current
           /\ \A t \in Tasks \ {child} : register_esp'[t] = register_esp[t]
           /\ \A p \in WaitQueues : Members(p)' = Members(p)
           /\ q = "freequeue" => /\ Members("readyqueue")' = Members("readyqueue")
                                 /\ Members("freequeue")' = Members("freequeue")
           /\ q = "readyqueue" => /\ Members("readyqueue")' = Members("readyqueue") \cup {child}
                                  /\ Members("freequeue")' = Members("freequeue") \ {child}
                                  /\ register_esp'[child] = "new"
           /\ q \in {"freequeue", "readyqueue"}
<1>1. PICK frame : Reuses(q, frame)
  BY DEF Reusing
<1>3. /\ child \in Range(lists["freequeue"]) /\ child \in Tasks \ {current, Idle}
      /\ \A r \in Queues : Range(lists'[r])
           = IF r = q THEN Range(lists[r]) \cup {child} ELSE Range(lists[r]) \ {child}
  BY <1>1, ReusesFacts
<1>4. /\ q \in {"freequeue", "readyqueue"} /\ (q = "readyqueue" => frame = "new")
      /\ register_esp' = [register_esp EXCEPT ![child] = frame] /\ current' = current
  BY <1>1 DEF Reuses
<1>5. Sound(lists, state) /\ register_esp \in [Tasks -> Frames]
  BY Facts DEF SchedTypeOK
<1>6. \A r \in Queues \ {"freequeue"} : child \notin Range(lists[r])
  BY <1>3, <1>5, QueueNames DEF Sound
<1>7. \A p \in WaitQueues : Members(p)' = Members(p)
  <2> SUFFICES ASSUME NEW p \in WaitQueues PROVE Members(p)' = Members(p)
    OBVIOUS
  <2>1. Range(lists'[p]) = Range(lists[p]) \ {child} /\ child \notin Range(lists[p])
    BY <1>3, <1>4, <1>6, QueueNames
  <2> QED BY <2>1 DEF Members
<1>8. register_esp'[child] = frame /\ \A t \in Tasks \ {child} : register_esp'[t] = register_esp[t]
  BY <1>3, <1>4, <1>5
<1>9. ASSUME q = "freequeue"
      PROVE  /\ Members("readyqueue")' = Members("readyqueue")
             /\ Members("freequeue")' = Members("freequeue")
  <2>1. /\ Range(lists'["freequeue"]) = Range(lists["freequeue"]) \cup {child}
        /\ Range(lists'["readyqueue"]) = Range(lists["readyqueue"]) \ {child}
    BY <1>3, <1>9, QueueNames
  <2> QED BY <1>3, <1>6, <2>1, QueueNames DEF Members
<1>10. ASSUME q = "readyqueue"
       PROVE  /\ Members("readyqueue")' = Members("readyqueue") \cup {child}
              /\ Members("freequeue")' = Members("freequeue") \ {child}
  BY <1>3, <1>10, QueueNames DEF Members
<1> QED BY <1>3, <1>4, <1>7, <1>8, <1>9, <1>10 DEF Members

\* semCreate leaves the other lists as they are.
LEMMA CreatingSets ==
    ASSUME IInv, NEW s \in Sems, Creating(s)
    PROVE  /\ current' = current /\ register_esp' = register_esp
           /\ Members(s)' = {}
           /\ \A p \in Queues \ {s} : Members(p)' = Members(p)
<1>1. lists' = [lists EXCEPT ![s] = << >>] /\ current' = current /\ register_esp' = register_esp
  BY DEF Creating, InitSemList, NoSwitch
<1>2. lists \in [Queues -> Seq(Tasks)] /\ s \in Queues
  BY Facts, QueueNames DEF Sound
<1> QED BY <1>1, <1>2, RangeOfEmpty DEF Members
-----------------------------------------------------------------------------
(* Every handler of Tasks is a step of Sched.                               *)

\* What the proofs about the semaphores start from.
SemInv == IInv /\ SemaphoresSound

\* sys_exit destroys the semaphores in the order of the owner's list: one of
\* the orders Sched allows.
LEMMA OwnedOrder ==
    ASSUME SemInv
    PROVE  /\ Range(owned[current]) \in SUBSET Sems
           /\ owned[current] \in SetToSeqs(Range(owned[current]))
           /\ IsInjective(owned[current]) /\ owned[current] \in Seq(Sems)
           /\ Range(owned[current]) = {s \in Sems : parent[s] = current}
           /\ current \notin Members("freequeue") /\ current \in Tasks
<1> DEFINE q == owned[current]
<1>1. current \in Tasks /\ Off(lists, current) /\ owned \in [Tasks -> Seq(Sems)]
  BY Facts DEF SemInv, SemaphoresSound, TypeOK
<1>2. current \notin Members("freequeue")
  BY <1>1, QueueNames DEF Off, Members
<1>3. q \in Seq(Sems) /\ IsInjective(q) /\ Range(q) = {s \in Sems : parent[s] = current}
  BY <1>1, <1>2 DEF SemInv, SemaphoresSound, SemOwnership
<1>4. /\ Len(q) \in Nat /\ DOMAIN q = 1..Len(q) /\ q \in [1..Len(q) -> Range(q)]
      /\ Cardinality(Range(q)) = Len(q)
  BY <1>3, InjectiveLen, LenProperties DEF Range
<1>5. q \in SetToSeqs(Range(q))
  BY <1>3, <1>4 DEF SetToSeqs, IsInjective
<1> QED BY <1>1, <1>2, <1>3, <1>5

\* Every step of the services is a step of the scheduler, or none.
LEMMA SchedStep == SemInv /\ [Next]_vars => [SchedNext]_schedVars
<1> SUFFICES ASSUME SemInv, [Next]_vars PROVE [SchedNext]_schedVars
  OBVIOUS
<1>1. CASE clock_routine
  <2>1. Expired \in SUBSET Members("blocked") /\ Clock(Expired)
    BY <1>1 DEF clock_routine, Expired
  <2> QED BY <2>1 DEF SchedNext, Tick
<1>2. CASE keyboard_routine
  BY <1>2 DEF keyboard_routine, SchedNext
<1>3. CASE sys_yield
  BY <1>3 DEF sys_yield, SchedNext
<1>4. CASE new_task \/ new_task_fails
  BY <1>4 DEF new_task, new_task_fails, SchedNext
<1>5. CASE sys_exit
  <2>1. Exit(owned[current])
    BY <1>5 DEF sys_exit
  <2> QED BY <2>1, OwnedOrder DEF SchedNext
<1>6. CASE Stats
  BY <1>6 DEF Stats, sys_get_stats
<1>7. CASE sys_getKey
  BY <1>7 DEF sys_getKey, getKey_now, getKey_wait, SchedNext
<1>8. ASSUME NEW v \in InitialValues, sys_semCreate(v) PROVE [SchedNext]_schedVars
  <2>1. Head(freesems) \in Sems
    BY <1>8, HeadTailFacts DEF sys_semCreate, SemInv, SemaphoresSound, TypeOK
  <2> QED BY <1>8, <2>1 DEF sys_semCreate, SchedNext
<1>9. ASSUME NEW s \in Sems, sys_semWait(s) PROVE [SchedNext]_schedVars
  BY <1>9 DEF sys_semWait, SchedNext
<1>10. ASSUME NEW s \in Sems, sys_semSignal(s) PROVE [SchedNext]_schedVars
  BY <1>10 DEF sys_semSignal, SchedNext
<1>11. ASSUME NEW s \in Sems, sys_semDestroy(s) PROVE [SchedNext]_schedVars
  BY <1>11 DEF sys_semDestroy, SchedNext
<1>12. CASE UNCHANGED vars
  BY <1>12 DEF vars
<1> QED BY <1>1, <1>2, <1>3, <1>4, <1>5, <1>6, <1>7, <1>8, <1>9, <1>10, <1>11, <1>12 DEF Next

\* So the scheduler's invariant is kept.
LEMMA IInvStep == SemInv /\ [Next]_vars => IInv'
BY SchedStep, NextInv DEF SemInv

\* Only fork, create_thread and exit change who is free.
LEMMA FreeKept ==
    ASSUME IInv,
           \/ \E S : Returning(S)
           \/ \E q, S : Leaving(q, S) /\ q # "freequeue"
           \/ \E s \in Sems : Creating(s)
    PROVE  Members("freequeue")' = Members("freequeue")
<1>1. ASSUME NEW S, Returning(S) PROVE Members("freequeue")' = Members("freequeue")
  BY <1>1, ReturningSets
<1>2. ASSUME NEW q, NEW S, Leaving(q, S), q # "freequeue"
      PROVE  Members("freequeue")' = Members("freequeue")
  <2>1. \A t : t \in Members("freequeue")' <=> t \in Members("freequeue")
    BY <1>2, LeavingSets DEF Switches
  <2> QED BY <2>1
<1>3. ASSUME NEW s \in Sems, Creating(s) PROVE Members("freequeue")' = Members("freequeue")
  BY <1>3, CreatingSets, QueueNames
<1> QED BY <1>1, <1>2, <1>3
-----------------------------------------------------------------------------
(* Types.                                                                   *)

\* The sizes of the key buffer stay in range.
LEMMA KeyTypes ==
    ASSUME NEW n \in 0..MAX_BUFF
    PROVE  AfterTail(n) \in 0..MAX_BUFF /\ AfterHead(n) \in 0..MAX_BUFF
BY BufferAssumption DEF AfterTail, AfterHead

\* And the counters a resumed sys_getKey leaves.
LEMMA ResumeTypes ==
    ASSUME NEW w \in Int, NEW n \in 0..MAX_BUFF, Resume(w, n)
    PROVE  waitKey' \in Int /\ numKeys' \in 0..MAX_BUFF
BY KeyTypes DEF Resume

\* Types are kept.
LEMMA TypeStep == SemInv /\ [Next]_vars => TypeOK'
<1> SUFFICES ASSUME SemInv, [Next]_vars PROVE TypeOK'
  OBVIOUS
<1>0. /\ SchedTypeOK' /\ SchedTypeOK /\ Sound(lists, state)
      /\ numKeys \in 0..MAX_BUFF /\ waitKey \in Int
      /\ remaining_ticks \in [Tasks -> Int] /\ count \in [Sems -> Int]
      /\ parent \in [Sems -> Tasks \cup {NoTask}] /\ owned \in [Tasks -> Seq(Sems)]
      /\ freesems \in Seq(Sems) /\ made \subseteq Sems
  BY IInvStep, Facts DEF SemInv, SemaphoresSound, TypeOK, IInv
<1>1. CASE clock_routine
  <2>1. remaining_ticks' \in [Tasks -> Int]
    BY <1>0, <1>1 DEF clock_routine, Countdown
  <2> QED BY <1>0, <1>1, <2>1, ResumeTypes DEF clock_routine, semVars, TypeOK
<1>2. CASE keyboard_routine
  <2>1. remaining_ticks' \in [Tasks -> Int]
    BY <1>0, <1>2 DEF keyboard_routine
  <2> QED BY <1>0, <1>2, <2>1, KeyTypes DEF keyboard_routine, semVars, TypeOK
<1>3. CASE sys_yield
  BY <1>0, <1>3, ResumeTypes DEF sys_yield, semVars, TypeOK
<1>4. CASE new_task \/ new_task_fails
  <2>1. owned' \in [Tasks -> Seq(Sems)]
    <3>1. owned[current] \in Seq(Sems) /\ << >> \in Seq(Sems)
      BY <1>0 DEF SchedTypeOK
    <3> QED BY <1>0, <1>4, <3>1 DEF new_task, new_task_fails
  <2> QED BY <1>0, <1>4, <2>1 DEF new_task, new_task_fails, keyVars, TypeOK
<1>5. CASE sys_exit
  <2>1. owned[current] \in Seq(Sems) /\ << >> \in Seq(Sems)
    BY <1>0 DEF SchedTypeOK
  <2>2. owned' \in [Tasks -> Seq(Sems)]
    BY <1>0, <1>5, <2>1 DEF sys_exit
  <2>3. freesems' \in Seq(Sems)
    BY <1>0, <1>5, <2>1, ConcatFacts DEF sys_exit
  <2>4. parent' \in [Sems -> Tasks \cup {NoTask}]
    BY <1>0, <1>5 DEF sys_exit, Disowned
  <2> QED BY <1>0, <1>5, <2>2, <2>3, <2>4, ResumeTypes DEF sys_exit, TypeOK
<1>6. CASE Stats
  BY <1>0, <1>6 DEF Stats, sys_get_stats, keyVars, semVars, TypeOK, SchedTypeOK
<1>7. CASE getKey_now
  BY <1>0, <1>7, KeyTypes DEF getKey_now, semVars, TypeOK
<1>8. ASSUME NEW timeout \in Timeouts, getKey_wait(timeout) PROVE TypeOK'
  <2>1. remaining_ticks' \in [Tasks -> Int]
    <3>1. timeout \in Int
      BY InputAssumption
    <3> QED BY <1>0, <1>8, <3>1 DEF getKey_wait
  <2> QED BY <1>0, <1>8, <2>1, ResumeTypes DEF getKey_wait, semVars, TypeOK
<1>9. ASSUME NEW v \in InitialValues, sys_semCreate(v) PROVE TypeOK'
  <2> DEFINE s == Head(freesems)
  <2>1. s \in Sems /\ Tail(freesems) \in Seq(Sems) /\ current \in Tasks
    BY <1>0, <1>9, HeadTailFacts DEF sys_semCreate, SchedTypeOK
  <2>2. Append(owned[current], s) \in Seq(Sems)
    BY <1>0, <2>1, AppendFacts
  <2>3. /\ count' = [count EXCEPT ![s] = v]
        /\ parent' = [parent EXCEPT ![s] = current]
        /\ owned' = [owned EXCEPT ![current] = Append(owned[current], s)]
        /\ made' = made \cup {s} /\ freesems' = Tail(freesems)
        /\ UNCHANGED <<keyVars, remaining_ticks>>
    BY <1>9 DEF sys_semCreate
  <2> HIDE DEF s
  <2>4. count' \in [Sems -> Int]
    BY <1>0, <2>1, <2>3, InputAssumption
  <2>5. parent' \in [Sems -> Tasks \cup {NoTask}] /\ owned' \in [Tasks -> Seq(Sems)]
    BY <1>0, <2>1, <2>2, <2>3
  <2> QED BY <1>0, <2>1, <2>3, <2>4, <2>5 DEF keyVars, TypeOK
<1>10. ASSUME NEW s \in Sems, sys_semWait(s) PROVE TypeOK'
  <2>1. count' \in [Sems -> Int]
    BY <1>0, <1>10 DEF sys_semWait
  <2> QED BY <1>0, <1>10, <2>1, ResumeTypes DEF sys_semWait, keyVars, TypeOK
<1>11. ASSUME NEW s \in Sems, sys_semSignal(s) PROVE TypeOK'
  <2>1. count' \in [Sems -> Int]
    BY <1>0, <1>11 DEF sys_semSignal
  <2> QED BY <1>0, <1>11, <2>1 DEF sys_semSignal, keyVars, TypeOK
<1>12. ASSUME NEW s \in Sems, sys_semDestroy(s) PROVE TypeOK'
  <2>1. parent' \in [Sems -> Tasks \cup {NoTask}]
    BY <1>0, <1>12 DEF sys_semDestroy, Disowned
  <2>2. Keep(owned[current], Range(owned[current]) \ {s}) \in Seq(Sems) /\ current \in Tasks
    BY <1>0, KeepFacts DEF SchedTypeOK
  <2>3. owned' \in [Tasks -> Seq(Sems)] /\ freesems' \in Seq(Sems)
    BY <1>0, <1>12, <2>2, AppendFacts DEF sys_semDestroy
  <2> QED BY <1>0, <1>12, <2>1, <2>3 DEF sys_semDestroy, keyVars, TypeOK
<1>13. CASE UNCHANGED vars
  BY <1>0, <1>13 DEF vars, keyVars, semVars, TypeOK
<1> QED BY <1>1, <1>2, <1>3, <1>4, <1>5, <1>6, <1>7, <1>8, <1>9, <1>10, <1>11, <1>12, <1>13
        DEF Next, sys_getKey
-----------------------------------------------------------------------------
(* Who owns which semaphore.                                                *)

\* A handler that touches neither the semaphores' owners nor the freequeue.
LEMMA OwnershipKept ==
    ASSUME SemOwnership, UNCHANGED <<parent, owned, freesems>>,
           Members("freequeue")' = Members("freequeue")
    PROVE  SemOwnership'
BY DEF SemOwnership

\* sys_fork and sys_create_thread, with or without success.
LEMMA SpawnOwnership ==
    ASSUME SemInv, new_task \/ new_task_fails
    PROVE  SemOwnership'
<1> DEFINE child == Head(lists["freequeue"])
<1>0. IInv /\ SemOwnership /\ owned \in [Tasks -> Seq(Sems)] /\ current \in Tasks
  BY Facts DEF SemInv, SemaphoresSound, TypeOK
<1>1. CASE new_task
  <2>1. Spawn /\ owned' = [owned EXCEPT ![child] = << >>] /\ UNCHANGED <<parent, freesems>>
    BY <1>1 DEF new_task
  <2>2. /\ child \in Members("freequeue") /\ child \in Tasks
        /\ Members("freequeue")' = Members("freequeue") \ {child}
    BY <1>0, <2>1, SpawnShape, ReusingSets
  <2> HIDE DEF child
  <2>3. {s \in Sems : parent[s] = child} = {}
    BY <1>0, <2>2 DEF SemOwnership
  <2>4. ASSUME NEW t \in Tasks \ Members("freequeue")'
        PROVE  IsInjective(owned'[t]) /\ Range(owned'[t]) = {s \in Sems : parent'[s] = t}
    <3>1. CASE t = child
      BY <1>0, <2>1, <2>2, <2>3, <3>1, RangeOfEmpty
    <3>2. CASE t # child
      BY <1>0, <2>1, <2>2, <2>4, <3>2 DEF SemOwnership
    <3> QED BY <3>1, <3>2
  <2> QED BY <1>0, <2>1, <2>2, <2>4 DEF SemOwnership
<1>2. CASE new_task_fails
  <2>1. /\ SpawnFails /\ owned' = [owned EXCEPT ![child] = owned[current]]
        /\ UNCHANGED <<parent, freesems>>
    BY <1>2 DEF new_task_fails
  <2>2. /\ child \in Members("freequeue") /\ child \in Tasks
        /\ Members("freequeue")' = Members("freequeue")
    BY <1>0, <2>1, SpawnFailsShape, ReusingSets
  <2> HIDE DEF child
  <2>3. \A t \in Tasks \ Members("freequeue") : owned'[t] = owned[t]
    BY <1>0, <2>1, <2>2
  <2> QED BY <1>0, <2>1, <2>2, <2>3 DEF SemOwnership
<1> QED BY <1>1, <1>2

\* sys_exit gives back everything current owns.
LEMMA ExitOwnership == ASSUME SemInv, sys_exit PROVE SemOwnership'
<1> DEFINE mine == owned[current]
<1>0. /\ IInv /\ SemOwnership /\ owned \in [Tasks -> Seq(Sems)] /\ freesems \in Seq(Sems)
      /\ parent \in [Sems -> Tasks \cup {NoTask}]
  BY DEF SemInv, SemaphoresSound, TypeOK
<1>1. /\ Range(mine) \in SUBSET Sems /\ mine \in SetToSeqs(Range(mine))
      /\ IsInjective(mine) /\ mine \in Seq(Sems)
      /\ Range(mine) = {s \in Sems : parent[s] = current}
      /\ current \notin Members("freequeue") /\ current \in Tasks
  BY OwnedOrder
<1>2. /\ Exit(mine) /\ parent' = Disowned(Range(mine))
      /\ freesems' = freesems \o mine /\ owned' = [owned EXCEPT ![current] = << >>]
  BY DEF sys_exit
<1>3. Members("freequeue")' = Members("freequeue") \cup {current}
  <2>1. Leaving("freequeue", Range(mine))
    BY <1>0, <1>1, <1>2, ExitShape
  <2>2. \A t : t \in Members("freequeue")' <=> t \in Members("freequeue") \/ t = current
    BY <1>0, <2>1, LeavingSets DEF Switches
  <2> QED BY <2>2
<1> HIDE DEF mine
<1>4. NoTask \notin Members("freequeue")'
  <2>1. IInv'
    BY <1>0, <1>1, <1>2, ExitShape, LeavesInv DEF Leaving
  <2>2. Members("freequeue")' \subseteq Tasks
    <3>1. lists'["freequeue"] \in Seq(Tasks)
      BY <2>1, QueueNames DEF IInv, SchedTypeOK
    <3> QED BY <3>1, ElementOfSeq, LenProperties DEF Members, Range
  <2> QED BY <2>2, NoTaskAssumption
<1>5. \A s \in Sems : parent'[s] = IF s \in Range(mine) THEN NoTask ELSE parent[s]
  BY <1>2 DEF Disowned
<1>6. IsInjective(freesems')
  <2>1. Range(freesems) \cap Range(mine) = {}
    BY <1>0, <1>1, NoTaskAssumption DEF SemOwnership
  <2> QED BY <1>0, <1>1, <1>2, <2>1, ConcatFacts DEF SemOwnership
<1>7. \A s \in Sems : s \in Range(freesems') <=> parent'[s] = NoTask
  <2>1. Range(freesems') = Range(freesems) \cup Range(mine)
    BY <1>0, <1>1, <1>2, ConcatFacts
  <2> QED BY <1>0, <1>5, <2>1 DEF SemOwnership
<1>8. \A s \in Sems : parent'[s] \notin Members("freequeue")'
  BY <1>0, <1>1, <1>3, <1>4, <1>5 DEF SemOwnership
<1>9. ASSUME NEW t \in Tasks \ Members("freequeue")'
      PROVE  IsInjective(owned'[t]) /\ Range(owned'[t]) = {s \in Sems : parent'[s] = t}
  <2>1. t # current /\ t \notin Members("freequeue") /\ owned'[t] = owned[t] /\ t # NoTask
    BY <1>0, <1>2, <1>3, <1>9, NoTaskAssumption
  <2>2. \A s \in Sems : parent'[s] = t <=> parent[s] = t
    BY <1>1, <1>5, <2>1
  <2> QED BY <1>0, <2>1, <2>2 DEF SemOwnership
<1> QED BY <1>6, <1>7, <1>8, <1>9 DEF SemOwnership

\* semCreate hands current the first free semaphore.
LEMMA CreateOwnership ==
    ASSUME SemInv, NEW v \in InitialValues, sys_semCreate(v)
    PROVE  SemOwnership'
<1>0. /\ IInv /\ SemOwnership /\ owned \in [Tasks -> Seq(Sems)] /\ freesems \in Seq(Sems)
      /\ parent \in [Sems -> Tasks \cup {NoTask}]
  BY DEF SemInv, SemaphoresSound, TypeOK
<1>1. /\ IsInjective(owned[current]) /\ owned[current] \in Seq(Sems)
      /\ Range(owned[current]) = {s \in Sems : parent[s] = current}
      /\ current \notin Members("freequeue") /\ current \in Tasks
  BY OwnedOrder
<1>2. PICK s : s = Head(freesems)
  OBVIOUS
<1>3. /\ s \in Sems /\ s \in Range(freesems) /\ Range(freesems) = Range(freesems') \cup {s}
      /\ IsInjective(freesems') /\ s \notin Range(freesems')
  BY <1>0, <1>2, HeadTailFacts DEF sys_semCreate, SemOwnership
<1>4. /\ InitSemList(s) /\ parent' = [parent EXCEPT ![s] = current]
      /\ owned' = [owned EXCEPT ![current] = Append(owned[current], s)]
  BY <1>2 DEF sys_semCreate
<1>5. Members("freequeue")' = Members("freequeue")
  BY <1>0, <1>3, <1>4, InitSemListShape, FreeKept
<1>6. parent[s] = NoTask /\ current # NoTask
  BY <1>0, <1>1, <1>3, NoTaskAssumption DEF SemOwnership
<1>7. \A u \in Sems : parent'[u] = IF u = s THEN current ELSE parent[u]
  BY <1>0, <1>3, <1>4
<1>8. \A u \in Sems : u \in Range(freesems') <=> parent'[u] = NoTask
  BY <1>0, <1>3, <1>6, <1>7 DEF SemOwnership
<1>9. ASSUME NEW t \in Tasks \ Members("freequeue")'
      PROVE  IsInjective(owned'[t]) /\ Range(owned'[t]) = {u \in Sems : parent'[u] = t}
  <2>1. CASE t = current
    <3>1. owned'[t] = Append(owned[current], s) /\ s \notin Range(owned[current])
      BY <1>0, <1>1, <1>4, <1>6, <2>1
    <3>2. IsInjective(owned'[t]) /\ Range(owned'[t]) = Range(owned[current]) \cup {s}
      BY <1>1, <1>3, <3>1, AppendFacts
    <3> QED BY <1>1, <1>3, <1>7, <2>1, <3>2
  <2>2. CASE t # current
    <3>1. owned'[t] = owned[t] /\ t \notin Members("freequeue") /\ t # NoTask
      BY <1>0, <1>4, <1>5, <1>9, <2>2, NoTaskAssumption
    <3>2. \A u \in Sems : parent'[u] = t <=> parent[u] = t
      BY <1>6, <1>7, <2>2, <3>1
    <3> QED BY <1>0, <3>1, <3>2 DEF SemOwnership
  <2> QED BY <2>1, <2>2
<1> QED BY <1>0, <1>1, <1>3, <1>5, <1>7, <1>8, <1>9 DEF SemOwnership

\* semDestroy gives one back.
LEMMA DestroyOwnership ==
    ASSUME SemInv, NEW s \in Sems, sys_semDestroy(s)
    PROVE  SemOwnership'
<1>0. /\ IInv /\ SemOwnership /\ owned \in [Tasks -> Seq(Sems)] /\ freesems \in Seq(Sems)
      /\ parent \in [Sems -> Tasks \cup {NoTask}]
  BY DEF SemInv, SemaphoresSound, TypeOK
<1>1. /\ IsInjective(owned[current]) /\ owned[current] \in Seq(Sems)
      /\ Range(owned[current]) = {u \in Sems : parent[u] = current}
      /\ current \notin Members("freequeue") /\ current \in Tasks
  BY OwnedOrder
<1>2. /\ parent[s] = current /\ WakeAll(s) /\ parent' = Disowned({s})
      /\ owned' = [owned EXCEPT ![current] =
                     Keep(owned[current], Range(owned[current]) \ {s})]
      /\ freesems' = Append(freesems, s)
  BY DEF sys_semDestroy
<1>3. Members("freequeue")' = Members("freequeue")
  BY <1>0, <1>2, WakeAllShape, FreeKept
<1>4. current # NoTask /\ s \notin Range(freesems)
  BY <1>0, <1>1, <1>2, NoTaskAssumption DEF SemOwnership
<1>5. IsInjective(freesems') /\ Range(freesems') = Range(freesems) \cup {s}
  BY <1>0, <1>2, <1>4, AppendFacts DEF SemOwnership
<1>6. \A u \in Sems : parent'[u] = IF u = s THEN NoTask ELSE parent[u]
  BY <1>2 DEF Disowned
<1>7. \A u \in Sems : u \in Range(freesems') <=> parent'[u] = NoTask
  BY <1>0, <1>5, <1>6 DEF SemOwnership
<1>8. NoTask \notin Members("freequeue")
  <2>1. lists["freequeue"] \in Seq(Tasks)
    BY <1>0, Facts, QueueNames DEF Sound
  <2>2. Members("freequeue") \subseteq Tasks
    BY <2>1, ElementOfSeq, LenProperties DEF Members, Range
  <2> QED BY <2>2, NoTaskAssumption
<1>9. ASSUME NEW t \in Tasks \ Members("freequeue")'
      PROVE  IsInjective(owned'[t]) /\ Range(owned'[t]) = {u \in Sems : parent'[u] = t}
  <2>1. CASE t = current
    <3>1. owned'[t] = Keep(owned[current], Range(owned[current]) \ {s})
      BY <1>0, <1>2, <2>1
    <3>2. IsInjective(owned'[t]) /\ Range(owned'[t]) = Range(owned[current]) \ {s}
      BY <1>1, <3>1, KeepFacts
    <3> QED BY <1>1, <1>2, <1>4, <1>6, <2>1, <3>2
  <2>2. CASE t # current
    <3>1. owned'[t] = owned[t] /\ t \notin Members("freequeue") /\ t # NoTask
      BY <1>0, <1>2, <1>3, <1>9, <2>2, NoTaskAssumption
    <3>2. \A u \in Sems : parent'[u] = t <=> parent[u] = t
      BY <1>2, <1>6, <2>2, <3>1
    <3> QED BY <1>0, <3>1, <3>2 DEF SemOwnership
  <2> QED BY <2>1, <2>2
<1> QED BY <1>0, <1>3, <1>5, <1>6, <1>7, <1>8, <1>9 DEF SemOwnership

\* A semaphore stays free or the property of one task that lives.
LEMMA OwnershipStep == SemInv /\ [Next]_vars => SemOwnership'
<1> SUFFICES ASSUME SemInv, [Next]_vars PROVE SemOwnership'
  OBVIOUS
<1>0. IInv /\ SemOwnership
  BY DEF SemInv, SemaphoresSound
<1>1. CASE clock_routine
  <2>1. \/ Returning({"blocked"}) \/ Leaving("readyqueue", {"blocked"})
    BY <1>0, <1>1, ClockShape DEF clock_routine
  <2> QED BY <1>0, <1>1, <2>1, FreeKept, OwnershipKept DEF clock_routine, semVars
<1>2. CASE keyboard_routine
  BY <1>0, <1>2, WakeKeyWaiterShape, FreeKept, OwnershipKept DEF keyboard_routine, semVars
<1>3. CASE sys_yield
  BY <1>0, <1>3, YieldShape, FreeKept, OwnershipKept DEF sys_yield, semVars
<1>4. CASE new_task \/ new_task_fails
  BY <1>4, SpawnOwnership
<1>5. CASE sys_exit
  BY <1>5, ExitOwnership
<1>6. CASE Stats \/ getKey_now \/ UNCHANGED vars
  <2>1. UNCHANGED <<schedVars, parent, owned, freesems>>
    BY <1>6 DEF Stats, sys_get_stats, getKey_now, vars, semVars
  <2> QED BY <1>0, <2>1, OwnershipKept DEF schedVars, Members
<1>7. ASSUME NEW timeout \in Timeouts, getKey_wait(timeout) PROVE SemOwnership'
  <2>1. Leaving("blocked", {})
    BY <1>0, <1>7, BlockShape, QueueNames DEF getKey_wait, BlockCalls
  <2> QED BY <1>0, <1>7, <2>1, FreeKept, OwnershipKept DEF getKey_wait, semVars
<1>8. ASSUME NEW s \in Sems, sys_semWait(s) PROVE SemOwnership'
  <2>1. CASE WaitBlocks(s)
    <3>1. Leaving(s, {})
      BY <1>0, <1>8, <2>1, BlockShape, QueueNames DEF sys_semWait, BlockCalls
    <3> QED BY <1>0, <1>8, <3>1, FreeKept, OwnershipKept, QueueNames DEF sys_semWait
  <2>2. CASE ~WaitBlocks(s)
    BY <1>0, <1>8, <2>2, OwnershipKept DEF sys_semWait, schedVars, Members
  <2> QED BY <2>1, <2>2
<1>9. ASSUME NEW s \in Sems, sys_semSignal(s) PROVE SemOwnership'
  <2>1. CASE WakeFirst(s)
    BY <1>0, <1>9, <2>1, WakeFirstShape, FreeKept, OwnershipKept DEF sys_semSignal
  <2>2. CASE UNCHANGED schedVars
    BY <1>0, <1>9, <2>2, OwnershipKept DEF sys_semSignal, schedVars, Members
  <2> QED BY <1>9, <2>1, <2>2 DEF sys_semSignal
<1> QED BY <1>1, <1>2, <1>3, <1>4, <1>5, <1>6, <1>7, <1>8, <1>9, CreateOwnership,
           DestroyOwnership
        DEF Next, sys_getKey

\* The invariant holds at start-up.
LEMMA SemInit == Init => SemInv
<1> SUFFICES ASSUME Init PROVE SemInv
  OBVIOUS
<1>1. IInv /\ SchedTypeOK
  BY InitInv DEF Init, IInv
<1>2. freesems = BootSems /\ BootSems \in Seq(Sems) /\ IsInjective(BootSems)
      /\ Range(BootSems) = Sems
  BY BootSemsAssumption DEF Init
<1>3. /\ parent = [s \in Sems |-> NoTask] /\ owned = [t \in Tasks |-> << >>]
      /\ count = [s \in Sems |-> 0] /\ remaining_ticks = [t \in Tasks |-> 0]
      /\ numKeys = 0 /\ waitKey = 0 /\ made = {}
  BY DEF Init
<1>4. owned \in [Tasks -> Seq(Sems)] /\ parent \in [Sems -> Tasks \cup {NoTask}]
      /\ count \in [Sems -> Int] /\ remaining_ticks \in [Tasks -> Int]
  BY <1>3
<1>5. TypeOK
  BY <1>1, <1>2, <1>3, <1>4, BufferAssumption DEF TypeOK
<1>6. Members("freequeue") \subseteq Tasks
  BY TaskAssumption, QueueNames DEF Init, SchedInit, Members
<1>7. SemOwnership
  BY <1>2, <1>3, <1>6, RangeOfEmpty, NoTaskAssumption DEF SemOwnership
<1> QED BY <1>1, <1>5, <1>7 DEF SemInv, SemaphoresSound

\* And every step keeps it.
LEMMA SemStep == SemInv /\ [Next]_vars => SemInv'
BY IInvStep, TypeStep, OwnershipStep DEF SemInv, SemaphoresSound

\* A semaphore is free or belongs to one task that has not exited, and the
\* free list, sem_t.parent and the owners' lists agree, whatever is created,
\* destroyed, forked and exited.
THEOREM SemaphoresStaySound == Spec => []SemaphoresSound
<1>1. SemInv => SemaphoresSound
  BY DEF SemInv
<1> QED BY <1>1, SemInit, SemStep, PTL DEF Spec

\* The kernel's services use the scheduler as Sched allows: what is proved of
\* Sched's steps holds of Tasks, sys_exit's order of destruction included.
THEOREM ServicesUseSched == Spec => SchedInit /\ [][SchedNext]_schedVars
<1>1. Init => SchedInit
  BY DEF Init
<1> QED BY <1>1, SemInit, SemStep, SchedStep, PTL DEF Spec
-----------------------------------------------------------------------------
(* The tasks inside getKey.  That waitKey counts them is not inductive: it  *)
(* takes that the frame a waiter saved tells in which call it waits, so     *)
(* that the task switched to is one of them exactly when it resumes there.  *)

KeyFrames ==
    /\ \A t \in Members("blocked") : register_esp[t] = "sys_getKey"
    /\ \A s \in Sems : \A t \in Members(s) : register_esp[t] = "sys_semWait"
    /\ register_esp[Idle] # "sys_getKey"

\* The tasks waitKey has to count.
InsideGetKey == Members("blocked") \cup WokenForKey

\* Tasks are finitely many, so waiters can be counted.
LEMMA FiniteTasks == IsFiniteSet(Tasks)
<1>1. IsFiniteSet(Range(BootFree)) /\ Range(BootFree) = Tasks \ {Idle, Task1}
      /\ Idle \in Tasks /\ Task1 \in Tasks
  BY TaskAssumption, InjectiveLen
<1>2. Tasks = (Range(BootFree) \cup {Idle}) \cup {Task1}
  BY <1>1
<1> QED BY <1>1, <1>2, FS_AddElement

\* Everybody on a list is a task.
LEMMA MembersAreTasks ==
    ASSUME IInv
    PROVE  /\ \A q \in Queues : Members(q) \subseteq Tasks \ {current}
           /\ \A q, r \in Queues : q # r => Members(q) \cap Members(r) = {}
           /\ \A q \in Queues : Members(q) = {} <=> lists[q] = << >>
           /\ Idle \notin Members("blocked") /\ \A s \in Sems : Idle \notin Members(s)
           /\ InsideGetKey \subseteq Tasks /\ WokenForKey \subseteq Tasks
           /\ register_esp \in [Tasks -> Frames]
<1>1. Sound(lists, state) /\ Off(lists, current) /\ register_esp \in [Tasks -> Frames]
  BY Facts DEF SchedTypeOK
<1>2. ASSUME NEW q \in Queues PROVE Members(q) \subseteq Tasks
  <2>1. lists[q] \in Seq(Tasks)
    BY <1>1 DEF Sound
  <2> QED BY <2>1, ElementOfSeq, LenProperties DEF Members, Range
<1>3. \A q \in Queues : Members(q) = {} <=> lists[q] = << >>
  BY <1>1, EmptyFacts DEF Sound, Members
<1>4. Idle \notin Members("blocked") /\ \A s \in Sems : Idle \notin Members(s)
  BY <1>1, QueueNames DEF Sound, Members
<1>5. InsideGetKey \subseteq Tasks /\ WokenForKey \subseteq Tasks
  BY <1>2, QueueNames DEF InsideGetKey, WokenForKey
<1> QED BY <1>1, <1>2, <1>3, <1>4, <1>5 DEF Sound, Off, Members

\* A handler that returns leaves them inside, at most made ready.
LEMMA ReturningKeys ==
    ASSUME IInv, KeyFrames, NEW S, Returning(S)
    PROVE  /\ KeyFrames' /\ InsideGetKey' = InsideGetKey /\ current' = current
           /\ WokenForKey \subseteq WokenForKey'
           /\ Members("blocked")' \subseteq Members("blocked")
<1>1. PICK W : /\ current' = current /\ register_esp' = register_esp
               /\ \A p \in WaitQueues : \A t :
                    t \in Members(p)' <=> t \in Members(p) /\ t \notin W
               /\ \A t : t \in Members("readyqueue")' <=> t \in Members("readyqueue") \/ t \in W
               /\ \A t \in W : \E p \in WaitQueues \cap S : t \in Members(p)
  BY ReturningSets
<1>2. "blocked" \in WaitQueues /\ Sems \subseteq WaitQueues /\ WaitQueues = {"blocked"} \cup Sems
  BY DEF WaitQueues
<1>3. KeyFrames'
  BY <1>1, <1>2 DEF KeyFrames
<1>4. \A t : t \in InsideGetKey' <=> t \in InsideGetKey
  BY <1>1, <1>2 DEF KeyFrames, InsideGetKey, WokenForKey
<1> QED BY <1>1, <1>2, <1>3, <1>4 DEF WokenForKey

\* semCreate does not concern them.
LEMMA CreatingKeys ==
    ASSUME IInv, KeyFrames, NEW s \in Sems, Creating(s)
    PROVE  /\ KeyFrames' /\ InsideGetKey' = InsideGetKey
           /\ WokenForKey' = WokenForKey /\ Members("blocked")' = Members("blocked")
<1>1. /\ register_esp' = register_esp /\ Members(s)' = {}
      /\ \A p \in Queues \ {s} : Members(p)' = Members(p)
  BY CreatingSets
<1> QED BY <1>1, QueueNames DEF KeyFrames, InsideGetKey, WokenForKey

\* Nor do fork and create_thread, with or without success.
LEMMA ReusingKeys ==
    ASSUME IInv, KeyFrames, NEW q, Reusing(q)
    PROVE  /\ KeyFrames' /\ InsideGetKey' = InsideGetKey
           /\ WokenForKey' = WokenForKey /\ Members("blocked")' = Members("blocked")
<1>1. PICK child : child = Head(lists["freequeue"])
  OBVIOUS
<1>2. /\ child \in Members("freequeue") /\ child \in Tasks \ {current, Idle}
      /\ \A t \in Tasks \ {child} : register_esp'[t] = register_esp[t]
      /\ \A p \in WaitQueues : Members(p)' = Members(p)
      /\ q = "freequeue" => Members("readyqueue")' = Members("readyqueue")
      /\ q = "readyqueue" => /\ Members("readyqueue")' = Members("readyqueue") \cup {child}
                             /\ register_esp'[child] = "new"
      /\ q \in {"freequeue", "readyqueue"}
  BY <1>1, ReusingSets
<1>3. \A r \in Queues \ {"freequeue"} : child \notin Members(r) /\ Members(r) \subseteq Tasks
  BY <1>2, MembersAreTasks, QueueNames
<1>4. \A p \in WaitQueues : \A t \in Members(p) : register_esp'[t] = register_esp[t]
  BY <1>2, <1>3, QueueNames
<1>5. \A t \in Members("readyqueue") : t # child /\ register_esp'[t] = register_esp[t]
  BY <1>2, <1>3, QueueNames
<1>6. KeyFrames'
  <2>1. register_esp'[Idle] = register_esp[Idle]
    BY <1>2, TaskAssumption
  <2>2. "blocked" \in WaitQueues /\ Sems \subseteq WaitQueues
    BY DEF WaitQueues
  <2>3. \A t \in Members("blocked")' : register_esp'[t] = "sys_getKey"
    BY <1>2, <1>4, <2>2 DEF KeyFrames
  <2>4. \A s \in Sems : \A t \in Members(s)' : register_esp'[t] = "sys_semWait"
    BY <1>2, <1>4, <2>2 DEF KeyFrames
  <2> QED BY <2>1, <2>3, <2>4 DEF KeyFrames
<1>7. \A t : t \in WokenForKey' <=> t \in WokenForKey
  BY <1>2, <1>5 DEF WokenForKey
<1> QED BY <1>2, <1>6, <1>7 DEF InsideGetKey, WaitQueues

\* A handler that switches: current enters getKey if it joins `blocked', and
\* the task that runs next leaves it, exactly when it resumes in sys_getKey.
LEMMA LeavingKeys ==
    ASSUME IInv, KeyFrames, NEW q, NEW S, Leaving(q, S)
    PROVE  /\ KeyFrames' /\ current \notin InsideGetKey
           /\ q = "blocked" => current' # current
           /\ InsideGetKey' = (IF q = "blocked" THEN InsideGetKey \cup {current} ELSE InsideGetKey)
                                \ {current'}
           /\ WokenForKey \ {current'} \subseteq WokenForKey'
           /\ q # "blocked" => Members("blocked")' \subseteq Members("blocked")
           /\ current' # current /\ register_esp[current'] = "sys_getKey"
                <=> current' \in InsideGetKey
<1>move. PICK W, call : /\ Switches(W, q, call)
                       /\ \A t \in W : \E p \in WaitQueues \cap S : t \in Members(p)
  BY LeavingSets
<1>0. /\ current' \in Tasks /\ current \notin W
      /\ q \in Queues /\ (current = Idle => q = "readyqueue")
      /\ q = "blocked" <=> call = "sys_getKey"
      /\ q \in Sems <=> call = "sys_semWait"
      /\ register_esp' = [register_esp EXCEPT ![current] = call]
      /\ current' = current => q = "readyqueue"
      /\ current' \in Members("readyqueue") \cup W \cup {current, Idle}
      /\ \A p \in WaitQueues : \A t :
           t \in Members(p)' <=> (t \in Members(p) /\ t \notin W) \/ (t = current /\ p = q)
      /\ \A t : t \in Members("readyqueue")'
                  <=> /\ \/ t \in Members("readyqueue") \/ t \in W
                         \/ t = current /\ q = "readyqueue"
                      /\ t # current'
  BY <1>move DEF Switches
<1>1. /\ \A p \in Queues : Members(p) \subseteq Tasks \ {current}
      /\ \A p, r \in Queues : p # r => Members(p) \cap Members(r) = {}
      /\ register_esp \in [Tasks -> Frames]
      /\ Idle \notin Members("blocked") /\ \A s \in Sems : Idle \notin Members(s)
  BY MembersAreTasks
<1>2. "blocked" \in WaitQueues /\ WaitQueues = {"blocked"} \cup Sems /\ WaitQueues \subseteq Queues
  BY QueueNames DEF WaitQueues
<1>3. \A t : t # current => register_esp'[t] = register_esp[t]
  BY <1>0
<1>4. current \in Tasks /\ register_esp'[current] = call
  BY <1>0, <1>1, Facts
<1>5. KeyFrames'
  <2>1. \A t \in Members("blocked")' : register_esp'[t] = "sys_getKey"
    BY <1>0, <1>1, <1>2, <1>3, <1>4 DEF KeyFrames
  <2>2. \A s \in Sems : \A t \in Members(s)' : register_esp'[t] = "sys_semWait"
    BY <1>0, <1>1, <1>2, <1>3, <1>4 DEF KeyFrames
  <2>3. register_esp'[Idle] # "sys_getKey"
    BY <1>0, <1>3, <1>4, QueueNames DEF KeyFrames
  <2> QED BY <2>1, <2>2, <2>3 DEF KeyFrames
<1>6. current \notin InsideGetKey
  BY <1>1, QueueNames DEF InsideGetKey, WokenForKey
<1>7. \A t \in W : t \in Members("blocked") \/ \E s \in Sems : t \in Members(s)
  BY <1>move, <1>2
<1>8. \A t \in W : register_esp[t] = "sys_getKey" <=> t \in Members("blocked")
  BY <1>7 DEF KeyFrames
<1>9. current' # current /\ register_esp[current'] = "sys_getKey" <=> current' \in InsideGetKey
  <2>1. ASSUME current' # current, register_esp[current'] = "sys_getKey"
        PROVE  current' \in InsideGetKey
    BY <1>0, <1>8, <2>1 DEF KeyFrames, InsideGetKey, WokenForKey
  <2> QED BY <1>6, <2>1 DEF KeyFrames, InsideGetKey, WokenForKey
<1>10. \A t : t \in InsideGetKey'
                <=> (t \in InsideGetKey \/ (t = current /\ q = "blocked")) /\ t # current'
  <2> SUFFICES ASSUME NEW t
               PROVE  t \in InsideGetKey'
                <=> (t \in InsideGetKey \/ (t = current /\ q = "blocked")) /\ t # current'
    OBVIOUS
  <2>0. /\ t \in InsideGetKey' <=> \/ t \in Members("blocked")'
                                   \/ t \in Members("readyqueue")' /\ register_esp'[t] = "sys_getKey"
        /\ t \in InsideGetKey <=> \/ t \in Members("blocked")
                                  \/ t \in Members("readyqueue") /\ register_esp[t] = "sys_getKey"
    BY DEF InsideGetKey, WokenForKey
  <2>1. CASE t = current
    <3>1. t \in InsideGetKey' <=> q = "blocked"
      BY <1>0, <1>1, <1>2, <1>4, <2>0, <2>1, QueueNames
    <3> QED BY <1>0, <1>6, <2>1, <3>1
  <2>2. CASE t # current
    <3>1. t \in Members("blocked")' <=> t \in Members("blocked") /\ t \notin W
      BY <1>0, <1>2, <2>2
    <3>2. t \in Members("readyqueue")' <=> (t \in Members("readyqueue") \/ t \in W) /\ t # current'
      BY <1>0, <2>2
    <3>3. t = current' /\ t \in Members("blocked") => t \in W
      BY <1>0, <1>1, <1>2, <2>2, QueueNames
    <3> QED BY <1>3, <1>8, <2>0, <2>2, <3>1, <3>2, <3>3 DEF KeyFrames
  <2> QED BY <2>1, <2>2
<1>11. WokenForKey \ {current'} \subseteq WokenForKey'
  <2>1. \A t \in WokenForKey : t # current
    BY <1>6 DEF InsideGetKey
  <2> QED BY <1>0, <1>3, <2>1 DEF WokenForKey
<1>12. q # "blocked" => Members("blocked")' \subseteq Members("blocked")
  BY <1>0, <1>2
<1>13. InsideGetKey' = (IF q = "blocked" THEN InsideGetKey \cup {current} ELSE InsideGetKey)
                         \ {current'}
  BY <1>10
<1> QED BY <1>0, <1>5, <1>6, <1>9, <1>11, <1>12, <1>13, QueueNames

\* A finite set of tasks, by its number of elements.
LEMMA InsideFinite ==
    ASSUME IInv
    PROVE  /\ IsFiniteSet(InsideGetKey) /\ Cardinality(InsideGetKey) \in Nat
           /\ IsFiniteSet(WokenForKey) /\ Cardinality(WokenForKey) \in Nat
<1>1. InsideGetKey \in SUBSET Tasks /\ WokenForKey \in SUBSET Tasks
  BY MembersAreTasks
<1> QED BY <1>1, FiniteTasks, FS_Subset, FS_CardinalityType

\* The same after a step.
LEMMA WokenFiniteNext ==
    ASSUME IInv'
    PROVE  IsFiniteSet(WokenForKey') /\ Cardinality(WokenForKey') \in Nat
<1>1. lists'["readyqueue"] \in Seq(Tasks)
  BY QueueNames DEF IInv, SchedTypeOK
<1>2. WokenForKey' \in SUBSET Tasks
  BY <1>1, ElementOfSeq, LenProperties DEF WokenForKey, Members, Range
<1> QED BY <1>2, FiniteTasks, FS_Subset, FS_CardinalityType

\* The switch keeps the count, and the keys spoken for: current is counted when
\* it blocks on `blocked', the task that resumes in sys_getKey no longer is.
LEMMA ResumeCounts ==
    ASSUME IInv, IInv', KeyFrames, WaitKeyCounts, NEW q, NEW S, Leaving(q, S),
           NEW n \in Nat, Resume(IF q = "blocked" THEN waitKey + 1 ELSE waitKey, n)
    PROVE  /\ WaitKeyCounts'
           /\ n <= Cardinality(WokenForKey) => numKeys' <= Cardinality(WokenForKey')
<1>1. /\ current \notin InsideGetKey
      /\ q = "blocked" => current' # current
      /\ InsideGetKey' = (IF q = "blocked" THEN InsideGetKey \cup {current} ELSE InsideGetKey)
                           \ {current'}
      /\ WokenForKey \ {current'} \subseteq WokenForKey'
      /\ current' # current /\ register_esp[current'] = "sys_getKey"
           <=> current' \in InsideGetKey
  BY LeavingKeys
<1>2. /\ IsFiniteSet(InsideGetKey) /\ Cardinality(InsideGetKey) \in Nat
      /\ IsFiniteSet(WokenForKey) /\ Cardinality(WokenForKey) \in Nat
      /\ IsFiniteSet(WokenForKey') /\ Cardinality(WokenForKey') \in Nat
  BY InsideFinite, WokenFiniteNext
<1>3. waitKey = Cardinality(InsideGetKey) /\ (WaitKeyCounts' <=> waitKey' = Cardinality(InsideGetKey'))
  BY DEF WaitKeyCounts, InsideGetKey
<1>4. PICK joined : joined = IF q = "blocked" THEN InsideGetKey \cup {current} ELSE InsideGetKey
  OBVIOUS
<1>5. /\ IsFiniteSet(joined)
      /\ Cardinality(joined) = IF q = "blocked" THEN waitKey + 1 ELSE waitKey
      /\ current' \in joined <=> current' \in InsideGetKey
  BY <1>1, <1>2, <1>3, <1>4, FS_AddElement
<1>6. Cardinality(InsideGetKey')
        = IF current' \in InsideGetKey THEN Cardinality(joined) - 1 ELSE Cardinality(joined)
  BY <1>1, <1>4, <1>5, FS_RemoveElement
<1>7. waitKey' = IF current' \in InsideGetKey THEN Cardinality(joined) - 1 ELSE Cardinality(joined)
  BY <1>1, <1>5 DEF Resume
<1>8. numKeys' = IF current' \in InsideGetKey THEN AfterHead(n) ELSE n
  BY <1>1 DEF Resume
<1>9. Cardinality(WokenForKey \ {current'}) <= Cardinality(WokenForKey')
  BY <1>1, <1>2, FS_Subset
<1>10. Cardinality(WokenForKey \ {current'})
         = IF current' \in WokenForKey THEN Cardinality(WokenForKey) - 1
                                       ELSE Cardinality(WokenForKey)
  BY <1>2, FS_RemoveElement
<1>11. current' \in WokenForKey => current' \in InsideGetKey
  BY DEF InsideGetKey
<1>12. ASSUME n <= Cardinality(WokenForKey) PROVE numKeys' <= Cardinality(WokenForKey')
  <2>1. Cardinality(WokenForKey \ {current'}) \in Int
    BY <1>2, <1>10
  <2>2. CASE current' \in InsideGetKey
    BY <1>2, <1>8, <1>9, <1>10, <1>12, <2>1, <2>2 DEF AfterHead
  <2>3. CASE current' \notin InsideGetKey
    BY <1>2, <1>8, <1>9, <1>10, <1>11, <1>12, <2>1, <2>3
  <2> QED BY <2>2, <2>3
<1> QED BY <1>3, <1>6, <1>7, <1>12

\* The handlers that return leave the count alone.
LEMMA CountsKept ==
    ASSUME WaitKeyCounts, waitKey' = waitKey, InsideGetKey' = InsideGetKey
    PROVE  WaitKeyCounts'
BY DEF WaitKeyCounts, InsideGetKey

\* What the count of waiters and the spared keys rest on.
KeyPart == KeyFrames /\ WaitKeyCounts /\ NoSleepWithSpareKey

\* No sleep with a spare key, as a bound on the keys.
LEMMA SpareIs ==
    ASSUME IInv
    PROVE  NoSleepWithSpareKey <=> (Members("blocked") # {} => numKeys <= Cardinality(WokenForKey))
BY MembersAreTasks, QueueNames DEF NoSleepWithSpareKey

\* The same of the state a step leads to.
LEMMA SpareIsNext ==
    ASSUME IInv'
    PROVE  NoSleepWithSpareKey'
             <=> (Members("blocked")' # {} => numKeys' <= Cardinality(WokenForKey'))
<1>1. lists'["blocked"] \in Seq(Tasks)
  BY QueueNames DEF IInv, SchedTypeOK
<1>2. Members("blocked")' = {} <=> lists'["blocked"] = << >>
  BY <1>1, EmptyFacts DEF Members
<1> QED BY <1>2 DEF NoSleepWithSpareKey

\* A handler that switches, and on a list other than `blocked' if it queues
\* current at all.
LEMMA LeavingPart ==
    ASSUME IInv, IInv', KeyPart, numKeys \in Nat, NEW q, NEW S, Leaving(q, S),
           q # "blocked", Resume(waitKey, numKeys)
    PROVE  KeyPart'
<1>1. KeyFrames' /\ Members("blocked")' \subseteq Members("blocked")
  BY LeavingKeys DEF KeyPart
<1>2. /\ WaitKeyCounts'
      /\ numKeys <= Cardinality(WokenForKey) => numKeys' <= Cardinality(WokenForKey')
  BY ResumeCounts DEF KeyPart
<1> QED BY <1>1, <1>2, SpareIs, SpareIsNext DEF KeyPart

\* A handler that returns without taking or adding a key.
LEMMA StayingPart ==
    ASSUME IInv, IInv', KeyPart, numKeys \in Nat, KeyFrames', InsideGetKey' = InsideGetKey,
           WokenForKey \subseteq WokenForKey', Members("blocked")' \subseteq Members("blocked"),
           waitKey' = waitKey, numKeys' \in Nat, numKeys' <= numKeys
    PROVE  KeyPart'
<1>1. Cardinality(WokenForKey) <= Cardinality(WokenForKey')
  BY WokenFiniteNext, FS_Subset
<1>2. Cardinality(WokenForKey) \in Nat /\ Cardinality(WokenForKey') \in Nat
  BY InsideFinite, WokenFiniteNext
<1> QED BY <1>1, <1>2, CountsKept, SpareIs, SpareIsNext DEF KeyPart

\* The task that waits longest is made ready by a break code, and the key it is
\* to find stays in the buffer until it runs.
LEMMA KeyboardPart ==
    ASSUME SemInv, IInv', KeyPart, keyboard_routine
    PROVE  KeyPart'
<1>0. IInv /\ numKeys \in 0..MAX_BUFF /\ SemInv
  BY DEF SemInv, SemaphoresSound, TypeOK
<1>1. /\ WakeKeyWaiter /\ numKeys' = AfterTail(numKeys) /\ waitKey' = waitKey
  BY DEF keyboard_routine
<1>2. /\ KeyFrames' /\ InsideGetKey' = InsideGetKey /\ WokenForKey \subseteq WokenForKey'
      /\ Members("blocked")' \subseteq Members("blocked")
  BY <1>0, <1>1, WakeKeyWaiterShape, ReturningKeys DEF KeyPart
<1>3. WaitKeyCounts'
  BY <1>1, <1>2, CountsKept DEF KeyPart
<1>4. CASE Members("blocked") = {}
  BY <1>0, <1>2, <1>3, <1>4, SpareIsNext DEF KeyPart
<1>5. CASE Members("blocked") # {}
  <2> DEFINE w == Head(lists["blocked"])
  <2>1. lists["blocked"] # << >> /\ lists["blocked"] \in Seq(Tasks) /\ IsInjective(lists["blocked"])
    BY <1>0, <1>5, MembersAreTasks, Facts, QueueNames DEF Sound
  <2>2. w \in Members("blocked") /\ w \notin Range(Tail(lists["blocked"]))
    BY <2>1, HeadTailFacts DEF Members
  <2>3. lists' = ListAddTail([lists EXCEPT !["blocked"] = Tail(lists["blocked"])], w, "readyqueue")
    BY <1>1, <2>1 DEF WakeKeyWaiter, NoSwitch
  <2>4. lists \in [Queues -> Seq(Tasks)] /\ "blocked" # "readyqueue"
    BY <1>0, Facts DEF Sound
  <2>5. lists'["blocked"] = Tail(lists["blocked"])
    BY <2>3, <2>4, QueueNames DEF ListAddTail
  <2>6. w \in InsideGetKey' /\ w \notin Members("blocked")'
    BY <1>2, <2>2, <2>5 DEF InsideGetKey, Members
  <2>7. w \in WokenForKey' /\ w \notin WokenForKey
    <3>1. w \notin Members("readyqueue")
      BY <1>0, <2>2, MembersAreTasks, QueueNames
    <3> QED BY <2>6, <3>1 DEF InsideGetKey, WokenForKey
  <2>8. WokenForKey \cup {w} \in SUBSET WokenForKey'
    BY <1>2, <2>7
  <2>9. /\ IsFiniteSet(WokenForKey) /\ Cardinality(WokenForKey) \in Nat
        /\ IsFiniteSet(WokenForKey') /\ Cardinality(WokenForKey') \in Nat
    BY <1>0, InsideFinite, WokenFiniteNext
  <2>10. Cardinality(WokenForKey) + 1 <= Cardinality(WokenForKey')
    BY <2>7, <2>8, <2>9, FS_AddElement, FS_Subset
  <2>11. numKeys <= Cardinality(WokenForKey)
    BY <1>0, <1>5, SpareIs DEF KeyPart
  <2>12. numKeys' <= Cardinality(WokenForKey')
    BY <1>0, <1>1, <2>9, <2>10, <2>11, BufferAssumption DEF AfterTail
  <2> QED BY <1>2, <1>3, <2>12, SpareIsNext DEF KeyPart
<1> QED BY <1>4, <1>5

\* A task goes to sleep for a key only when the waiters that are ready have
\* spoken for all of them.
LEMMA GetKeyWaitPart ==
    ASSUME SemInv, IInv', KeyPart, NEW timeout \in Timeouts, getKey_wait(timeout)
    PROVE  KeyPart'
<1>0. IInv /\ numKeys \in 0..MAX_BUFF
  BY DEF SemInv, SemaphoresSound, TypeOK
<1>1. ~KeyToSpare /\ Block("blocked", "sys_getKey") /\ Resume(waitKey + 1, numKeys)
  BY DEF getKey_wait
<1>2. Leaving("blocked", {})
  BY <1>0, <1>1, BlockShape, QueueNames DEF BlockCalls, WaitQueues
<1>3. numKeys <= Cardinality(WokenForKey)
  <2>1. CASE Members("blocked") = {}
    <3>1. waitKey = Cardinality(WokenForKey)
      BY <2>1 DEF KeyPart, WaitKeyCounts
    <3> QED BY <1>0, <1>1, <3>1, InsideFinite DEF KeyToSpare
  <2>2. CASE Members("blocked") # {}
    BY <1>0, <2>2, SpareIs DEF KeyPart
  <2> QED BY <2>1, <2>2
<1>4. /\ WaitKeyCounts'
      /\ numKeys <= Cardinality(WokenForKey) => numKeys' <= Cardinality(WokenForKey')
  BY <1>0, <1>1, <1>2, ResumeCounts, BufferAssumption DEF KeyPart
<1>5. KeyFrames'
  BY <1>0, <1>2, LeavingKeys DEF KeyPart
<1> QED BY <1>3, <1>4, <1>5, SpareIsNext DEF KeyPart

\* The key part is kept.
LEMMA PartStep == SemInv /\ KeyPart /\ [Next]_vars => KeyPart'
<1> SUFFICES ASSUME SemInv, KeyPart, [Next]_vars PROVE KeyPart'
  OBVIOUS
<1>0. IInv /\ IInv' /\ numKeys \in Nat /\ KeyFrames
  BY IInvStep, BufferAssumption DEF SemInv, SemaphoresSound, TypeOK, KeyPart
<1>1. ASSUME NEW S, Returning(S), UNCHANGED keyVars PROVE KeyPart'
  BY <1>0, <1>1, ReturningKeys, StayingPart DEF keyVars
<1>2. ASSUME NEW q, Reusing(q), UNCHANGED keyVars PROVE KeyPart'
  BY <1>0, <1>2, ReusingKeys, StayingPart DEF keyVars
<1>3. ASSUME UNCHANGED schedVars, waitKey' = waitKey, numKeys' \in Nat, numKeys' <= numKeys
      PROVE  KeyPart'
  <2>1. /\ InsideGetKey' = InsideGetKey /\ WokenForKey' = WokenForKey
        /\ Members("blocked")' = Members("blocked") /\ KeyFrames'
    BY <1>0, <1>3 DEF schedVars, InsideGetKey, WokenForKey, Members, KeyFrames
  <2> QED BY <1>0, <1>3, <2>1, StayingPart
<1>4. CASE clock_routine
  <2>1. Returning({"blocked"}) \/ Leaving("readyqueue", {"blocked"})
    BY <1>0, <1>4, ClockShape DEF clock_routine
  <2>2. CASE Returning({"blocked"})
    <3>1. UNCHANGED keyVars
      BY <1>0, <1>4, <2>2, ReturningKeys DEF clock_routine, Resume, keyVars
    <3> QED BY <1>1, <2>2, <3>1
  <2>3. CASE Leaving("readyqueue", {"blocked"})
    BY <1>0, <1>4, <2>3, LeavingPart DEF clock_routine
  <2> QED BY <2>1, <2>2, <2>3
<1>5. CASE keyboard_routine
  BY <1>0, <1>5, KeyboardPart
<1>6. CASE sys_yield
  BY <1>0, <1>6, YieldShape, LeavingPart DEF sys_yield
<1>7. CASE new_task
  BY <1>0, <1>2, <1>7, SpawnShape DEF new_task
<1>8. CASE new_task_fails
  BY <1>0, <1>2, <1>8, SpawnFailsShape DEF new_task_fails
<1>9. CASE sys_exit
  <2>1. Leaving("freequeue", Range(owned[current]))
    BY <1>0, <1>9, OwnedOrder, ExitShape DEF sys_exit
  <2> QED BY <1>0, <1>9, <2>1, LeavingPart DEF sys_exit
<1>10. CASE Stats \/ UNCHANGED vars
  BY <1>0, <1>3, <1>10 DEF Stats, sys_get_stats, keyVars, vars
<1>11. CASE getKey_now
  BY <1>0, <1>3, <1>11 DEF getKey_now, AfterHead, KeyToSpare
<1>12. ASSUME NEW timeout \in Timeouts, getKey_wait(timeout) PROVE KeyPart'
  BY <1>0, <1>12, GetKeyWaitPart
<1>13. ASSUME NEW v \in InitialValues, sys_semCreate(v) PROVE KeyPart'
  <2>1. Head(freesems) \in Sems /\ UNCHANGED keyVars /\ InitSemList(Head(freesems))
    BY <1>13, HeadTailFacts DEF sys_semCreate, SemInv, SemaphoresSound, TypeOK
  <2>2. Creating(Head(freesems))
    BY <1>0, <2>1, InitSemListShape
  <2> QED BY <1>0, <2>1, <2>2, CreatingKeys, StayingPart DEF keyVars
<1>14. ASSUME NEW s \in Sems, sys_semWait(s) PROVE KeyPart'
  <2>1. CASE WaitBlocks(s)
    <3>1. Leaving(s, {})
      BY <1>0, <1>14, <2>1, BlockShape, QueueNames DEF sys_semWait, BlockCalls
    <3> QED BY <1>0, <1>14, <2>1, <3>1, LeavingPart, QueueNames DEF sys_semWait
  <2>2. CASE ~WaitBlocks(s)
    BY <1>0, <1>3, <1>14, <2>2 DEF sys_semWait, keyVars
  <2> QED BY <2>1, <2>2
<1>15. ASSUME NEW s \in Sems, sys_semSignal(s) PROVE KeyPart'
  <2>1. CASE WakeFirst(s)
    BY <1>0, <1>1, <1>15, <2>1, WakeFirstShape DEF sys_semSignal
  <2>2. CASE UNCHANGED schedVars
    BY <1>0, <1>3, <1>15, <2>2 DEF sys_semSignal, keyVars
  <2> QED BY <1>15, <2>1, <2>2 DEF sys_semSignal
<1>16. ASSUME NEW s \in Sems, sys_semDestroy(s) PROVE KeyPart'
  BY <1>0, <1>1, <1>16, WakeAllShape DEF sys_semDestroy
<1> QED BY <1>4, <1>5, <1>6, <1>7, <1>8, <1>9, <1>10, <1>11, <1>12, <1>13, <1>14, <1>15, <1>16
        DEF Next, sys_getKey

\* It holds at start-up.
LEMMA PartInit == Init => KeyPart
<1> SUFFICES ASSUME Init PROVE KeyPart
  OBVIOUS
<1>1. /\ \A q \in Queues \ {"freequeue"} : Members(q) = {}
      /\ register_esp[Idle] = "new" /\ waitKey = 0 /\ lists["blocked"] = << >>
  BY TaskAssumption, QueueNames, RangeOfEmpty DEF Init, SchedInit, Members
<1>2. KeyFrames
  BY <1>1, QueueNames DEF KeyFrames
<1>3. Members("blocked") \cup WokenForKey = {}
  BY <1>1, QueueNames DEF WokenForKey
<1> QED BY <1>1, <1>2, <1>3, FS_EmptySet DEF KeyPart, WaitKeyCounts, NoSleepWithSpareKey

\* No task sleeps for a key while one is in the buffer that no waiter is on its
\* way to take.
THEOREM NoKeySleptOn == Spec => []NoSleepWithSpareKey
<1>1. SemInv /\ KeyPart /\ [Next]_vars => SemInv' /\ KeyPart'
  BY SemStep, PartStep
<1>2. KeyPart => NoSleepWithSpareKey
  BY DEF KeyPart
<1> QED BY <1>1, <1>2, SemInit, PartInit, PTL DEF Spec
-----------------------------------------------------------------------------
(* Timeouts.                                                                *)

\* The clock takes the expired waiters, and nobody else, off `blocked'.
LEMMA ClockBlocked ==
    ASSUME IInv, NEW expired, Clock(expired)
    PROVE  Members("blocked")' = Members("blocked") \ expired
<1> DEFINE m == Expire(lists, expired)
           st == [t \in Tasks |-> IF t \in Members("blocked") \cap expired
                                  THEN "ST_READY" ELSE state[t]]
           stay == Keep(lists["blocked"], Range(lists["blocked"]) \ expired)
<1>1. /\ lists \in [Queues -> Seq(Tasks)] /\ state[current] = "ST_RUN" /\ current \in Tasks
      /\ current \notin Members("blocked")
  BY Facts, MembersAreTasks, QueueNames DEF Sound
<1>2. Range(stay) = Members("blocked") \ expired
  BY <1>1, KeepFacts, QueueNames DEF Members
<1> HIDE DEF stay
<1>3. m["blocked"] = stay /\ m \in [Queues -> {m[q] : q \in Queues}]
  BY <1>1, QueueNames DEF Expire, stay
<1>4. schedule(m, st) /\ st[current] = "ST_RUN"
  BY <1>1 DEF Clock
<1> HIDE DEF m, st
<1>5. lists'["blocked"] = m["blocked"]
  <2>1. CASE needs_sched_rr(m, remaining_quantum - 1)
    <3>1. PICK l : l = ListAddTail(m, current, "readyqueue")
      OBVIOUS
    <3>2. \E st2 : sched_next_rr(l, st2, "clock_routine")
      BY <1>4, <2>1, <3>1 DEF schedule, update_process_state_rr
    <3>3. lists' = l \/ lists' = [l EXCEPT !["readyqueue"] = Tail(l["readyqueue"])]
      BY <3>2 DEF sched_next_rr
    <3>4. l["blocked"] = m["blocked"] /\ l \in [Queues -> {l[q] : q \in Queues}]
      BY <1>3, <3>1, QueueNames DEF ListAddTail
    <3> QED BY <3>3, <3>4, QueueNames
  <2>2. CASE ~needs_sched_rr(m, remaining_quantum - 1)
    BY <1>4, <2>2 DEF schedule, NoSwitch
  <2> QED BY <2>1, <2>2
<1> QED BY <1>2, <1>3, <1>5 DEF Members

\* A handler that adds nobody to `blocked' and leaves the timeouts alone.
LEMMA PendingKept ==
    ASSUME TimeoutPending, Members("blocked")' \subseteq Members("blocked"),
           remaining_ticks' = remaining_ticks
    PROVE  TimeoutPending'
BY DEF TimeoutPending

\* A waiter keeps its pending time-out.
LEMMA PendingStep == SemInv /\ KeyFrames /\ TimeoutPending /\ [Next]_vars => TimeoutPending'
<1> SUFFICES ASSUME SemInv, KeyFrames, TimeoutPending, [Next]_vars PROVE TimeoutPending'
  OBVIOUS
<1>0. /\ IInv /\ KeyFrames /\ remaining_ticks \in [Tasks -> Int] /\ current \in Tasks
      /\ remaining_quantum \in 1..Quantum /\ Members("blocked") \subseteq Tasks
  BY Facts, MembersAreTasks, QueueNames DEF SemInv, SemaphoresSound, TypeOK
<1>1. ASSUME NEW S, Returning(S), remaining_ticks' = remaining_ticks PROVE TimeoutPending'
  BY <1>0, <1>1, ReturningKeys, PendingKept
<1>2. ASSUME NEW q, NEW S, Leaving(q, S), q # "blocked", remaining_ticks' = remaining_ticks
      PROVE  TimeoutPending'
  BY <1>0, <1>2, LeavingKeys, PendingKept
<1>3. ASSUME NEW q, Reusing(q), remaining_ticks' = remaining_ticks PROVE TimeoutPending'
  BY <1>0, <1>3, ReusingKeys, PendingKept
<1>4. ASSUME UNCHANGED schedVars, remaining_ticks' = remaining_ticks PROVE TimeoutPending'
  BY <1>4, PendingKept DEF schedVars, Members
<1>5. CASE clock_routine
  <2>1. Members("blocked")' = Members("blocked") \ Expired
    BY <1>0, <1>5, ClockBlocked DEF clock_routine
  <2>2. ASSUME NEW t \in Members("blocked")' PROVE remaining_ticks'[t] > 0
    <3>1. t \in Tasks /\ t \in Members("blocked") /\ remaining_ticks[t] - 1 # 0
      BY <1>0, <2>1, <2>2 DEF Expired
    <3>2. remaining_ticks[t] > 0 /\ remaining_ticks[t] \in Int
      BY <1>0, <3>1 DEF TimeoutPending
    <3>3. remaining_ticks'[t] = remaining_ticks[t] - 1
      BY <1>5, <3>1 DEF clock_routine, Countdown
    <3> QED BY <3>1, <3>2, <3>3
  <2> QED BY <2>2 DEF TimeoutPending
<1>6. CASE keyboard_routine
  <2>1. Members("blocked")' \subseteq Members("blocked")
    BY <1>0, <1>6, WakeKeyWaiterShape, ReturningKeys DEF keyboard_routine
  <2>2. CASE lists["blocked"] = << >>
    <3>1. Members("blocked")' = {}
      BY <1>0, <2>1, <2>2, MembersAreTasks, QueueNames
    <3> QED BY <3>1 DEF TimeoutPending
  <2>3. CASE lists["blocked"] # << >>
    <3>1. PICK w : w = Head(lists["blocked"])
      OBVIOUS
    <3>2. lists["blocked"] \in Seq(Tasks) /\ IsInjective(lists["blocked"])
          /\ lists \in [Queues -> Seq(Tasks)]
      BY <1>0, Facts, QueueNames DEF Sound
    <3>3. w \notin Range(Tail(lists["blocked"]))
      BY <2>3, <3>1, <3>2, HeadTailFacts
    <3>4. lists' = ListAddTail([lists EXCEPT !["blocked"] = Tail(lists["blocked"])], w, "readyqueue")
      BY <1>6, <2>3, <3>1 DEF keyboard_routine, WakeKeyWaiter, NoSwitch
    <3>5. lists'["blocked"] = Tail(lists["blocked"])
      BY <3>2, <3>4, QueueNames DEF ListAddTail
    <3>6. \A t \in Members("blocked")' : t # w /\ t \in Tasks /\ t \in Members("blocked")
      BY <1>0, <2>1, <3>3, <3>5 DEF Members
    <3>7. \A t \in Tasks \ {w} : remaining_ticks'[t] = remaining_ticks[t]
      BY <1>6, <2>3, <3>1 DEF keyboard_routine
    <3> QED BY <3>6, <3>7 DEF TimeoutPending
  <2> QED BY <2>2, <2>3
<1>7. CASE sys_yield
  BY <1>0, <1>2, <1>7, YieldShape DEF sys_yield
<1>8. CASE new_task
  BY <1>0, <1>3, <1>8, SpawnShape DEF new_task
<1>9. CASE new_task_fails
  BY <1>0, <1>3, <1>9, SpawnFailsShape DEF new_task_fails
<1>10. CASE sys_exit
  <2>1. Leaving("freequeue", Range(owned[current]))
    BY <1>0, <1>10, OwnedOrder, ExitShape DEF sys_exit
  <2> QED BY <1>0, <1>2, <1>10, <2>1 DEF sys_exit
<1>11. CASE Stats
  <2>1. PICK u \in Tasks : remaining_ticks' = [remaining_ticks EXCEPT ![u] = remaining_quantum]
                           /\ UNCHANGED schedVars
    BY <1>11 DEF Stats, sys_get_stats
  <2>2. \A t \in Tasks : remaining_ticks'[t] \in {remaining_ticks[t], remaining_quantum}
    BY <1>0, <2>1
  <2>3. Members("blocked")' = Members("blocked")
    BY <2>1 DEF schedVars, Members
  <2> QED BY <1>0, <2>2, <2>3 DEF TimeoutPending
<1>12. CASE getKey_now \/ UNCHANGED vars
  BY <1>4, <1>12 DEF getKey_now, vars
<1>13. ASSUME NEW timeout \in Timeouts, getKey_wait(timeout) PROVE TimeoutPending'
  <2>1. Leaving("blocked", {})
    BY <1>0, <1>13, BlockShape, QueueNames DEF getKey_wait, BlockCalls, WaitQueues
  <2>2. PICK W, call : Switches(W, "blocked", call)
    BY <1>0, <2>1, LeavingSets
  <2>3. \A t \in Members("blocked")' : t \in Members("blocked") \/ t = current
    BY <2>2 DEF Switches, WaitQueues
  <2>4. remaining_ticks' = [remaining_ticks EXCEPT ![current] = timeout] /\ timeout \in Nat \ {0}
    BY <1>13, InputAssumption DEF getKey_wait
  <2>5. \A t \in Tasks : remaining_ticks'[t] = IF t = current THEN timeout ELSE remaining_ticks[t]
    BY <1>0, <2>4
  <2> QED BY <1>0, <2>3, <2>4, <2>5 DEF TimeoutPending
<1>14. ASSUME NEW v \in InitialValues, sys_semCreate(v) PROVE TimeoutPending'
  <2>1. Head(freesems) \in Sems /\ InitSemList(Head(freesems)) /\ remaining_ticks' = remaining_ticks
    BY <1>14, HeadTailFacts DEF sys_semCreate, SemInv, SemaphoresSound, TypeOK
  <2>2. Creating(Head(freesems))
    BY <1>0, <2>1, InitSemListShape
  <2> QED BY <1>0, <2>1, <2>2, CreatingKeys, PendingKept
<1>15. ASSUME NEW s \in Sems, sys_semWait(s) PROVE TimeoutPending'
  <2>1. CASE WaitBlocks(s)
    <3>1. Leaving(s, {})
      BY <1>0, <1>15, <2>1, BlockShape, QueueNames DEF sys_semWait, BlockCalls
    <3> QED BY <1>0, <1>2, <1>15, <3>1, QueueNames DEF sys_semWait
  <2>2. CASE ~WaitBlocks(s)
    BY <1>4, <1>15, <2>2 DEF sys_semWait
  <2> QED BY <2>1, <2>2
<1>16. ASSUME NEW s \in Sems, sys_semSignal(s) PROVE TimeoutPending'
  BY <1>0, <1>1, <1>4, <1>16, WakeFirstShape DEF sys_semSignal
<1>17. ASSUME NEW s \in Sems, sys_semDestroy(s) PROVE TimeoutPending'
  BY <1>0, <1>1, <1>17, WakeAllShape DEF sys_semDestroy
<1> QED BY <1>5, <1>6, <1>7, <1>8, <1>9, <1>10, <1>11, <1>12, <1>13, <1>14, <1>15, <1>16, <1>17
        DEF Next, sys_getKey

\* Whoever sleeps for a key is counted by waitKey and has a timeout that is
\* going to reach zero.
THEOREM WaitersStaySound == Spec => []WaitersSound
<1> DEFINE Inv == SemInv /\ KeyPart /\ TimeoutPending
<1>1. Init => Inv
  <2>1. Init => TimeoutPending
    <3> SUFFICES ASSUME Init PROVE Members("blocked") = {}
      BY DEF TimeoutPending
    <3> QED BY QueueNames, RangeOfEmpty DEF Init, SchedInit, Members
  <2> QED BY <2>1, SemInit, PartInit
<1>2. Inv /\ [Next]_vars => Inv'
  BY SemStep, PartStep, PendingStep DEF KeyPart
<1>3. Inv => WaitersSound
  BY DEF KeyPart, WaitersSound
<1> QED BY <1>1, <1>2, <1>3, PTL DEF Spec
-----------------------------------------------------------------------------
(* Counting the tasks that wait on a semaphore.                             *)

\* sem_t.blocked has as many entries as tasks that wait on it.
LEMMA WaitersLen ==
    ASSUME IInv, NEW s \in Sems
    PROVE  /\ IsFiniteSet(Members(s)) /\ Len(lists[s]) = Cardinality(Members(s))
           /\ lists[s] \in Seq(Tasks) /\ Len(lists[s]) \in Nat
           /\ lists[s] = << >> <=> Len(lists[s]) = 0
<1>1. lists[s] \in Seq(Tasks) /\ IsInjective(lists[s])
  BY Facts, QueueNames DEF Sound
<1> QED BY <1>1, InjectiveLen, LenProperties, EmptySeq DEF Members

\* The same after a step.
LEMMA WaitersLenNext ==
    ASSUME IInv', NEW s \in Sems
    PROVE  Len(lists'[s]) = Cardinality(Members(s)') /\ Len(lists'[s]) \in Nat
<1>1. lists'[s] \in Seq(Tasks) /\ IsInjective(lists'[s])
  BY QueueNames DEF IInv, SchedTypeOK, Discipline, NoDuplicates
<1> QED BY <1>1, InjectiveLen, LenProperties DEF Members

\* Who waits on s changes only when s is woken, joined or created.
LEMMA WaitersKept ==
    ASSUME IInv, NEW s \in Sems,
           \/ \E S : Returning(S) /\ s \notin S
           \/ \E q, S : Leaving(q, S) /\ s \notin S /\ s # q
           \/ \E q : Reusing(q)
           \/ \E u \in Sems \ {s} : Creating(u)
    PROVE  Members(s)' = Members(s)
<1>0. s \in WaitQueues /\ s \in Queues /\ \A p \in WaitQueues : p \in Queues
  BY QueueNames
<1>1. \A p \in WaitQueues \ {s} : Members(p) \cap Members(s) = {}
  BY <1>0, MembersAreTasks
<1>2. ASSUME NEW S, Returning(S), s \notin S PROVE Members(s)' = Members(s)
  <2>1. PICK W : /\ \A p \in WaitQueues : \A t :
                      t \in Members(p)' <=> t \in Members(p) /\ t \notin W
                 /\ \A t \in W : \E p \in WaitQueues \cap S : t \in Members(p)
    BY <1>2, ReturningSets
  <2>2. \A t : t \in Members(s)' <=> t \in Members(s)
    BY <1>0, <1>1, <1>2, <2>1
  <2> QED BY <2>2
<1>3. ASSUME NEW q, NEW S, Leaving(q, S), s \notin S, s # q PROVE Members(s)' = Members(s)
  <2>1. PICK W, call : /\ Switches(W, q, call)
                       /\ \A t \in W : \E p \in WaitQueues \cap S : t \in Members(p)
    BY <1>3, LeavingSets
  <2>2. \A t : t \in Members(s)' <=> t \in Members(s)
    BY <1>0, <1>1, <1>3, <2>1 DEF Switches
  <2> QED BY <2>2
<1>4. ASSUME NEW q, Reusing(q) PROVE Members(s)' = Members(s)
  BY <1>0, <1>4, ReusingSets
<1>5. ASSUME NEW u \in Sems \ {s}, Creating(u) PROVE Members(s)' = Members(s)
  BY <1>0, <1>5, CreatingSets
<1> QED BY <1>2, <1>3, <1>4, <1>5

\* semWait that blocks adds current to s, and wakes nobody.
LEMMA WaiterJoins ==
    ASSUME IInv, IInv', NEW s \in Sems, Leaving(s, {})
    PROVE  Len(lists'[s]) = Len(lists[s]) + 1
<1>0. s \in WaitQueues /\ s \in Queues
  BY QueueNames
<1>1. PICK W, call : /\ Switches(W, s, call)
                     /\ \A t \in W : \E p \in WaitQueues \cap {} : t \in Members(p)
  BY LeavingSets
<1>2. Members(s)' = Members(s) \cup {current}
  <2>1. \A t : t \in Members(s)' <=> t \in Members(s) \/ t = current
    BY <1>0, <1>1 DEF Switches
  <2> QED BY <2>1
<1>3. current \notin Members(s)
  BY <1>0, MembersAreTasks
<1>4. /\ IsFiniteSet(Members(s)) /\ Len(lists[s]) = Cardinality(Members(s))
      /\ Len(lists'[s]) = Cardinality(Members(s)')
  BY WaitersLen, WaitersLenNext
<1>5. Cardinality(Members(s) \cup {current}) = Cardinality(Members(s)) + 1
  BY <1>3, <1>4, FS_AddElement
<1> QED BY <1>2, <1>4, <1>5

\* semSignal that wakes takes the first waiter.
LEMMA WaiterLeaves ==
    ASSUME IInv, NEW s \in Sems, WakeFirst(s)
    PROVE  lists'[s] = Tail(lists[s]) /\ Len(lists'[s]) = Len(lists[s]) - 1
<1>1. lists \in [Queues -> Seq(Tasks)] /\ s \in Queues /\ s # "readyqueue" /\ lists[s] # << >>
  BY Facts, QueueNames DEF Sound, WakeFirst
<1>2. lists'[s] = Tail(lists[s])
  BY <1>1, WakeFirstLists DEF ListAddTail
<1> QED BY <1>1, <1>2, HeadTailProperties

\* Counts that no handler concerned with s touches stay balanced.
Balanced(s) == parent[s] # NoTask => count[s] + Len(lists[s]) >= 0

\* What a handler does not touch stays balanced.
LEMMA BalanceKept ==
    ASSUME SemInv, IInv', NEW s \in Sems, Balanced(s), Members(s)' = Members(s),
           count'[s] = count[s], parent'[s] \in {parent[s], NoTask}
    PROVE  Balanced(s)'
BY WaitersLen, WaitersLenNext DEF Balanced, SemInv

\* Balance is kept.
LEMMA BalanceStep ==
    ASSUME SemInv, NoUnearnedPass, [Next]_vars, NEW s \in Sems
    PROVE  Balanced(s)'
<1>0. /\ IInv /\ IInv' /\ Balanced(s) /\ count \in [Sems -> Int]
      /\ parent \in [Sems -> Tasks \cup {NoTask}] /\ freesems \in Seq(Sems)
      /\ s \in Queues /\ s # "blocked" /\ s # "readyqueue" /\ s # "freequeue"
      /\ Len(lists[s]) \in Nat /\ Len(lists'[s]) \in Nat
      /\ current \in Tasks
  BY IInvStep, QueueNames, WaitersLen, WaitersLenNext, Facts
     DEF SemInv, SemaphoresSound, TypeOK, NoUnearnedPass, Balanced
<1>1. CASE clock_routine
  <2>1. \/ Returning({"blocked"}) \/ Leaving("readyqueue", {"blocked"})
    BY <1>0, <1>1, ClockShape DEF clock_routine
  <2>2. Members(s)' = Members(s)
    BY <1>0, <2>1, WaitersKept
  <2> QED BY <1>0, <1>1, <2>2, BalanceKept DEF clock_routine, semVars
<1>2. CASE keyboard_routine
  <2>1. Members(s)' = Members(s)
    BY <1>0, <1>2, WakeKeyWaiterShape, WaitersKept DEF keyboard_routine
  <2> QED BY <1>0, <1>2, <2>1, BalanceKept DEF keyboard_routine, semVars
<1>3. CASE sys_yield
  <2>1. Members(s)' = Members(s)
    BY <1>0, <1>3, YieldShape, WaitersKept DEF sys_yield
  <2> QED BY <1>0, <1>3, <2>1, BalanceKept DEF sys_yield, semVars
<1>4. CASE new_task \/ new_task_fails
  <2>1. Members(s)' = Members(s)
    BY <1>0, <1>4, SpawnShape, SpawnFailsShape, WaitersKept DEF new_task, new_task_fails
  <2> QED BY <1>0, <1>4, <2>1, BalanceKept DEF new_task, new_task_fails
<1>5. CASE sys_exit
  <2>1. /\ Leaving("freequeue", Range(owned[current]))
        /\ parent' = Disowned(Range(owned[current])) /\ count' = count
    BY <1>0, <1>5, OwnedOrder, ExitShape DEF sys_exit
  <2>2. CASE s \in Range(owned[current])
    BY <2>1, <2>2 DEF Disowned, Balanced
  <2>3. CASE s \notin Range(owned[current])
    <3>1. Members(s)' = Members(s) /\ parent'[s] = parent[s]
      BY <1>0, <2>1, <2>3, WaitersKept DEF Disowned
    <3> QED BY <1>0, <2>1, <3>1, BalanceKept
  <2> QED BY <2>2, <2>3
<1>6. CASE Stats \/ getKey_now \/ UNCHANGED vars
  <2>1. UNCHANGED <<schedVars, semVars>>
    BY <1>6 DEF Stats, sys_get_stats, getKey_now, vars
  <2> QED BY <1>0, <2>1, BalanceKept DEF schedVars, semVars, Members
<1>7. ASSUME NEW timeout \in Timeouts, getKey_wait(timeout) PROVE Balanced(s)'
  <2>1. Leaving("blocked", {})
    BY <1>0, <1>7, BlockShape, QueueNames DEF getKey_wait, BlockCalls
  <2>2. Members(s)' = Members(s)
    BY <1>0, <2>1, WaitersKept
  <2> QED BY <1>0, <1>7, <2>2, BalanceKept DEF getKey_wait, semVars
<1>8. ASSUME NEW v \in InitialValues, sys_semCreate(v) PROVE Balanced(s)'
  <2>1. PICK u : u = Head(freesems)
    OBVIOUS
  <2>2. /\ u \in Sems /\ InitSemList(u)
        /\ count' = [count EXCEPT ![u] = v] /\ parent' = [parent EXCEPT ![u] = current]
    BY <1>0, <1>8, <2>1, HeadTailFacts DEF sys_semCreate
  <2>3. CASE u = s
    BY <1>0, <2>2, <2>3, InputAssumption DEF Balanced
  <2>4. CASE u # s
    <3>1. Members(s)' = Members(s)
      BY <1>0, <2>2, <2>4, InitSemListShape, WaitersKept
    <3> QED BY <1>0, <2>2, <2>4, <3>1, BalanceKept
  <2> QED BY <2>3, <2>4
<1>9. ASSUME NEW u \in Sems, sys_semWait(u) PROVE Balanced(s)'
  <2>1. count' = [count EXCEPT ![u] = count[u] - 1] /\ parent' = parent
    BY <1>9 DEF sys_semWait
  <2>2. CASE WaitBlocks(u)
    <3>1. Leaving(u, {})
      BY <1>0, <1>9, <2>2, BlockShape, QueueNames DEF sys_semWait, BlockCalls
    <3>2. CASE u = s
      BY <1>0, <2>1, <3>1, <3>2, WaiterJoins DEF Balanced
    <3>3. CASE u # s
      BY <1>0, <2>1, <3>1, <3>3, WaitersKept, BalanceKept
    <3> QED BY <3>2, <3>3
  <2>3. CASE ~WaitBlocks(u)
    <3>1. lists' = lists
      BY <1>9, <2>3 DEF sys_semWait, schedVars
    <3> QED BY <1>0, <2>1, <2>3, <3>1 DEF Balanced, WaitBlocks
  <2> QED BY <2>2, <2>3
<1>10. ASSUME NEW u \in Sems, sys_semSignal(u) PROVE Balanced(s)'
  <2>1. count' = [count EXCEPT ![u] = count[u] + 1] /\ parent' = parent
    BY <1>10 DEF sys_semSignal
  <2>2. CASE WakeFirst(u)
    <3>1. CASE u = s
      BY <1>0, <2>1, <2>2, <3>1, WaiterLeaves DEF Balanced
    <3>2. CASE u # s
      <4>1. Returning({u}) /\ s \notin {u}
        BY <1>0, <2>2, <3>2, WakeFirstShape
      <4>2. Members(s)' = Members(s)
        BY <1>0, <4>1, WaitersKept
      <4> QED BY <1>0, <2>1, <3>2, <4>2, BalanceKept
    <3> QED BY <3>1, <3>2
  <2>3. CASE UNCHANGED schedVars
    BY <1>0, <2>1, <2>3 DEF Balanced, schedVars
  <2> QED BY <1>10, <2>2, <2>3 DEF sys_semSignal
<1>11. ASSUME NEW u \in Sems, sys_semDestroy(u) PROVE Balanced(s)'
  <2>1. WakeAll(u) /\ parent' = Disowned({u}) /\ count' = count
    BY <1>11 DEF sys_semDestroy
  <2>2. CASE u = s
    BY <2>1, <2>2 DEF Disowned, Balanced
  <2>3. CASE u # s
    <3>1. Returning({u}) /\ s \notin {u}
      BY <1>0, <2>1, <2>3, WakeAllShape
    <3>2. Members(s)' = Members(s)
      BY <1>0, <3>1, WaitersKept
    <3>3. parent'[s] = parent[s]
      BY <2>1, <2>3 DEF Disowned
    <3> QED BY <1>0, <2>1, <3>2, <3>3, BalanceKept
  <2> QED BY <2>2, <2>3
<1> QED BY <1>1, <1>2, <1>3, <1>4, <1>5, <1>6, <1>7, <1>8, <1>9, <1>10, <1>11
        DEF Next, sys_getKey

\* As long as a semaphore lives, a negative count is matched by tasks that
\* still wait: no more calls of semWait have returned than its initial value
\* and its signals allow.
THEOREM NobodyPassesUnearned == Spec => []NoUnearnedPass
<1>1. Init => NoUnearnedPass
  BY DEF Init, NoUnearnedPass
<1>2. SemInv /\ NoUnearnedPass /\ [Next]_vars => NoUnearnedPass'
  BY BalanceStep DEF Balanced, NoUnearnedPass
<1> QED BY <1>1, <1>2, SemInit, SemStep, PTL DEF Spec

\* A task that waits alone is woken by the next signal: its count says that
\* somebody has to wake.
LEMMA SignalStep ==
    ASSUME SemInv, NoUnearnedPass, [Next]_vars, NEW s \in Sems,
           Len(lists[s]) = 1, count'[s] = count[s] + 1
    PROVE  lists'[s] = << >>
<1>0. /\ IInv /\ IInv' /\ count \in [Sems -> Int] /\ freesems \in Seq(Sems)
      /\ s \in Queues /\ lists \in [Queues -> Seq(Tasks)] /\ lists'[s] \in Seq(Tasks)
      /\ Len(lists[s]) \in Nat /\ (lists[s] = << >> <=> Len(lists[s]) = 0)
  <2>1. /\ IInv /\ IInv' /\ s \in Queues
    BY IInvStep, QueueNames DEF SemInv
  <2>2. lists \in [Queues -> Seq(Tasks)] /\ lists'[s] \in Seq(Tasks)
    BY <2>1 DEF IInv, SchedTypeOK
  <2>3. count \in [Sems -> Int] /\ freesems \in Seq(Sems)
    BY DEF SemInv, SemaphoresSound, TypeOK
  <2> QED BY <2>1, <2>2, <2>3, WaitersLen
<1>1. count'[s] # count[s]
  BY <1>0
<1>2. CASE \/ clock_routine \/ keyboard_routine \/ sys_yield \/ new_task \/ new_task_fails
           \/ sys_exit \/ Stats \/ sys_getKey \/ UNCHANGED vars
           \/ \E u \in Sems : sys_semDestroy(u)
  BY <1>1, <1>2 DEF clock_routine, keyboard_routine, sys_yield, new_task, new_task_fails,
     sys_exit, Stats, sys_get_stats, sys_getKey, getKey_now, getKey_wait, sys_semDestroy,
     semVars, vars
<1>3. ASSUME NEW v \in InitialValues, sys_semCreate(v) PROVE lists'[s] = << >>
  <2>1. Head(freesems) = s /\ InitSemList(Head(freesems))
    BY <1>0, <1>1, <1>3 DEF sys_semCreate
  <2> QED BY <1>0, <2>1 DEF InitSemList, NoSwitch
<1>4. ASSUME NEW u \in Sems, sys_semWait(u) PROVE FALSE
  <2>1. count' = [count EXCEPT ![u] = count[u] - 1]
    BY <1>4 DEF sys_semWait
  <2> QED BY <1>0, <2>1
<1>5. ASSUME NEW u \in Sems, sys_semSignal(u) PROVE lists'[s] = << >>
  <2>1. u = s
    BY <1>0, <1>1, <1>5 DEF sys_semSignal
  <2>2. parent[s] # NoTask
    BY <1>5, <2>1 DEF sys_semSignal
  <2>3. count[s] + 1 >= 0
    BY <1>0, <2>2 DEF NoUnearnedPass
  <2>4. WakeFirst(s)
    BY <1>0, <1>5, <2>1, <2>3 DEF sys_semSignal, SignalWakes
  <2>5. Len(lists'[s]) = 1 - 1
    BY <1>0, <2>4, WaiterLeaves
  <2> QED BY <1>0, <2>5, EmptySeq
<1> QED BY <1>2, <1>3, <1>4, <1>5 DEF Next

\* Whoever waits alone is woken by the next signal, however many signals before
\* it went to other waiters without effect.
THEOREM AloneIsWoken == Spec => SoleWaiterWoken
<1>1. Init => NoUnearnedPass
  BY DEF Init, NoUnearnedPass
<1>2. SemInv /\ NoUnearnedPass /\ [Next]_vars => NoUnearnedPass'
  BY BalanceStep DEF Balanced, NoUnearnedPass
<1>3. SemInv /\ NoUnearnedPass /\ [Next]_vars =>
        [\A s \in Sems : Len(lists[s]) = 1 /\ count'[s] = count[s] + 1 =>
            lists'[s] = << >>]_vars
  BY SignalStep
<1> QED BY <1>1, <1>2, <1>3, SemInit, SemStep, PTL DEF Spec, SoleWaiterWoken
-----------------------------------------------------------------------------
(* What a step may not do to the tasks that wait on a semaphore.            *)

\* sys_exit makes ready whoever waits on what current owns, or switches to it.
LEMMA ExitReleases ==
    ASSUME SemInv, sys_exit, NEW s \in Range(owned[current]), NEW t \in Members(s)
    PROVE  t = current' \/ t \in Members("readyqueue")'
<1> DEFINE mine == owned[current]
           W == Chain(lists, mine)
           l == [q \in Queues |-> CASE q \in Range(mine) -> << >>
                                    [] q = "readyqueue"  -> Ready \o W
                                    [] q = "freequeue"   -> Append(lists[q], current)
                                    [] OTHER             -> lists[q]]
<1>1. /\ Range(mine) \in SUBSET Sems /\ mine \in SetToSeqs(Range(mine))
      /\ IInv /\ Ready \in Seq(Tasks)
  BY OwnedOrder, Facts, QueueNames DEF SemInv, Sound, Ready
<1>2. PICK st : sched_next_rr(l, st, "sys_exit")
  BY DEF sys_exit, Exit
<1>3. W \in Seq(Tasks) /\ t \in Range(W)
  BY <1>1, ExitWaiters
<1>4. l["readyqueue"] = Ready \o W /\ "readyqueue" \in Queues
      /\ l = [l EXCEPT !["readyqueue"] = l["readyqueue"]]
  BY <1>1, QueueNames
<1> HIDE DEF l, W, mine
<1>5. PICK r : r = Ready \o W
  OBVIOUS
<1>6. r \in Seq(Tasks) /\ t \in Range(r)
  BY <1>1, <1>3, <1>5, ConcatFacts
<1>7. r # << >>
  BY <1>6, RangeOfEmpty
<1>8. current' = Head(r) /\ lists' = [l EXCEPT !["readyqueue"] = Tail(r)]
  BY <1>2, <1>4, <1>5, <1>7 DEF sched_next_rr, NextTask
<1>9. lists'["readyqueue"] = Tail(r)
  BY <1>4, <1>8 DEF l
<1>10. Range(r) = Range(Tail(r)) \cup {Head(r)}
  BY <1>6, <1>7, HeadTailFacts
<1> QED BY <1>6, <1>8, <1>9, <1>10 DEF Members

\* Whoever waited on a destroyed semaphore runs or is ready after it.
LEMMA DestroyStep ==
    ASSUME SemInv, [Next]_vars, NEW s \in Sems, parent[s] # NoTask, parent'[s] = NoTask,
           NEW t \in Members(s)
    PROVE  t = current' \/ t \in Members("readyqueue")'
<1>0. /\ IInv /\ parent \in [Sems -> Tasks \cup {NoTask}] /\ current \in Tasks
      /\ lists \in [Queues -> Seq(Tasks)]
  BY Facts DEF SemInv, SemaphoresSound, TypeOK, Sound
<1>1. CASE \/ clock_routine \/ keyboard_routine \/ sys_yield \/ new_task \/ new_task_fails
           \/ Stats \/ sys_getKey \/ UNCHANGED vars
           \/ \E u \in Sems : sys_semWait(u) \/ sys_semSignal(u)
  BY <1>1 DEF clock_routine, keyboard_routine, sys_yield, new_task, new_task_fails,
     Stats, sys_get_stats, sys_getKey, getKey_now, getKey_wait, sys_semWait, sys_semSignal,
     semVars, vars
<1>2. ASSUME NEW v \in InitialValues, sys_semCreate(v) PROVE FALSE
  BY <1>0, <1>2, NoTaskAssumption DEF sys_semCreate
<1>3. CASE sys_exit
  <2>1. s \in Range(owned[current])
    BY <1>3 DEF sys_exit, Disowned
  <2> QED BY <1>3, <2>1, ExitReleases
<1>4. ASSUME NEW u \in Sems, sys_semDestroy(u)
      PROVE  t \in Members("readyqueue")'
  <2>1. WakeAll(s)
    BY <1>4 DEF sys_semDestroy, Disowned
  <2>2. lists'["readyqueue"] = lists["readyqueue"] \o lists[s]
    BY <1>0, <2>1, QueueNames DEF WakeAll, NoSwitch
  <2>3. lists["readyqueue"] \in Seq(Tasks) /\ lists[s] \in Seq(Tasks)
    BY <1>0, QueueNames
  <2> QED BY <2>2, <2>3, ConcatFacts DEF Members
<1> QED BY <1>1, <1>2, <1>3, <1>4 DEF Next

\* Whoever waits when a semaphore is destroyed, by its owner or by its owner's
\* exit, is made ready or runs.
THEOREM DestroyLeavesNobody == Spec => DestroyReleases
<1>1. SemInv /\ [Next]_vars =>
        [\A s \in Sems : parent[s] # NoTask /\ parent'[s] = NoTask =>
           \A t \in Members(s) : t = current' \/ t \in Members("readyqueue")']_vars
  BY DestroyStep
<1> QED BY <1>1, SemInit, SemStep, PTL DEF Spec, DestroyReleases

\* Every handler but semCreate leaves a task where it was, queues it, or runs
\* it.
LEMMA TaskShape ==
    ASSUME SemInv, [Next]_vars, \A v \in InitialValues : ~sys_semCreate(v)
    PROVE  \/ \E S : Returning(S)
           \/ \E q, S : Leaving(q, S)
           \/ \E q : Reusing(q)
<1>0. IInv /\ Range(owned[current]) \in SUBSET Sems
           /\ owned[current] \in SetToSeqs(Range(owned[current]))
  BY OwnedOrder DEF SemInv
<1>1. CASE UNCHANGED schedVars
  <2>1. NoSwitch(lists, state) /\ remaining_quantum' \in 1..Quantum
    BY <1>0, <1>1, Facts DEF schedVars, NoSwitch
  <2> QED BY <1>0, <2>1, NoRelease DEF Returns, Returning
<1>2. CASE \/ clock_routine \/ keyboard_routine \/ sys_yield \/ new_task \/ new_task_fails
           \/ sys_exit
  BY <1>0, <1>2, ClockShape, WakeKeyWaiterShape, YieldShape, SpawnShape, SpawnFailsShape,
     ExitShape
     DEF clock_routine, keyboard_routine, sys_yield, new_task, new_task_fails, sys_exit
<1>3. CASE sys_getKey
  BY <1>0, <1>1, <1>3, BlockShape, QueueNames
     DEF sys_getKey, getKey_now, getKey_wait, BlockCalls
<1>4. ASSUME NEW s \in Sems, sys_semWait(s) \/ sys_semSignal(s) \/ sys_semDestroy(s)
      PROVE  \/ \E S : Returning(S)
             \/ \E q, S : Leaving(q, S)
  <2>1. \/ Block(s, "sys_semWait") \/ WakeFirst(s) \/ WakeAll(s) \/ UNCHANGED schedVars
    BY <1>4 DEF sys_semWait, sys_semSignal, sys_semDestroy
  <2>2. CASE Block(s, "sys_semWait")
    BY <1>0, <2>2, BlockShape, QueueNames DEF BlockCalls
  <2>3. CASE UNCHANGED schedVars
    <3>1. NoSwitch(lists, state) /\ remaining_quantum' \in 1..Quantum
      BY <1>0, <2>3, Facts DEF schedVars, NoSwitch
    <3> QED BY <1>0, <3>1, NoRelease DEF Returns, Returning
  <2> QED BY <1>0, <2>1, <2>2, <2>3, WakeFirstShape, WakeAllShape
<1> QED BY <1>1, <1>2, <1>3, <1>4 DEF Next, Stats, sys_get_stats, vars

\* The shapes but that of semCreate lose nobody.
LEMMA ListedStay ==
    ASSUME IInv, NEW t, t = current \/ \E q \in Queues : t \in Members(q),
           \/ \E S : Returning(S)
           \/ \E q, S : Leaving(q, S)
           \/ \E q : Reusing(q)
    PROVE  t = current' \/ \E q \in Queues : t \in Members(q)'
<1>0. \A q \in Queues : q \in WaitQueues \/ q = "readyqueue" \/ q = "freequeue"
  BY QueueNames
<1>1. \A q \in WaitQueues \cup {"readyqueue", "freequeue"} : q \in Queues
  BY QueueNames
<1>2. ASSUME NEW S, Returning(S)
      PROVE  t = current' \/ \E q \in Queues : t \in Members(q)'
  <2>1. PICK W : /\ current' = current
                 /\ Members("freequeue")' = Members("freequeue")
                 /\ \A p \in WaitQueues : \A u :
                      u \in Members(p)' <=> u \in Members(p) /\ u \notin W
                 /\ \A u : u \in Members("readyqueue")' <=> u \in Members("readyqueue") \/ u \in W
    BY <1>2, ReturningSets
  <2>2. ASSUME NEW q \in Queues, t \in Members(q)
        PROVE  \E p \in Queues : t \in Members(p)'
    <3>1. t \in Members(q)' \/ t \in Members("readyqueue")'
      BY <1>0, <2>1, <2>2
    <3> QED BY <1>1, <3>1
  <2> QED BY <2>1, <2>2
<1>3. ASSUME NEW q, NEW S, Leaving(q, S)
      PROVE  t = current' \/ \E p \in Queues : t \in Members(p)'
  <2>1. PICK W, call : Switches(W, q, call)
    BY <1>3, LeavingSets
  <2>2. q \in Queues
    BY <2>1 DEF Switches
  <2>3. CASE t = current
    <3>1. t = current' \/ t \in Members(q)'
      BY <1>0, <2>1, <2>3 DEF Switches
    <3> QED BY <2>2, <3>1
  <2>4. ASSUME NEW p \in Queues, t \in Members(p)
        PROVE  t = current' \/ \E r \in Queues : t \in Members(r)'
    <3>1. t = current' \/ t \in Members(p)' \/ t \in Members("readyqueue")'
      BY <1>0, <2>1, <2>4 DEF Switches
    <3> QED BY <1>1, <3>1
  <2> QED BY <2>3, <2>4
<1>4. ASSUME NEW q, Reusing(q)
      PROVE  t = current' \/ \E p \in Queues : t \in Members(p)'
  <2>1. PICK child : child = Head(lists["freequeue"])
    OBVIOUS
  <2>2. /\ current' = current
        /\ \A p \in WaitQueues : Members(p)' = Members(p)
        /\ q = "freequeue" => /\ Members("readyqueue")' = Members("readyqueue")
                              /\ Members("freequeue")' = Members("freequeue")
        /\ q = "readyqueue" => /\ Members("readyqueue")' = Members("readyqueue") \cup {child}
                               /\ Members("freequeue")' = Members("freequeue") \ {child}
        /\ q \in {"freequeue", "readyqueue"}
    BY <1>4, <2>1, ReusingSets
  <2>3. ASSUME NEW p \in Queues, t \in Members(p)
        PROVE  \E r \in Queues : t \in Members(r)'
    <3>1. t \in Members(p)' \/ t \in Members("readyqueue")'
      BY <1>0, <2>2, <2>3
    <3> QED BY <1>1, <3>1
  <2> QED BY <2>2, <2>3
<1> QED BY <1>2, <1>3, <1>4

\* Only a reused slot leaves a waiter stranded.
LEMMA StrandedStep ==
    ASSUME SemInv, LifeInv, [Next]_vars, NEW t \in Tasks, Stranded(t)', ~Stranded(t)
    PROVE  \E s \in Sems : /\ t \in Members(s)
                           /\ parent[s] = NoTask /\ parent'[s] # NoTask
<1>0. /\ IInv /\ IInv' /\ parent \in [Sems -> Tasks \cup {NoTask}] /\ freesems \in Seq(Sems)
      /\ current \in Tasks /\ SemOwnership /\ state \in [Tasks -> States]
  BY IInvStep, Facts DEF SemInv, SemaphoresSound, TypeOK, SchedTypeOK
<1>1. t # current' /\ \A q \in Queues : t \notin Members(q)'
  BY DEF Stranded, Unlisted
<1>2. t # Idle
  <2>1. state'[Idle] # "ST_BLOCKED"
    BY <1>0 DEF IInv, Discipline, IdleAvailable
  <2> QED BY <2>1 DEF Stranded
<1>3. t = current \/ \E q \in Queues : t \in Members(q)
  <2>1. SUFFICES ASSUME Unlisted(t) PROVE FALSE
    BY DEF Unlisted
  <2>2. state[t] \in {"ST_RUN", "ST_READY"}
    BY <1>0, <2>1 DEF Stranded, States
  <2> QED BY <1>2, <2>1, <2>2, QueueNames DEF LifeInv, Settled, Unlisted
<1>4. PICK v \in InitialValues : sys_semCreate(v)
  BY <1>0, <1>1, <1>3, TaskShape, ListedStay
<1>5. PICK s : s = Head(freesems)
  OBVIOUS
<1>6. /\ s \in Sems /\ s \in Range(freesems) /\ InitSemList(s)
      /\ parent' = [parent EXCEPT ![s] = current]
  BY <1>0, <1>4, <1>5, HeadTailFacts DEF sys_semCreate
<1>7. /\ current' = current
      /\ \A p \in Queues \ {s} : Members(p)' = Members(p)
  BY <1>0, <1>6, InitSemListShape, CreatingSets
<1>8. t \in Members(s)
  BY <1>1, <1>3, <1>7
<1>9. parent[s] = NoTask /\ parent'[s] # NoTask
  BY <1>0, <1>6, NoTaskAssumption DEF SemOwnership
<1> QED BY <1>6, <1>8, <1>9

\* A task drops out of the kernel's lists in one way only: it waited on a
\* semaphore that had been destroyed, and semCreate handed that out again.
THEOREM OnlyReuseStrands == Spec => StrandedOnlyByReuse
<1>1. Init => LifeInv
  BY LifeInit DEF Init
<1>2. SemInv /\ LifeInv /\ [Next]_vars => LifeInv'
  BY SchedStep, LifeNext
<1>3. SemInv /\ LifeInv /\ [Next]_vars =>
        [\A t \in Tasks : Stranded(t)' /\ ~Stranded(t) =>
           \E s \in Sems : /\ t \in Members(s)
                           /\ parent[s] = NoTask /\ parent'[s] # NoTask]_vars
  BY StrandedStep
<1> QED BY <1>1, <1>2, <1>3, SemInit, SemStep, PTL DEF Spec, StrandedOnlyByReuse
=============================================================================
