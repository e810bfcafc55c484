---------------------------- MODULE TaskLifecycle ----------------------------
(***************************************************************************)
(* What the scheduler promises, without queues, quanta or stacks: one task *)
(* runs, a task is handed the CPU only when it is ready, the idle task     *)
(* steps in only when nobody is ready, a waiting task is made ready before *)
(* it can run, and only a running task blocks or exits.                    *)
(***************************************************************************)
CONSTANTS Tasks, Idle, Task1

VARIABLE life

Lives == {"free", "ready", "running", "waiting", "reserve"}

Init ==
    life = [t \in Tasks |-> CASE t = Idle  -> "reserve"
                              [] t = Task1 -> "running"
                              [] OTHER     -> "free"]

\* The tasks of W stop waiting.
Woken(W) == [t \in Tasks |-> IF t \in W THEN "ready" ELSE life[t]]

Waiting == {t \in Tasks : life[t] = "waiting"}

Wake(W) == life' = Woken(W)

Create(t) == life[t] = "free" /\ life' = [life EXCEPT ![t] = "ready"]

\* After the wake-ups W, u leaves the CPU for `fate' and t takes it.
Handover(W, u, fate, t) ==
    LET m == [Woken(W) EXCEPT ![u] = fate]
    IN  /\ life[u] = "running" /\ t # u
        /\ u = Idle => fate = "ready"
        /\ \/ m[t] = "ready"
           \/ m[t] = "reserve" /\ \A v \in Tasks : m[v] # "ready"
        /\ life' = [m EXCEPT ![t] = "running"]

Next ==
    \/ \E W \in SUBSET Waiting :
         \/ Wake(W)
         \/ \E u, t \in Tasks, fate \in {"ready", "waiting", "free"} :
              Handover(W, u, fate, t)
    \/ \E t \in Tasks : Create(t)

Spec == Init /\ [][Next]_life
=============================================================================
