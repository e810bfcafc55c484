------------------------------ MODULE MCSched ------------------------------
(* Sched with idle, task 1 and two more task_structs, and two semaphores.   *)
EXTENDS Sched

CONSTANTS idle, init, a, b, s1, s2

MCTasks == {idle, init, a, b}
MCBootFree == <<a, b>>
MCSems == {s1, s2}
=============================================================================
