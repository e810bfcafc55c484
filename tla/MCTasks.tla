------------------------------ MODULE MCTasks ------------------------------
(* Small instances of Tasks: idle, task 1 and two more task_structs, *)
(* one or two semaphores.                                                   *)
EXTENDS Tasks

CONSTANTS idle, init, a, b, s1, s2

Four == {idle, init, a, b}
FreeAB == <<a, b>>
OneSem == {s1}
BootOne == <<s1>>
TwoSems == {s1, s2}
BootTwo == <<s1, s2>>
=============================================================================
