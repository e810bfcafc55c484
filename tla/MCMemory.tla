------------------------------ MODULE MCMemory ------------------------------
(* A small instance of Memory: idle, task 1 and two or three more. *)
EXTENDS Memory, TLC

CONSTANTS idle, init, a, b, c

Four == {idle, init, a, b}
Five == {idle, init, a, b, c}
Alike == Permutations(Tasks \ {idle, init})
=============================================================================
