------------------------------ MODULE KeyFifo ------------------------------
(***************************************************************************)
(* What the keyboard buffer promises: a bounded queue of keys that makes   *)
(* room for a new key by dropping the oldest one, and that answers NUL     *)
(* when it is empty.                                                       *)
(***************************************************************************)
EXTENDS Naturals, Sequences

CONSTANTS Keys, NUL, MAX_BUFF

VARIABLES
    fifo,       \* the keys held, oldest first
    answer      \* what the last read returned

Init == fifo = << >> /\ answer = NUL

Put(c) ==
    /\ fifo' = IF Len(fifo) < MAX_BUFF THEN Append(fifo, c)
                                       ELSE Append(Tail(fifo), c)
    /\ UNCHANGED answer

Get ==
    IF fifo = << >>
    THEN answer' = NUL /\ UNCHANGED fifo
    ELSE answer' = Head(fifo) /\ fifo' = Tail(fifo)

Next == Get \/ \E c \in Keys : Put(c)

Spec == Init /\ [][Next]_<<fifo, answer>>
=============================================================================
