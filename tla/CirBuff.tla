------------------------------ MODULE CirBuff ------------------------------
(***************************************************************************)
(* The circular keyboard buffer of cir_buff.c: keyboard_routine calls      *)
(* buff_tail on every break code, sys_getKey calls buff_head.              *)
(***************************************************************************)
EXTENDS Integers, Sequences

CONSTANTS
    Keys,       \* the characters of char_map
    NUL,        \* '\0': keyBuff's initial contents, buff_head's answer if empty
    MAX_BUFF

ASSUME MaxBuffAssumption == MAX_BUFF \in Nat \ {0}

VARIABLES
    keyBuff, keyHead, keyTail, numKeys,
    answer      \* what the last buff_head returned

vars == <<keyBuff, keyHead, keyTail, numKeys, answer>>

Slots == 0..(MAX_BUFF - 1)

After(i) == (i + 1) % MAX_BUFF

Init ==
    /\ keyBuff = [i \in Slots |-> NUL]
    /\ keyHead = 0 /\ keyTail = 0 /\ numKeys = 0
    /\ answer = NUL

buff_head ==
    /\ IF numKeys > 0
       THEN /\ answer' = keyBuff[keyHead]
            /\ keyHead' = After(keyHead)
            /\ numKeys' = numKeys - 1
       ELSE answer' = NUL /\ UNCHANGED <<keyHead, numKeys>>
    /\ UNCHANGED <<keyBuff, keyTail>>

Caught_Never == FALSE               \* faulty: the head never moves on
Caught_Empty == keyTail = keyHead   \* faulty: an empty buffer is taken for full
Caught == keyTail = keyHead /\ numKeys > 0

\* When the tail has caught the head up, the oldest key is overwritten.
buff_tail(c) ==
    /\ keyHead' = IF Caught THEN After(keyHead) ELSE keyHead
    /\ keyBuff' = [keyBuff EXCEPT ![keyTail] = c]
    /\ keyTail' = After(keyTail)
    /\ numKeys' = IF numKeys < MAX_BUFF THEN numKeys + 1 ELSE numKeys
    /\ UNCHANGED answer

Next == buff_head \/ \E c \in Keys : buff_tail(c)

Spec == Init /\ [][Next]_vars
-----------------------------------------------------------------------------
\* The indices stay inside keyBuff and numKeys within its size.
TypeOK ==
    /\ keyBuff \in [Slots -> Keys \cup {NUL}]
    /\ keyHead \in Slots /\ keyTail \in Slots
    /\ numKeys \in 0..MAX_BUFF
    /\ answer \in Keys \cup {NUL}

\* Where the i-th oldest key is, counting from 0.
Slot(i) == (keyHead + i) % MAX_BUFF

\* The two indices and the count describe the same window of the array;
\* buff_tail tells a full buffer from an empty one by relying on it.
Window == keyTail = Slot(numKeys)

\* The array between head and tail is a queue that drops its oldest key.
Fifo == INSTANCE KeyFifo
            WITH fifo <- [i \in 1..numKeys |-> keyBuff[Slot(i - 1)]]
\* Whatever the interrupts and the readers do, the buffer is a KeyFifo.
FifoSpec == Fifo!Spec
=============================================================================
