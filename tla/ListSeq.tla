------------------------------ MODULE ListSeq ------------------------------
(***************************************************************************)
(* What the users of list.c rely on: a list is a sequence, and an entry is *)
(* on one list at most.  Sched and Tasks use the lists in this form.       *)
(***************************************************************************)
EXTENDS Lists

CONSTANTS Heads, Nodes

VARIABLE seq    \* for each list head, the entries on its list

Linked == UNION {Range(seq[h]) : h \in Heads}

Init == seq = [h \in Heads |-> << >>]

AddFirst(m, h) == m \notin Linked /\ seq' = ListAdd(seq, m, h)
AddLast(m, h) == m \notin Linked /\ seq' = ListAddTail(seq, m, h)
Unlink(m) == m \in Linked /\ seq' = ListDel(seq, m)
Requeue(m, h) ==
    /\ m \in Linked /\ m \notin Range(seq[h])
    /\ seq' = ListAddTail(ListDel(seq, m), m, h)
Reset(h) == seq' = [seq EXCEPT ![h] = << >>]

Next ==
    \/ \E m \in Nodes, h \in Heads : AddFirst(m, h) \/ AddLast(m, h) \/ Requeue(m, h)
    \/ \E m \in Nodes : Unlink(m)
    \/ \E h \in Heads : Reset(h)

Spec == Init /\ [][Next]_seq
=============================================================================
