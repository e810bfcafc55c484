------------------------------- MODULE Lists -------------------------------
(***************************************************************************)
(* The kernel's doubly linked lists (list.c, include/list.h) seen as       *)
(* sequences: a list head is a sequence of the structures linked on it,    *)
(* first element first.  list_first is Head, list_add_tail is Append, a    *)
(* list_del of the first element is Tail, INIT_LIST_HEAD is << >>.         *)
(***************************************************************************)
EXTENDS SequencesExt

\* The elements of q that are in S, in the order of q: what is left on (or
\* taken from) a list by a list_for_each_safe loop that list_dels entries.
Keep(q, S) ==
    FlattenSeq([i \in DOMAIN q |-> IF q[i] \in S THEN <<q[i]>> ELSE << >>])

\* list_del(&t->list): t leaves whichever of the lists of l it is linked on.
ListDel(l, t) == [q \in DOMAIN l |-> Keep(l[q], Range(l[q]) \ {t})]

\* list_add(&t->list, q): at the front.  The kernel only ever queues at the
\* tail; this is the slip NoOvertaking has to notice.
ListAdd(l, t, q) == [l EXCEPT ![q] = <<t>> \o @]

\* list_add_tail(&t->list, q).
ListAddTail(l, t, q) == [l EXCEPT ![q] = Append(@, t)]

\* Faulty: the lists are dropped with their entries.
Chain_Dropped(l, qs) == << >>

\* The lists named by the sequence qs, one after the other.
Chain(l, qs) == FlattenSeq([i \in DOMAIN qs |-> l[qs[i]]])
=============================================================================
