------------------------------ MODULE ListPtr ------------------------------
(***************************************************************************)
(* The doubly linked lists of list.c by their pointers, used the way the   *)
(* kernel uses them: entries move between lists, a head may be             *)
(* reinitialised under its entries (semCreate), and a loop over a list may *)
(* take entries off it and queue them elsewhere (clock_routine, exit,      *)
(* semDestroy).  The kernel does not run anything between the statements   *)
(* of an operation, nor other operations on the list between the           *)
(* iterations of a loop.                                                   *)
(***************************************************************************)
EXTENDS Naturals, Sequences, FiniteSets

CONSTANTS
    Heads,      \* the struct list_heads that stand for lists
    Nodes,      \* those that are fields of task_structs, semaphores, ...
    NULL

Lost == "lost"      \* on a list whose head was reinitialised

ASSUME CellAssumption ==
    /\ Heads \cap Nodes = {} /\ NULL \notin Heads \cup Nodes
    /\ Lost \notin Heads \cup {NULL}
    /\ IsFiniteSet(Nodes)     \* fixed arrays of structures

VARIABLES
    next, prev,
    on,         \* the list an entry's owner believes it is on
    head,       \* of the list_for_each_safe in progress, or NULL
    pos, n,     \* its cursors
    seen,       \* the entries its body has had so far
    start       \* the entries that were on the list when it began

vars == <<next, prev, on, head, pos, n, seen, start>>
loopVars == <<head, pos, n, seen, start>>

Cells == Heads \cup Nodes

Init ==     \* every head after its INIT_LIST_HEAD, no entry linked
    /\ next = [c \in Cells |-> IF c \in Heads THEN c ELSE NULL]
    /\ prev = next
    /\ on = [m \in Nodes |-> NULL]
    /\ head = NULL /\ pos = NULL /\ n = NULL
    /\ seen = << >> /\ start = << >>
-----------------------------------------------------------------------------
(* The operations, on the pointers as their caller finds them.              *)

\* Faulty: the successor keeps its old predecessor.
add_prev_Kept(nx, pv, new, p, q) == [pv EXCEPT ![new] = p]

\* Faulty: the predecessor keeps its old successor.
add_next_Unreached(nx, pv, new, p, q) == [nx EXCEPT ![new] = q]

\* __list_add(new, p, q): the next and the prev fields after it.
add_next(nx, pv, new, p, q) == [nx EXCEPT ![new] = q, ![p] = new]
add_prev(nx, pv, new, p, q) == [pv EXCEPT ![q] = new, ![new] = p]

\* list_del(entry).
del_next(nx, pv, entry) == [nx EXCEPT ![pv[entry]] = nx[entry], ![entry] = NULL]
del_prev(nx, pv, entry) == [pv EXCEPT ![nx[entry]] = pv[entry], ![entry] = NULL]

\* list_first(h), and the successor the loop reads ahead.
list_first(h) == next[h]

\* Faulty: list_for_each, which reads the successor after the body.
ahead_Late(nx, m) == nx[pos]

\* pos = n: the cursor for the next iteration.
ahead(nx, m) == m
-----------------------------------------------------------------------------
NoLoop == head = NULL

INIT_LIST_HEAD(h) ==
    /\ NoLoop
    /\ next' = [next EXCEPT ![h] = h]
    /\ prev' = [prev EXCEPT ![h] = h]
    /\ on' = [m \in Nodes |-> IF on[m] = h THEN Lost ELSE on[m]]
    /\ UNCHANGED loopVars

list_add(new, h) ==
    /\ NoLoop /\ on[new] = NULL
    /\ next' = add_next(next, prev, new, h, next[h])
    /\ prev' = add_prev(next, prev, new, h, next[h])
    /\ on' = [on EXCEPT ![new] = h]
    /\ UNCHANGED loopVars

list_add_tail(new, h) ==
    /\ NoLoop /\ on[new] = NULL
    /\ next' = add_next(next, prev, new, prev[h], h)
    /\ prev' = add_prev(next, prev, new, prev[h], h)
    /\ on' = [on EXCEPT ![new] = h]
    /\ UNCHANGED loopVars

list_del(entry) ==
    /\ NoLoop /\ on[entry] \in Heads
    /\ next' = del_next(next, prev, entry)
    /\ prev' = del_prev(next, prev, entry)
    /\ on' = [on EXCEPT ![entry] = NULL]
    /\ UNCHANGED loopVars

\* The entries on h in list order, read off the pointers: the cells that
\* next leads to from h before it comes back to it.
Entries(h) ==
    LET to[k \in 0..Cardinality(Nodes)] ==
            IF k = 0 THEN next[h]
            ELSE IF to[k - 1] \in Nodes THEN next[to[k - 1]] ELSE to[k - 1]
        len == Cardinality({k \in DOMAIN to : to[k] \in Nodes})
    IN  [k \in 1..len |-> to[k - 1]]

list_for_each_safe(h) ==
    /\ NoLoop
    /\ head' = h
    /\ pos' = list_first(h) /\ n' = next[list_first(h)]
    /\ seen' = << >> /\ start' = Entries(h)
    /\ UNCHANGED <<next, prev, on>>

\* An iteration that leaves the entry where it is.
body_keeps ==
    /\ head # NULL /\ pos # head
    /\ seen' = Append(seen, pos)
    /\ pos' = ahead(next, n) /\ n' = next[ahead(next, n)]
    /\ UNCHANGED <<next, prev, on, head, start>>

\* One that queues it on another list, list_del and list_add_tail.
body_moves(h) ==
    /\ head # NULL /\ pos # head /\ h # head
    /\ LET nx == del_next(next, prev, pos)
           pv == del_prev(next, prev, pos)
       IN  /\ next' = add_next(nx, pv, pos, pv[h], h)
           /\ prev' = add_prev(nx, pv, pos, pv[h], h)
    /\ on' = [on EXCEPT ![pos] = h]
    /\ seen' = Append(seen, pos)
    /\ pos' = ahead(next', n) /\ n' = next'[ahead(next', n)]
    /\ UNCHANGED <<head, start>>

loop_ends ==
    /\ head # NULL /\ pos = head
    /\ head' = NULL /\ pos' = NULL /\ n' = NULL
    /\ seen' = << >> /\ start' = << >>
    /\ UNCHANGED <<next, prev, on>>

Next ==
    \/ \E h \in Heads : INIT_LIST_HEAD(h) \/ list_for_each_safe(h) \/ body_moves(h)
    \/ \E m \in Nodes, h \in Heads : list_add(m, h) \/ list_add_tail(m, h)
    \/ \E m \in Nodes : list_del(m)
    \/ body_keeps \/ loop_ends

Spec == Init /\ [][Next]_vars
-----------------------------------------------------------------------------
\* Pointers and cursors hold what the code may follow; the fields of an entry
\* are NULL exactly while it is on no list.
TypeOK ==
    /\ next \in [Cells -> Cells \cup {NULL}]
    /\ prev \in [Cells -> Cells \cup {NULL}]
    /\ on \in [Nodes -> Heads \cup {NULL, Lost}]
    /\ \A m \in Nodes : on[m] = NULL <=> next[m] = NULL
    /\ head \in Heads \cup {NULL}
    /\ pos \in Cells \cup {NULL} /\ n \in Cells \cup {NULL}

\* The list a cell belongs to.
Owner(c) == IF c \in Heads THEN c ELSE on[c]
Live == {c \in Cells : Owner(c) \in Heads}

\* Both directions of every list agree, and no pointer leads from a list to
\* another one or to an entry that has left it.
Rings ==
    \A c \in Live :
        /\ next[c] \in Live /\ prev[c] \in Live
        /\ Owner(next[c]) = Owner(c) /\ Owner(prev[c]) = Owner(c)
        /\ prev[next[c]] = c /\ next[prev[c]] = c

\* The cursor of a loop stays on the list it goes through, whatever the body
\* does with the entries it has had, and the read-ahead is its successor.
CursorOnList ==
    head # NULL => /\ pos \in Live /\ Owner(pos) = head
                   /\ n = next[pos]

\* No order of operations and loops breaks a list, or leads a loop off it.
ListsWhole == TypeOK /\ Rings /\ CursorOnList

\* A loop has every entry that was on the list, once, in order; so it ends.
VisitsAll ==
    head # NULL => /\ Len(seen) <= Len(start)
                   /\ \A k \in 1..Len(seen) : seen[k] = start[k]
                   /\ pos = head => seen = start

\* The pointers implement sequences: each operation does to the lists what
\* it does to the sequences in module Lists.
Abs == INSTANCE ListSeq WITH seq <- [h \in Heads |-> Entries(h)]
SeqSpec == Abs!Spec
=============================================================================
