--------------------------- MODULE ListPtrProofs ---------------------------
(***************************************************************************)
(* Proofs about ListPtr, for any heads and entries.                        *)
(***************************************************************************)
EXTENDS ListPtr, ListTheorems

\* The invariant for given next and prev fields and owners, so that it can be
\* stated half way through an action too.
OwnerIn(ow, c) == IF c \in Heads THEN c ELSE ow[c]
LiveIn(ow) == {c \in Cells : OwnerIn(ow, c) \in Heads}

Typed(nx, pv, ow) ==
    /\ nx \in [Cells -> Cells \cup {NULL}]
    /\ pv \in [Cells -> Cells \cup {NULL}]
    /\ ow \in [Nodes -> Heads \cup {NULL, Lost}]
    /\ \A m \in Nodes : ow[m] = NULL <=> nx[m] = NULL

Ring(nx, pv, ow) ==
    \A c \in LiveIn(ow) :
        /\ nx[c] \in LiveIn(ow) /\ pv[c] \in LiveIn(ow)
        /\ OwnerIn(ow, nx[c]) = OwnerIn(ow, c)
        /\ OwnerIn(ow, pv[c]) = OwnerIn(ow, c)
        /\ pv[nx[c]] = c /\ nx[pv[c]] = c

\* Rings alone also holds of a circle of entries beside the ring of the head.
\* There is none: the entries of a list can be numbered in list order.
Numbered(nx, ow) ==
    \E rank \in [Nodes -> Int] :
        \A m \in Nodes : ow[m] \in Heads /\ nx[m] \in Nodes
                            => rank[m] < rank[nx[m]]

Sound(nx, pv, ow) == Typed(nx, pv, ow) /\ Ring(nx, pv, ow) /\ Numbered(nx, ow)

\* __list_add puts an unlinked entry between a cell of a list and the next.
LEMMA AddSound ==
    ASSUME NEW nx, NEW pv, NEW ow, Sound(nx, pv, ow),
           NEW new \in Nodes, ow[new] = NULL,
           NEW h \in Heads, NEW p \in LiveIn(ow), OwnerIn(ow, p) = h,
           p \in Heads \/ nx[p] \in Heads
    PROVE  Sound(add_next(nx, pv, new, p, nx[p]), add_prev(nx, pv, new, p, nx[p]),
                 [ow EXCEPT ![new] = h])
<1> DEFINE q == nx[p]
           nx1 == add_next(nx, pv, new, p, q)
           pv1 == add_prev(nx, pv, new, p, q)
           ow1 == [ow EXCEPT ![new] = h]
<1> USE CellAssumption DEF Cells
<1>1. /\ new \notin LiveIn(ow) /\ q \in LiveIn(ow) /\ OwnerIn(ow, q) = h /\ pv[q] = p
      /\ p \in Cells /\ q \in Cells /\ p # new /\ q # new
  BY DEF Sound, Typed, Ring, LiveIn, OwnerIn
<1>2. /\ nx1 = [c \in Cells |-> IF c = p THEN new ELSE IF c = new THEN q ELSE nx[c]]
      /\ pv1 = [c \in Cells |-> IF c = new THEN p ELSE IF c = q THEN new ELSE pv[c]]
      /\ ow1 = [m \in Nodes |-> IF m = new THEN h ELSE ow[m]]
  BY <1>1 DEF Sound, Typed, add_next, add_prev
<1> HIDE DEF nx1, pv1, ow1
<1>3. Typed(nx1, pv1, ow1)
  BY <1>1, <1>2 DEF Sound, Typed
<1>4. /\ LiveIn(ow1) = LiveIn(ow) \cup {new} /\ OwnerIn(ow1, new) = h
      /\ \A c \in LiveIn(ow) : OwnerIn(ow1, c) = OwnerIn(ow, c)
  BY <1>1, <1>2 DEF LiveIn, OwnerIn
<1>5. Ring(nx1, pv1, ow1)
  <2> SUFFICES ASSUME NEW c \in LiveIn(ow1)
               PROVE /\ nx1[c] \in LiveIn(ow1) /\ pv1[c] \in LiveIn(ow1)
                     /\ OwnerIn(ow1, nx1[c]) = OwnerIn(ow1, c)
                     /\ OwnerIn(ow1, pv1[c]) = OwnerIn(ow1, c)
                     /\ pv1[nx1[c]] = c /\ nx1[pv1[c]] = c
    BY DEF Ring
  <2>0. /\ Ring(nx, pv, ow) /\ c \in Cells
        /\ \A d \in LiveIn(ow) : d \in Cells
    BY DEF Sound, LiveIn
  <2>1. CASE c = new
    BY <2>1, <1>1, <1>2, <1>4
  <2>2. CASE c # new
    <3>1. /\ c \in LiveIn(ow) /\ nx[c] \in LiveIn(ow) /\ pv[c] \in LiveIn(ow)
          /\ OwnerIn(ow, nx[c]) = OwnerIn(ow, c)
          /\ OwnerIn(ow, pv[c]) = OwnerIn(ow, c)
          /\ pv[nx[c]] = c /\ nx[pv[c]] = c
      BY <2>2, <2>0, <1>4 DEF Ring
    <3> QED
      BY <3>1, <2>2, <2>0, <1>1, <1>2, <1>4
  <2> QED
    BY <2>1, <2>2
<1>6. Numbered(nx1, ow1)
  <2>1. PICK rank \in [Nodes -> Int] :
          \A m \in Nodes : ow[m] \in Heads /\ nx[m] \in Nodes => rank[m] < rank[nx[m]]
    BY DEF Sound, Numbered
  <2> DEFINE r == IF p \in Nodes THEN rank[p] + 1 ELSE
                  IF q \in Nodes THEN rank[q] - 1 ELSE 0
             rank1 == [rank EXCEPT ![new] = r]
  <2>2. r \in Int /\ rank1 \in [Nodes -> Int]
    BY <2>1
  <2>3. /\ p \in Nodes => r > rank[p]
        /\ p \notin Nodes /\ q \in Nodes => r < rank[q]
        /\ p \in Nodes => q \notin Nodes
    BY <2>1
  <2> HIDE DEF r
  <2>4. ASSUME NEW m \in Nodes, ow1[m] \in Heads, nx1[m] \in Nodes
        PROVE  rank1[m] < rank1[nx1[m]]
    <3>1. CASE m = new
      BY <3>1, <1>1, <1>2, <2>1, <2>2, <2>3, <2>4
    <3>2. CASE m = p /\ m # new
      BY <3>2, <1>1, <1>2, <2>1, <2>2, <2>3, <2>4
    <3>3. CASE m # p /\ m # new
      <4>1. ow[m] \in Heads /\ nx1[m] = nx[m] /\ m \in LiveIn(ow)
        BY <3>3, <2>4, <1>2 DEF LiveIn, OwnerIn
      <4>2. nx[m] # new
        BY <4>1, <1>1 DEF Sound, Ring
      <4> QED
        BY <3>3, <4>1, <4>2, <2>1, <2>2, <2>4
    <3> QED
      BY <3>1, <3>2, <3>3
  <2> QED
    BY <2>2, <2>4 DEF Numbered
<1> QED
  BY <1>3, <1>5, <1>6 DEF Sound, nx1, pv1, ow1

\* list_del takes an entry off the list it is on.
LEMMA DelSound ==
    ASSUME NEW nx, NEW pv, NEW ow, Sound(nx, pv, ow),
           NEW e \in Nodes, ow[e] \in Heads
    PROVE  Sound(del_next(nx, pv, e), del_prev(nx, pv, e), [ow EXCEPT ![e] = NULL])
<1> DEFINE a == pv[e]
           b == nx[e]
           nx1 == del_next(nx, pv, e)
           pv1 == del_prev(nx, pv, e)
           ow1 == [ow EXCEPT ![e] = NULL]
<1> USE CellAssumption DEF Cells
<1>0. e \in LiveIn(ow) /\ Ring(nx, pv, ow)
  BY DEF Sound, LiveIn, OwnerIn
<1>1. PICK rank \in [Nodes -> Int] :
        \A m \in Nodes : ow[m] \in Heads /\ nx[m] \in Nodes => rank[m] < rank[nx[m]]
  BY DEF Sound, Numbered
<1>2. /\ a \in LiveIn(ow) /\ b \in LiveIn(ow) /\ a \in Cells /\ b \in Cells
      /\ OwnerIn(ow, a) = OwnerIn(ow, e) /\ OwnerIn(ow, b) = OwnerIn(ow, e)
      /\ nx[a] = e /\ pv[b] = e
  BY <1>0 DEF Ring, LiveIn
<1>3. a # e /\ b # e
  BY <1>1, <1>2
<1>4. /\ nx1 = [c \in Cells |-> IF c = e THEN NULL ELSE IF c = a THEN b ELSE nx[c]]
      /\ pv1 = [c \in Cells |-> IF c = e THEN NULL ELSE IF c = b THEN a ELSE pv[c]]
      /\ ow1 = [m \in Nodes |-> IF m = e THEN NULL ELSE ow[m]]
  BY <1>2, <1>3 DEF Sound, Typed, del_next, del_prev
<1> HIDE DEF nx1, pv1, ow1
<1>5. Typed(nx1, pv1, ow1)
  <2>1. ASSUME NEW m \in Nodes
        PROVE  ow1[m] = NULL <=> nx1[m] = NULL
    <3>1. CASE m = a
      BY <3>1, <1>2, <1>3, <1>4 DEF Sound, Typed, LiveIn, OwnerIn
    <3>2. CASE m # a
      BY <3>2, <1>4 DEF Sound, Typed
    <3> QED
      BY <3>1, <3>2
  <2> QED
    BY <2>1, <1>2, <1>3, <1>4 DEF Sound, Typed
<1>6. /\ LiveIn(ow1) = LiveIn(ow) \ {e}
      /\ \A c \in LiveIn(ow1) : OwnerIn(ow1, c) = OwnerIn(ow, c)
  BY <1>4 DEF LiveIn, OwnerIn
<1>7. Ring(nx1, pv1, ow1)
  <2> SUFFICES ASSUME NEW c \in LiveIn(ow1)
               PROVE /\ nx1[c] \in LiveIn(ow1) /\ pv1[c] \in LiveIn(ow1)
                     /\ OwnerIn(ow1, nx1[c]) = OwnerIn(ow1, c)
                     /\ OwnerIn(ow1, pv1[c]) = OwnerIn(ow1, c)
                     /\ pv1[nx1[c]] = c /\ nx1[pv1[c]] = c
    BY DEF Ring
  <2>1. /\ c \in LiveIn(ow) /\ nx[c] \in LiveIn(ow) /\ pv[c] \in LiveIn(ow)
        /\ OwnerIn(ow, nx[c]) = OwnerIn(ow, c)
        /\ OwnerIn(ow, pv[c]) = OwnerIn(ow, c)
        /\ pv[nx[c]] = c /\ nx[pv[c]] = c
    BY <1>0, <1>6 DEF Ring
  <2>2. c \in Cells /\ nx[c] \in Cells /\ pv[c] \in Cells /\ c # e
    BY <2>1, <1>6 DEF LiveIn
  <2> QED
    BY <2>1, <2>2, <1>2, <1>3, <1>4, <1>6
<1>8. Numbered(nx1, ow1)
  <2>1. ASSUME NEW m \in Nodes, ow1[m] \in Heads, nx1[m] \in Nodes
        PROVE  rank[m] < rank[nx1[m]]
    <3>1. CASE m = a
      BY <3>1, <2>1, <1>1, <1>2, <1>3, <1>4
    <3>2. CASE m # a
      BY <3>2, <2>1, <1>1, <1>4
    <3> QED
      BY <3>1, <3>2
  <2> QED
    BY <2>1, <1>1 DEF Numbered
<1> QED
  BY <1>5, <1>7, <1>8 DEF Sound, nx1, pv1, ow1
\* INIT_LIST_HEAD leaves the entries of the list to themselves.
LEMMA InitSound ==
    ASSUME NEW nx, NEW pv, NEW ow, Sound(nx, pv, ow), NEW h \in Heads
    PROVE  Sound([nx EXCEPT ![h] = h], [pv EXCEPT ![h] = h],
                 [m \in Nodes |-> IF ow[m] = h THEN Lost ELSE ow[m]])
<1> DEFINE nx1 == [nx EXCEPT ![h] = h]
           pv1 == [pv EXCEPT ![h] = h]
           ow1 == [m \in Nodes |-> IF ow[m] = h THEN Lost ELSE ow[m]]
<1> USE CellAssumption DEF Cells
<1>1. /\ nx1 = [c \in Cells |-> IF c = h THEN h ELSE nx[c]]
      /\ pv1 = [c \in Cells |-> IF c = h THEN h ELSE pv[c]]
      /\ \A m \in Nodes : ow1[m] = IF ow[m] = h THEN Lost ELSE ow[m]
  BY DEF Sound, Typed
<1>2. Typed(nx1, pv1, ow1)
  BY <1>1 DEF Sound, Typed
<1> HIDE DEF nx1, pv1, ow1
<1>3. /\ LiveIn(ow1) = {c \in LiveIn(ow) : OwnerIn(ow, c) # h} \cup {h}
      /\ \A c \in LiveIn(ow1) : OwnerIn(ow1, c) = OwnerIn(ow, c)
  BY <1>1 DEF LiveIn, OwnerIn
<1>4. Ring(nx1, pv1, ow1)
  <2> SUFFICES ASSUME NEW c \in LiveIn(ow1)
               PROVE /\ nx1[c] \in LiveIn(ow1) /\ pv1[c] \in LiveIn(ow1)
                     /\ OwnerIn(ow1, nx1[c]) = OwnerIn(ow1, c)
                     /\ OwnerIn(ow1, pv1[c]) = OwnerIn(ow1, c)
                     /\ pv1[nx1[c]] = c /\ nx1[pv1[c]] = c
    BY DEF Ring
  <2>1. CASE c = h
    BY <2>1, <1>1, <1>3
  <2>2. CASE c # h
    <3>1. /\ c \in LiveIn(ow) /\ nx[c] \in LiveIn(ow) /\ pv[c] \in LiveIn(ow)
          /\ OwnerIn(ow, nx[c]) = OwnerIn(ow, c)
          /\ OwnerIn(ow, pv[c]) = OwnerIn(ow, c)
          /\ pv[nx[c]] = c /\ nx[pv[c]] = c
          /\ OwnerIn(ow, c) # h /\ OwnerIn(ow, h) = h
      BY <2>2, <1>3 DEF Sound, Ring, OwnerIn
    <3>2. c \in Cells /\ nx[c] \in Cells /\ pv[c] \in Cells
      BY <3>1 DEF LiveIn
    <3> QED
      BY <3>1, <3>2, <2>2, <1>1, <1>3
  <2> QED
    BY <2>1, <2>2
<1>5. Numbered(nx1, ow1)
  <2>1. PICK rank \in [Nodes -> Int] :
          \A m \in Nodes : ow[m] \in Heads /\ nx[m] \in Nodes => rank[m] < rank[nx[m]]
    BY DEF Sound, Numbered
  <2>2. \A m \in Nodes : ow1[m] \in Heads /\ nx1[m] \in Nodes => rank[m] < rank[nx1[m]]
    BY <2>1, <1>1
  <2> QED
    BY <2>1, <2>2 DEF Numbered
<1> QED
  BY <1>2, <1>4, <1>5 DEF Sound, nx1, pv1, ow1
-----------------------------------------------------------------------------
\* The inductive invariant.
Inv == TypeOK /\ Sound(next, prev, on) /\ CursorOnList

\* Rings, as the invariant states it of any links.
LEMMA RingsAreRings == Rings <=> Ring(next, prev, on)
  BY DEF Rings, Ring, Live, LiveIn, Owner, OwnerIn

\* At boot every list is empty.
LEMMA InitInv == Init => Inv
<1> SUFFICES ASSUME Init PROVE Inv
  OBVIOUS
<1> USE CellAssumption DEF Init, Cells
<1>1. Typed(next, prev, on) /\ TypeOK
  BY DEF Typed, TypeOK
<1>2. Ring(next, prev, on)
  BY DEF Ring, LiveIn, OwnerIn
<1>3. Numbered(next, on)
  <2>1. [m \in Nodes |-> 0] \in [Nodes -> Int]
    OBVIOUS
  <2>2. \A m \in Nodes : on[m] \notin Heads
    OBVIOUS
  <2> QED
    BY <2>1, <2>2 DEF Numbered
<1> QED
  BY <1>1, <1>2, <1>3 DEF Inv, Sound, CursorOnList

\* What the cells of the list gone through satisfy.
LEMMA CursorFacts ==
    ASSUME Inv, head # NULL
    PROVE  /\ head \in Heads /\ pos \in Live /\ n \in Live
           /\ Owner(pos) = head /\ Owner(n) = head /\ n = next[pos]
           /\ next[n] \in Live /\ Owner(next[n]) = head
BY RingsAreRings DEF Inv, Sound, Rings, CursorOnList, TypeOK

\* Every step keeps the invariant, loops with bodies that requeue included.
LEMMA NextInv == Inv /\ [Next]_vars => Inv'
<1> SUFFICES ASSUME Inv, [Next]_vars PROVE Inv'
  OBVIOUS
<1> USE CellAssumption
<1>1. Ring(next, prev, on) /\ Typed(next, prev, on) /\ Sound(next, prev, on)
  BY DEF Inv, Sound
<1>2. ASSUME NEW h \in Heads
      PROVE  /\ h \in LiveIn(on) /\ OwnerIn(on, h) = h
             /\ next[h] \in LiveIn(on) /\ prev[h] \in LiveIn(on)
             /\ OwnerIn(on, prev[h]) = h /\ next[prev[h]] = h
             /\ OwnerIn(on, next[h]) = h
  <2>1. h \in LiveIn(on) /\ OwnerIn(on, h) = h
    BY DEF LiveIn, OwnerIn, Cells
  <2> QED
    BY <2>1, <1>1 DEF Ring
\* Whatever keeps Sound while no loop is on keeps the whole.
<1>3. ASSUME Sound(next', prev', on'), NoLoop, UNCHANGED loopVars
      PROVE  Inv'
  <2>1. TypeOK'
    BY <1>3 DEF Inv, TypeOK, Sound, Typed, loopVars
  <2> QED
    BY <2>1, <1>3 DEF Inv, CursorOnList, NoLoop, loopVars
<1>4. ASSUME NEW h \in Heads, INIT_LIST_HEAD(h) PROVE Inv'
  <2>1. /\ NoLoop /\ UNCHANGED loopVars
        /\ next' = [next EXCEPT ![h] = h] /\ prev' = [prev EXCEPT ![h] = h]
        /\ on' = [m \in Nodes |-> IF on[m] = h THEN Lost ELSE on[m]]
    BY <1>4 DEF INIT_LIST_HEAD
  <2>2. Sound([next EXCEPT ![h] = h], [prev EXCEPT ![h] = h],
              [m \in Nodes |-> IF on[m] = h THEN Lost ELSE on[m]])
    BY <1>1, InitSound
  <2>3. Sound(next', prev', on')
    BY <2>1, <2>2
  <2> QED
    BY <2>1, <2>3, <1>3
<1>5. ASSUME NEW m \in Nodes, NEW h \in Heads, list_add(m, h) PROVE Inv'
  BY <1>5, <1>1, <1>2, <1>3, AddSound DEF list_add
<1>6. ASSUME NEW m \in Nodes, NEW h \in Heads, list_add_tail(m, h) PROVE Inv'
  <2>1. Sound(add_next(next, prev, m, prev[h], next[prev[h]]),
              add_prev(next, prev, m, prev[h], next[prev[h]]), [on EXCEPT ![m] = h])
    BY <1>6, <1>1, <1>2, AddSound DEF list_add_tail
  <2> QED
    BY <2>1, <1>6, <1>2, <1>3 DEF list_add_tail
<1>7. ASSUME NEW m \in Nodes, list_del(m) PROVE Inv'
  BY <1>7, <1>1, <1>3, DelSound DEF list_del
<1>8. ASSUME NEW h \in Heads, list_for_each_safe(h) PROVE Inv'
  <2>1. /\ head' = h /\ pos' = next[h] /\ n' = next[next[h]]
        /\ next' = next /\ prev' = prev /\ on' = on
    BY <1>8 DEF list_for_each_safe, list_first
  <2>2. next[h] \in LiveIn(on) /\ next[next[h]] \in LiveIn(on)
    BY <1>1, <1>2 DEF Ring
  <2>3. TypeOK'
    BY <2>1, <2>2 DEF Inv, TypeOK, LiveIn
  <2>4. CursorOnList'
    BY <2>1, <2>2, <1>2 DEF CursorOnList, Live, LiveIn, Owner, OwnerIn
  <2> QED
    BY <2>1, <2>3, <2>4, <1>1 DEF Inv
<1>9. ASSUME body_keeps PROVE Inv'
  <2>1. /\ head' = head /\ pos' = n /\ n' = next[n]
        /\ next' = next /\ prev' = prev /\ on' = on
    BY <1>9 DEF body_keeps, ahead
  <2>2. /\ head \in Heads /\ n \in Live /\ Owner(n) = head /\ next[n] \in Live
    BY <1>9, CursorFacts DEF body_keeps
  <2>3. TypeOK'
    BY <2>1, <2>2 DEF Inv, TypeOK, Live
  <2>4. CursorOnList'
    BY <2>1, <2>2 DEF CursorOnList, Live, Owner
  <2> QED
    BY <2>1, <2>3, <2>4, <1>1 DEF Inv
<1>10. ASSUME NEW h \in Heads, body_moves(h) PROVE Inv'
  <2> DEFINE nx == del_next(next, prev, pos)
             pv == del_prev(next, prev, pos)
             ow == [on EXCEPT ![pos] = NULL]
  <2>1. /\ head' = head /\ pos' = n /\ n' = next'[n] /\ pos # head /\ h # head
        /\ next' = add_next(nx, pv, pos, pv[h], h)
        /\ prev' = add_prev(nx, pv, pos, pv[h], h)
        /\ on' = [on EXCEPT ![pos] = h]
    BY <1>10 DEF body_moves, ahead
  <2>2. /\ head \in Heads /\ pos \in Live /\ n \in Live
        /\ Owner(pos) = head /\ Owner(n) = head /\ n = next[pos]
    BY <1>10, CursorFacts DEF body_moves
  <2>3. pos \in Nodes /\ on[pos] = head
    BY <2>1, <2>2 DEF Owner, Live, Cells
  <2>4. n # pos
    BY <2>2, <2>3, <1>1 DEF Sound, Numbered
  <2>5. Sound(nx, pv, ow)
    BY <1>1, <2>2, <2>3, DelSound
  <2> HIDE DEF nx, pv
  <2>6. /\ ow \in [Nodes -> Heads \cup {NULL, Lost}] /\ ow[pos] = NULL
        /\ [ow EXCEPT ![pos] = h] = on'
    BY <2>1, <2>3, <2>5 DEF Sound, Typed
  <2> HIDE DEF ow
  <2>7. /\ h \in LiveIn(ow) /\ OwnerIn(ow, h) = h
        /\ pv[h] \in LiveIn(ow) /\ OwnerIn(ow, pv[h]) = h /\ nx[pv[h]] = h
    <3>1. h \in LiveIn(ow) /\ OwnerIn(ow, h) = h
      BY DEF LiveIn, OwnerIn, Cells
    <3> QED
      BY <3>1, <2>5 DEF Sound, Ring
  <2>8. Sound(next', prev', on')
    <3>1. Sound(add_next(nx, pv, pos, pv[h], nx[pv[h]]),
                add_prev(nx, pv, pos, pv[h], nx[pv[h]]), [ow EXCEPT ![pos] = h])
      BY <2>3, <2>5, <2>6, <2>7, AddSound
    <3> QED
      BY <3>1, <2>1, <2>6, <2>7
  <2>9. n \in LiveIn(on') /\ OwnerIn(on', n) = head
    BY <2>1, <2>2, <2>3, <2>4, <1>1 DEF Sound, Typed, Live, LiveIn, Owner, OwnerIn, Cells
  <2>10. next'[n] \in Cells
    BY <2>8, <2>9 DEF Sound, Ring, LiveIn
  <2>11. TypeOK'
    BY <2>1, <2>2, <2>8, <2>9, <2>10 DEF TypeOK, Sound, Typed, LiveIn
  <2>12. CursorOnList'
    BY <2>1, <2>9 DEF CursorOnList, Live, LiveIn, Owner, OwnerIn
  <2> QED
    BY <2>8, <2>11, <2>12 DEF Inv
<1>11. ASSUME loop_ends PROVE Inv'
  BY <1>11, <1>1 DEF Inv, loop_ends, TypeOK, CursorOnList
<1>12. ASSUME UNCHANGED vars PROVE Inv'
  BY <1>12, <1>1 DEF Inv, vars, TypeOK, CursorOnList, Live, Owner
<1> QED
  BY <1>4, <1>5, <1>6, <1>7, <1>8, <1>9, <1>10, <1>11, <1>12 DEF Next

\* No operation of list.c, and no loop that requeues entries, leaves a pointer to
\* the wrong cell; and list_for_each_safe never leaves the list it goes through.
THEOREM AlwaysListsWhole == Spec => []ListsWhole
<1>1. Inv => ListsWhole
  BY RingsAreRings DEF Inv, Sound, ListsWhole
<1> QED
  BY InitInv, NextInv, <1>1, PTL DEF Spec
-----------------------------------------------------------------------------
(* The lists as sequences.                                                  *)

\* The i-th cell after the head h of a list of the entries s.
At(s, h, i) == IF i \in 1..Len(s) THEN s[i] ELSE h

\* nx leads from h through s back to h.
Leads(nx, h, s) == \A i \in 0..Len(s) : nx[At(s, h, i)] = At(s, h, i + 1)

\* The lists are those of sq, and an entry's owner knows which it is on.
Strung(nx, ow, sq) ==
    /\ sq \in [Heads -> Seq(Nodes)]
    /\ \A h \in Heads : IsInjective(sq[h]) /\ Leads(nx, h, sq[h])
    /\ \A h \in Heads, m \in Nodes : m \in Range(sq[h]) <=> ow[m] = h

\* Entries for given next fields.
Steps(nx, h, f, k) ==
    IF k = 0 THEN nx[h] ELSE IF f[k - 1] \in Nodes THEN nx[f[k - 1]] ELSE f[k - 1]
EntriesIn(nx, h) ==
    LET to == CHOOSE f : f = [k \in 0..Cardinality(Nodes) |-> Steps(nx, h, f, k)]
        len == Cardinality({k \in DOMAIN to : to[k] \in Nodes})
    IN  [k \in 1..len |-> to[k - 1]]

\* Entries reads the next fields only, before and after a step.
LEMMA EntriesAreIn ==
    ASSUME NEW h
    PROVE  Entries(h) = EntriesIn(next, h) /\ Entries(h)' = EntriesIn(next', h)
BY DEF Entries, EntriesIn, Steps

\* What is read off the pointers is what they lead through.
LEMMA EntriesAre ==
    ASSUME NEW nx, NEW h \in Heads, NEW s \in Seq(Nodes), IsInjective(s), Leads(nx, h, s)
    PROVE  EntriesIn(nx, h) = s
<1> DEFINE N == Cardinality(Nodes)
           g == [k \in 0..N |-> At(s, h, k + 1)]
           is(f) == f = [k \in 0..N |-> Steps(nx, h, f, k)]
           to == CHOOSE f : is(f)
<1>1. /\ N \in Nat /\ Len(s) \in Nat /\ DOMAIN s = 1..Len(s) /\ h \notin Nodes
      /\ \A i \in 1..Len(s) : s[i] \in Nodes
  BY CellAssumption, FS_CardinalityType, LenProperties, ElementOfSeq
<1>2. Len(s) <= N
  <2>1. s \in Injection(1..Len(s), Nodes)
    BY LenProperties DEF Injection
  <2>2. Cardinality(1..Len(s)) <= N
    BY <2>1, CellAssumption, FS_Injection
  <2>3. Cardinality(1..Len(s)) = IF 1 > Len(s) THEN 0 ELSE Len(s) - 1 + 1
    <3>1. 1 \in Int /\ Len(s) \in Int
      BY <1>1
    <3> QED BY <3>1, FS_Interval, Zenon
  <2> QED BY <1>1, <2>2, <2>3
<1>3. ASSUME NEW k \in 0..N PROVE g[k] = Steps(nx, h, g, k)
  <2>1. CASE k = 0
    <3>1. At(s, h, 0) = h /\ 0 \in 0..Len(s)
      BY <1>1 DEF At
    <3>2. nx[h] = At(s, h, 0 + 1)
      BY <3>1 DEF Leads
    <3> QED BY <2>1, <3>2 DEF Steps
  <2>2. CASE k # 0
    <3>1. k - 1 \in 0..N /\ (k - 1) + 1 = k /\ k \in Nat
      BY <1>1, <2>2
    <3>2. g[k - 1] = At(s, h, k)
      BY <3>1
    <3>3. CASE k <= Len(s)
      <4>1. At(s, h, k) \in Nodes /\ nx[At(s, h, k)] = At(s, h, k + 1)
        BY <1>1, <2>2, <3>1, <3>3 DEF At, Leads
      <4> QED BY <2>2, <3>2, <4>1 DEF Steps
    <3>4. CASE ~(k <= Len(s))
      <4>1. At(s, h, k) = h /\ At(s, h, k + 1) = h
        BY <1>1, <3>1, <3>4 DEF At
      <4> QED BY <1>1, <2>2, <3>2, <4>1 DEF Steps
    <3> QED BY <3>3, <3>4
  <2> QED BY <2>1, <2>2
<1>4. is(to)
  <2>1. is(g)
    BY <1>3
  <2> HIDE DEF g, is
  <2> QED BY <2>1
<1> HIDE DEF to, N
<1>5. DOMAIN to = 0..N /\ \A k \in 0..N : to[k] = Steps(nx, h, to, k)
  BY <1>4
<1> HIDE DEF is
<1>6. \A k \in 0..N : to[k] = g[k]
  <2> DEFINE H == {k \in Nat : k <= N => to[k] = g[k]}
  <2>1. 0 \in H
    <3>1. 0 \in 0..N /\ to[0] = Steps(nx, h, to, 0) /\ g[0] = Steps(nx, h, g, 0)
      BY <1>1, <1>3, <1>5
    <3> HIDE DEF g
    <3>2. to[0] = g[0]
      BY <3>1 DEF Steps
    <3> QED BY <3>2
  <2>2. ASSUME NEW k \in Nat, k \in H PROVE k + 1 \in H
    <3> SUFFICES ASSUME k + 1 <= N PROVE to[k + 1] = g[k + 1]
      BY <2>2
    <3>1. k + 1 \in 0..N /\ k + 1 # 0 /\ (k + 1) - 1 = k /\ to[k] = g[k]
      BY <1>1, <2>2
    <3>2. to[k + 1] = Steps(nx, h, to, k + 1)
      BY <1>5, <3>1
    <3>3. g[k + 1] = Steps(nx, h, g, k + 1)
      BY <1>3, <3>1
    <3> HIDE DEF g
    <3> QED BY <3>1, <3>2, <3>3 DEF Steps
  <2> HIDE DEF H
  <2>3. \A k \in Nat : k \in H
    BY <2>1, <2>2, NatSetInduction
  <2>4. ASSUME NEW k \in 0..N PROVE to[k] = g[k]
    <3>1. k \in H /\ k <= N
      BY <1>1, <2>3
    <3> HIDE DEF g
    <3> QED BY <3>1 DEF H
  <2> QED BY <2>4
<1>7. {k \in DOMAIN to : to[k] \in Nodes} = 0..(Len(s) - 1)
  <2>1. ASSUME NEW k \in 0..N PROVE g[k] \in Nodes <=> k <= Len(s) - 1
    <3>1. k + 1 \in 1..Len(s) <=> k <= Len(s) - 1
      BY <1>1
    <3> QED BY <1>1, <3>1 DEF At
  <2> HIDE DEF g
  <2> QED BY <1>1, <1>2, <1>5, <1>6, <2>1
<1>8. Cardinality(0..(Len(s) - 1)) = Len(s)
  <2>1. Cardinality(0..(Len(s) - 1)) = IF 0 > Len(s) - 1 THEN 0 ELSE (Len(s) - 1) - 0 + 1
    <3>1. 0 \in Int /\ Len(s) - 1 \in Int
      BY <1>1
    <3> QED BY <3>1, FS_Interval, Zenon
  <2> QED BY <1>1, <2>1
<1>9. EntriesIn(nx, h) = [k \in 1..Len(s) |-> to[k - 1]]
  BY <1>7, <1>8 DEF EntriesIn, to, is, N
<1>10. ASSUME NEW k \in 1..Len(s) PROVE to[k - 1] = s[k]
  <2>1. k - 1 \in 0..N /\ (k - 1) + 1 = k
    BY <1>1, <1>2
  <2>2. g[k - 1] = s[k]
    BY <2>1 DEF At
  <2> HIDE DEF g
  <2> QED BY <1>6, <2>1, <2>2
<1>11. s = [k \in 1..Len(s) |-> s[k]]
  BY <1>1, SeqDef
<1> QED BY <1>9, <1>10, <1>11

\* The cells of one list in their order, and the links between them.
LEMMA AtFacts ==
    ASSUME NEW nx, NEW pv, NEW ow, NEW sq, Strung(nx, ow, sq), Sound(nx, pv, ow),
           NEW h \in Heads, NEW s, s = sq[h]
    PROVE  /\ s \in Seq(Nodes) /\ Len(s) \in Nat /\ DOMAIN s = 1..Len(s) /\ IsInjective(s)
           /\ \A i \in 1..Len(s) : s[i] \in Nodes /\ ow[s[i]] = h
           /\ \A i, j \in 1..Len(s) : s[i] = s[j] => i = j
           /\ \A m \in Nodes : ow[m] = h => \E i \in 1..Len(s) : s[i] = m
           /\ \A i \in Nat : At(s, h, i) \in LiveIn(ow) /\ OwnerIn(ow, At(s, h, i)) = h
           /\ \A i, j \in 0..Len(s) : At(s, h, i) = At(s, h, j) => i = j
           /\ \A i \in 0..Len(s) : /\ nx[At(s, h, i)] = At(s, h, i + 1)
                                   /\ pv[At(s, h, i + 1)] = At(s, h, i)
<1>1. s \in Seq(Nodes) /\ IsInjective(s) /\ Leads(nx, h, s) /\ h \notin Nodes
  BY CellAssumption DEF Strung
<1>2. /\ Len(s) \in Nat /\ DOMAIN s = 1..Len(s) /\ \A i \in 1..Len(s) : s[i] \in Nodes
  BY <1>1, LenProperties, ElementOfSeq
<1>3. \A i \in 1..Len(s) : ow[s[i]] = h
  BY <1>2 DEF Strung, Range
<1>4. \A i, j \in 1..Len(s) : s[i] = s[j] => i = j
  BY <1>1, <1>2 DEF IsInjective
<1>5. \A m \in Nodes : ow[m] = h => \E i \in 1..Len(s) : s[i] = m
  BY <1>2 DEF Strung, Range
<1>6. \A i \in Nat : At(s, h, i) \in LiveIn(ow) /\ OwnerIn(ow, At(s, h, i)) = h
  BY <1>1, <1>2, <1>3, CellAssumption DEF At, LiveIn, OwnerIn, Cells
<1>7. \A i, j \in 0..Len(s) : At(s, h, i) = At(s, h, j) => i = j
  <2> SUFFICES ASSUME NEW i \in 0..Len(s), NEW j \in 0..Len(s), At(s, h, i) = At(s, h, j)
               PROVE  i = j
    OBVIOUS
  <2>1. CASE i = 0
    BY <1>1, <1>2, <2>1 DEF At
  <2>2. CASE j = 0
    BY <1>1, <1>2, <2>2 DEF At
  <2>3. CASE i # 0 /\ j # 0
    <3>1. i \in 1..Len(s) /\ j \in 1..Len(s) /\ s[i] = s[j]
      BY <1>2, <2>3 DEF At
    <3> QED BY <1>4, <3>1
  <2> QED BY <2>1, <2>2, <2>3
<1>8. ASSUME NEW i \in 0..Len(s)
      PROVE  nx[At(s, h, i)] = At(s, h, i + 1) /\ pv[At(s, h, i + 1)] = At(s, h, i)
  <2>1. nx[At(s, h, i)] = At(s, h, i + 1) /\ At(s, h, i) \in LiveIn(ow)
    BY <1>1, <1>2, <1>6 DEF Leads
  <2>2. pv[nx[At(s, h, i)]] = At(s, h, i)
    BY <2>1 DEF Sound, Ring
  <2> QED BY <2>1, <2>2
<1> QED BY <1>1, <1>2, <1>3, <1>4, <1>5, <1>6, <1>7, <1>8

\* Where nothing is linked or unlinked, a list is as it was.
LEMMA OtherList ==
    ASSUME NEW nx, NEW ow, NEW sq, Strung(nx, ow, sq), NEW nx1, NEW g \in Heads,
           \A c \in LiveIn(ow) : OwnerIn(ow, c) = g => nx1[c] = nx[c]
    PROVE  Leads(nx1, g, sq[g])
<1>1. /\ sq[g] \in Seq(Nodes) /\ Leads(nx, g, sq[g]) /\ g \notin Nodes
  BY CellAssumption DEF Strung
<1>2. /\ Len(sq[g]) \in Nat /\ DOMAIN sq[g] = 1..Len(sq[g])
      /\ \A i \in 1..Len(sq[g]) : sq[g][i] \in Nodes
  BY <1>1, LenProperties, ElementOfSeq
<1>3. \A i \in 1..Len(sq[g]) : ow[sq[g][i]] = g
  BY <1>2 DEF Strung, Range
<1>4. \A i \in 0..Len(sq[g]) : At(sq[g], g, i) \in LiveIn(ow) /\ OwnerIn(ow, At(sq[g], g, i)) = g
  BY <1>1, <1>2, <1>3, CellAssumption DEF At, LiveIn, OwnerIn, Cells
<1> QED BY <1>1, <1>4 DEF Leads

\* s with new behind its first k entries.
Inserted(s, k, new) ==
    [i \in 1..(Len(s) + 1) |-> IF i <= k THEN s[i] ELSE IF i = k + 1 THEN new ELSE s[i - 1]]

\* list_add and list_add_tail keep the entries there are, in their order.
LEMMA InsertedFacts ==
    ASSUME NEW s \in Seq(Nodes), NEW h \in Heads, NEW new \in Nodes, NEW k \in 0..Len(s),
           IsInjective(s), new \notin Range(s), NEW t, t = Inserted(s, k, new)
    PROVE  /\ t \in Seq(Nodes) /\ Len(t) = Len(s) + 1 /\ IsInjective(t)
           /\ Range(t) = Range(s) \cup {new}
           /\ \A i \in 0..(Len(s) + 2) :
                At(t, h, i) = IF i <= k THEN At(s, h, i)
                              ELSE IF i = k + 1 THEN new ELSE At(s, h, i - 1)
<1>1. /\ Len(s) \in Nat /\ DOMAIN s = 1..Len(s)
      /\ \A i \in 1..Len(s) : s[i] \in Nodes /\ s[i] # new
  BY LenProperties, ElementOfSeq DEF Range
<1>2. \A i, j \in 1..Len(s) : s[i] = s[j] => i = j
  BY <1>1 DEF IsInjective
<1>3. DOMAIN t = 1..(Len(s) + 1) /\ k \in Nat /\ k <= Len(s)
  BY <1>1 DEF Inserted
<1>4. \A i \in 1..(Len(s) + 1) :
        /\ i <= k => t[i] = s[i] /\ i \in 1..Len(s)
        /\ i = k + 1 => t[i] = new
        /\ i > k + 1 => t[i] = s[i - 1] /\ i - 1 \in 1..Len(s)
  BY <1>1 DEF Inserted
<1>5. t \in Seq(Nodes) /\ Len(t) = Len(s) + 1
  <2>1. \A i \in 1..(Len(s) + 1) : t[i] \in Nodes
    BY <1>1, <1>3, <1>4
  <2>2. t = [i \in 1..(Len(s) + 1) |-> t[i]]
    BY DEF Inserted
  <2>3. t \in [1..(Len(s) + 1) -> Nodes] /\ Len(s) + 1 \in Nat
    BY <1>1, <2>1, <2>2
  <2> QED BY <2>3, SeqDef, LenProperties
<1>6. IsInjective(t)
  <2> SUFFICES ASSUME NEW i \in 1..(Len(s) + 1), NEW j \in 1..(Len(s) + 1), t[i] = t[j]
               PROVE  i = j
    BY <1>3 DEF IsInjective
  <2>1. CASE i = k + 1 \/ j = k + 1
    BY <1>1, <1>3, <1>4, <2>1
  <2>2. CASE i <= k /\ j <= k
    BY <1>2, <1>4, <2>2
  <2>3. CASE i <= k /\ j > k + 1
    <3>1. s[i] = s[j - 1] /\ i \in 1..Len(s) /\ j - 1 \in 1..Len(s)
      BY <1>4, <2>3
    <3> QED BY <1>2, <1>3, <2>3, <3>1
  <2>4. CASE i > k + 1 /\ j <= k
    <3>1. s[i - 1] = s[j] /\ i - 1 \in 1..Len(s) /\ j \in 1..Len(s)
      BY <1>4, <2>4
    <3> QED BY <1>2, <1>3, <2>4, <3>1
  <2>5. CASE i > k + 1 /\ j > k + 1
    <3>1. s[i - 1] = s[j - 1] /\ i - 1 \in 1..Len(s) /\ j - 1 \in 1..Len(s)
      BY <1>4, <2>5
    <3> QED BY <1>2, <1>3, <2>5, <3>1
  <2> QED BY <1>3, <2>1, <2>2, <2>3, <2>4, <2>5
<1>7. ASSUME NEW m PROVE m \in Range(t) <=> m \in Range(s) \cup {new}
  <2>1. ASSUME m \in Range(t) PROVE m \in Range(s) \cup {new}
    <3>1. PICK i \in 1..(Len(s) + 1) : t[i] = m
      BY <1>3, <2>1 DEF Range
    <3> QED BY <1>1, <1>3, <1>4, <3>1 DEF Range
  <2>2. new \in Range(t)
    <3>1. k + 1 \in 1..(Len(s) + 1) /\ t[k + 1] = new
      BY <1>1, <1>3, <1>4
    <3> QED BY <1>3, <3>1 DEF Range
  <2>3. ASSUME m \in Range(s) PROVE m \in Range(t)
    <3>1. PICK i \in 1..Len(s) : s[i] = m
      BY <1>1, <2>3 DEF Range
    <3>2. CASE i <= k
      BY <1>1, <1>3, <1>4, <3>1, <3>2 DEF Range
    <3>3. CASE i > k
      <4>1. i + 1 \in 1..(Len(s) + 1) /\ i + 1 > k + 1 /\ (i + 1) - 1 = i
        BY <1>1, <1>3, <3>3
      <4>2. t[i + 1] = m
        BY <1>4, <3>1, <4>1
      <4> QED BY <1>3, <4>1, <4>2 DEF Range
    <3> QED BY <1>3, <3>2, <3>3
  <2> QED BY <2>1, <2>2, <2>3
<1>8. ASSUME NEW i \in 0..(Len(s) + 2)
      PROVE  At(t, h, i) = IF i <= k THEN At(s, h, i)
                           ELSE IF i = k + 1 THEN new ELSE At(s, h, i - 1)
  <2>1. CASE i <= k
    BY <1>1, <1>3, <1>4, <1>5, <2>1 DEF At
  <2>2. CASE i = k + 1
    BY <1>1, <1>3, <1>4, <1>5, <2>2 DEF At
  <2>3. CASE i > k + 1
    BY <1>1, <1>3, <1>4, <1>5, <2>3 DEF At
  <2> QED BY <1>3, <2>1, <2>2, <2>3
<1> QED BY <1>5, <1>6, <1>7, <1>8

\* __list_add of new behind the k-th cell of a list.
LEMMA AddStrung ==
    ASSUME NEW nx, NEW pv, NEW ow, NEW sq, Strung(nx, ow, sq), Sound(nx, pv, ow),
           NEW new \in Nodes, ow[new] = NULL, NEW h \in Heads, NEW k \in 0..Len(sq[h])
    PROVE  Strung(add_next(nx, pv, new, At(sq[h], h, k), At(sq[h], h, k + 1)),
                  [ow EXCEPT ![new] = h], [sq EXCEPT ![h] = Inserted(sq[h], k, new)])
<1>1. PICK s : s = sq[h]
  OBVIOUS
<1>2. PICK t : t = Inserted(s, k, new)
  OBVIOUS
<1> DEFINE p == At(s, h, k)
           q == At(s, h, k + 1)
           nx1 == add_next(nx, pv, new, p, q)
           ow1 == [ow EXCEPT ![new] = h]
           sq1 == [sq EXCEPT ![h] = t]
<1>3. /\ s \in Seq(Nodes) /\ Len(s) \in Nat /\ DOMAIN s = 1..Len(s) /\ IsInjective(s)
      /\ \A i \in 1..Len(s) : s[i] \in Nodes /\ ow[s[i]] = h
      /\ \A i \in Nat : At(s, h, i) \in LiveIn(ow) /\ OwnerIn(ow, At(s, h, i)) = h
      /\ \A i, j \in 0..Len(s) : At(s, h, i) = At(s, h, j) => i = j
      /\ \A i \in 0..Len(s) : nx[At(s, h, i)] = At(s, h, i + 1)
  BY <1>1, AtFacts
<1>4. k \in 0..Len(s) /\ k \in Nat /\ k <= Len(s)
  BY <1>1, <1>3
<1>5. new \notin LiveIn(ow) /\ new \notin Heads /\ NULL \notin Heads
  BY CellAssumption DEF LiveIn, OwnerIn
<1>6. new \notin Range(s) /\ \A i \in Nat : At(s, h, i) # new
  BY <1>3, <1>5, CellAssumption DEF Range
<1>7. /\ t \in Seq(Nodes) /\ Len(t) = Len(s) + 1 /\ IsInjective(t)
      /\ Range(t) = Range(s) \cup {new}
      /\ \A i \in 0..(Len(s) + 2) :
           At(t, h, i) = IF i <= k THEN At(s, h, i)
                         ELSE IF i = k + 1 THEN new ELSE At(s, h, i - 1)
  BY <1>2, <1>3, <1>4, <1>6, InsertedFacts
<1>8. /\ sq1 \in [Heads -> Seq(Nodes)] /\ sq1[h] = t
      /\ \A g \in Heads : g # h => sq1[g] = sq[g]
  BY <1>7 DEF Strung
<1>9. ow \in [Nodes -> Heads \cup {NULL, Lost}] /\ \A m \in Nodes : ow1[m] = IF m = new THEN h ELSE ow[m]
  BY DEF Sound, Typed
<1>10. \A c \in LiveIn(ow) : nx1[c] = IF c = p THEN new ELSE nx[c]
  <2>1. nx \in [Cells -> Cells \cup {NULL}] /\ \A c \in LiveIn(ow) : c \in Cells
    BY DEF Sound, Typed, LiveIn
  <2> QED BY <1>5, <2>1 DEF add_next
<1>11. nx1[new] = q
  <2>1. nx \in [Cells -> Cells \cup {NULL}] /\ new \in Cells /\ p # new
    BY <1>4, <1>6 DEF Sound, Typed, Cells
  <2> QED BY <2>1 DEF add_next
<1> HIDE DEF nx1, ow1, sq1
<1>12. Leads(nx1, h, t)
  <2> SUFFICES ASSUME NEW i \in 0..(Len(s) + 1) PROVE nx1[At(t, h, i)] = At(t, h, i + 1)
    BY <1>7 DEF Leads
  <2>0. i \in Nat /\ i \in 0..(Len(s) + 2) /\ i + 1 \in 0..(Len(s) + 2)
    BY <1>3
  <2>1. CASE i < k
    <3>1. At(t, h, i) = At(s, h, i) /\ At(t, h, i + 1) = At(s, h, i + 1)
      BY <1>4, <1>7, <2>0, <2>1
    <3>2. i \in 0..Len(s) /\ i # k
      BY <1>3, <1>4, <2>1
    <3>3. At(s, h, i) # p /\ nx[At(s, h, i)] = At(s, h, i + 1) /\ At(s, h, i) \in LiveIn(ow)
      BY <1>3, <1>4, <2>0, <3>2
    <3> QED BY <1>10, <3>1, <3>3
  <2>2. CASE i = k
    <3>1. At(t, h, i) = p /\ At(t, h, i + 1) = new
      BY <1>4, <1>7, <2>0, <2>2
    <3>2. p \in LiveIn(ow)
      BY <1>3, <1>4
    <3> QED BY <1>10, <3>1, <3>2
  <2>3. CASE i = k + 1
    <3>1. At(t, h, i) = new /\ At(t, h, i + 1) = At(s, h, (i + 1) - 1) /\ (i + 1) - 1 = k + 1
      BY <1>4, <1>7, <2>0, <2>3
    <3> QED BY <1>11, <3>1
  <2>4. CASE i > k + 1
    <3>1. At(t, h, i) = At(s, h, i - 1) /\ At(t, h, i + 1) = At(s, h, (i + 1) - 1)
      BY <1>4, <1>7, <2>0, <2>4
    <3>2. /\ i - 1 \in 0..Len(s) /\ i - 1 # k /\ (i + 1) - 1 = (i - 1) + 1 /\ i - 1 \in Nat
      BY <1>3, <1>4, <2>0, <2>4
    <3>3. /\ At(s, h, i - 1) # p /\ nx[At(s, h, i - 1)] = At(s, h, (i - 1) + 1)
          /\ At(s, h, i - 1) \in LiveIn(ow)
      BY <1>3, <1>4, <3>2
    <3> QED BY <1>10, <3>1, <3>2, <3>3
  <2> QED BY <1>4, <2>0, <2>1, <2>2, <2>3, <2>4
<1>13. ASSUME NEW g \in Heads PROVE IsInjective(sq1[g]) /\ Leads(nx1, g, sq1[g])
  <2>1. CASE g = h
    BY <1>7, <1>8, <1>12, <2>1
  <2>2. CASE g # h
    <3>1. OwnerIn(ow, p) = h
      BY <1>3, <1>4
    <3>2. Leads(nx1, g, sq[g])
      BY <1>10, <2>2, <3>1, OtherList
    <3> QED BY <1>8, <2>2, <3>2 DEF Strung
  <2> QED BY <2>1, <2>2
<1>14. ASSUME NEW g \in Heads, NEW m \in Nodes PROVE m \in Range(sq1[g]) <=> ow1[m] = g
  <2>1. m \in Range(sq[g]) <=> ow[m] = g
    BY DEF Strung
  <2>2. CASE g = h
    BY <1>1, <1>7, <1>8, <1>9, <2>1, <2>2
  <2>3. CASE g # h
    BY <1>5, <1>8, <1>9, <2>1, <2>3
  <2> QED BY <2>2, <2>3
<1> QED BY <1>1, <1>2, <1>8, <1>13, <1>14 DEF Strung, nx1, ow1, sq1

\* list_add and list_add_tail in the form of Lists.
LEMMA InsertedEnds ==
    ASSUME NEW s \in Seq(Nodes), NEW new \in Nodes
    PROVE  Inserted(s, 0, new) = <<new>> \o s /\ Inserted(s, Len(s), new) = Append(s, new)
<1>1. Len(s) \in Nat /\ s \in [1..Len(s) -> Nodes] /\ <<new>> \in Seq(Nodes) /\ Len(<<new>>) = 1
  BY LenProperties
<1>2. Inserted(s, 0, new) = <<new>> \o s
  <2> DEFINE u == <<new>> \o s
  <2>1. /\ u \in Seq(Nodes) /\ Len(u) = 1 + Len(s)
        /\ \A i \in 1..(1 + Len(s)) : u[i] = IF i <= 1 THEN <<new>>[i] ELSE s[i - 1]
    BY <1>1, ConcatProperties
  <2>2. u \in [1..(Len(s) + 1) -> Nodes]
    <3>1. 1 + Len(s) = Len(s) + 1
      BY <1>1
    <3> QED BY <2>1, <3>1, LenProperties
  <2> HIDE DEF u
  <2>3. \A i \in 1..(Len(s) + 1) :
          u[i] = IF i <= 0 THEN s[i] ELSE IF i = 0 + 1 THEN new ELSE s[i - 1]
    <3> SUFFICES ASSUME NEW i \in 1..(Len(s) + 1)
                 PROVE  u[i] = IF i = 1 THEN new ELSE s[i - 1]
      BY <1>1
    <3>1. u[i] = IF i <= 1 THEN <<new>>[i] ELSE s[i - 1]
      BY <1>1, <2>1
    <3>2. <<new>>[1] = new
      OBVIOUS
    <3> QED BY <1>1, <3>1, <3>2
  <2>4. u = Inserted(s, 0, new)
    BY <2>2, <2>3 DEF Inserted
  <2> QED BY <2>4 DEF u
<1>3. Inserted(s, Len(s), new) = Append(s, new)
  <2> DEFINE u == Append(s, new)
  <2>1. /\ u \in Seq(Nodes) /\ Len(u) = Len(s) + 1
        /\ \A i \in 1..Len(s) : u[i] = s[i]
        /\ u[Len(s) + 1] = new
    BY AppendProperties
  <2>2. u \in [1..(Len(s) + 1) -> Nodes]
    BY <2>1, LenProperties
  <2> HIDE DEF u
  <2>3. \A i \in 1..(Len(s) + 1) :
          u[i] = IF i <= Len(s) THEN s[i] ELSE IF i = Len(s) + 1 THEN new ELSE s[i - 1]
    BY <1>1, <2>1
  <2>4. u = Inserted(s, Len(s), new)
    BY <2>2, <2>3 DEF Inserted
  <2> QED BY <2>4 DEF u
<1> QED BY <1>2, <1>3

\* list_del of the j-th entry of a list.
LEMMA WithoutFacts ==
    ASSUME NEW s \in Seq(Nodes), NEW h \in Heads, NEW j \in 1..Len(s), IsInjective(s),
           NEW t, t = Without(s, j)
    PROVE  /\ t \in Seq(Nodes) /\ Len(t) = Len(s) - 1 /\ IsInjective(t)
           /\ Range(t) = Range(s) \ {s[j]}
           /\ \A i \in 0..Len(s) :
                At(t, h, i) = IF i < j THEN At(s, h, i) ELSE At(s, h, i + 1)
<1>1. /\ Len(s) \in Nat /\ DOMAIN s = 1..Len(s) /\ j \in 1..Len(s) /\ Len(s) - 1 \in Nat
      /\ \A i \in 1..Len(s) : s[i] \in Nodes
  <2>1. Len(s) \in Nat /\ DOMAIN s = 1..Len(s) /\ \A i \in 1..Len(s) : s[i] \in Nodes
    BY LenProperties, ElementOfSeq
  <2> QED BY <2>1
<1>2. \A i, k \in 1..Len(s) : s[i] = s[k] => i = k
  BY <1>1 DEF IsInjective
<1>3. \A i \in 1..(Len(s) - 1) :
        /\ i < j => t[i] = s[i] /\ i \in 1..Len(s)
        /\ i >= j => t[i] = s[i + 1] /\ i + 1 \in 1..Len(s)
  BY <1>1 DEF Without
<1>4. DOMAIN t = 1..(Len(s) - 1)
  BY DEF Without
<1>5. t \in Seq(Nodes) /\ Len(t) = Len(s) - 1
  <2>1. \A i \in 1..(Len(s) - 1) : t[i] \in Nodes
    BY <1>1, <1>3
  <2>2. t = [i \in 1..(Len(s) - 1) |-> t[i]]
    BY DEF Without
  <2>3. t \in [1..(Len(s) - 1) -> Nodes]
    BY <2>1, <2>2
  <2>4. PICK k \in Nat : k = Len(s) - 1
    <3>1. Len(s) - 1 \in Nat
      BY <1>1
    <3> QED BY <3>1, Zenon
  <2>5. t \in [1..k -> Nodes]
    BY <2>3, <2>4
  <2>6. t \in Seq(Nodes) /\ Len(t) = k
    BY <2>5, SeqDef, LenProperties
  <2> QED BY <2>4, <2>6
<1>6. IsInjective(t)
  <2> SUFFICES ASSUME NEW i \in 1..(Len(s) - 1), NEW k \in 1..(Len(s) - 1), t[i] = t[k]
               PROVE  i = k
    BY <1>4 DEF IsInjective
  <2>1. CASE i < j /\ k < j
    BY <1>2, <1>3, <2>1
  <2>2. CASE i < j /\ k >= j
    <3>1. s[i] = s[k + 1] /\ i \in 1..Len(s) /\ k + 1 \in 1..Len(s)
      BY <1>3, <2>2
    <3> QED BY <1>1, <1>2, <2>2, <3>1
  <2>3. CASE i >= j /\ k < j
    <3>1. s[i + 1] = s[k] /\ i + 1 \in 1..Len(s) /\ k \in 1..Len(s)
      BY <1>3, <2>3
    <3> QED BY <1>1, <1>2, <2>3, <3>1
  <2>4. CASE i >= j /\ k >= j
    <3>1. s[i + 1] = s[k + 1] /\ i + 1 \in 1..Len(s) /\ k + 1 \in 1..Len(s)
      BY <1>3, <2>4
    <3> QED BY <1>1, <1>2, <2>4, <3>1
  <2> QED BY <1>1, <2>1, <2>2, <2>3, <2>4
<1>7. ASSUME NEW m PROVE m \in Range(t) <=> m \in Range(s) \ {s[j]}
  <2>1. ASSUME m \in Range(t) PROVE m \in Range(s) \ {s[j]}
    <3>1. PICK i \in 1..(Len(s) - 1) : t[i] = m
      BY <1>4, <2>1 DEF Range
    <3>2. CASE i < j
      BY <1>1, <1>2, <1>3, <3>1, <3>2 DEF Range
    <3>3. CASE i >= j
      <4>1. m = s[i + 1] /\ i + 1 \in 1..Len(s) /\ i + 1 # j
        BY <1>1, <1>3, <3>1, <3>3
      <4> QED BY <1>1, <1>2, <4>1 DEF Range
    <3> QED BY <1>1, <3>2, <3>3
  <2>2. ASSUME m \in Range(s), m # s[j] PROVE m \in Range(t)
    <3>1. PICK i \in 1..Len(s) : s[i] = m
      BY <1>1, <2>2 DEF Range
    <3>2. CASE i < j
      <4>1. i \in 1..(Len(s) - 1)
        BY <1>1, <3>2
      <4> QED BY <1>3, <1>4, <3>1, <3>2, <4>1 DEF Range
    <3>3. CASE i > j
      <4>1. i - 1 \in 1..(Len(s) - 1) /\ i - 1 >= j /\ (i - 1) + 1 = i
        BY <1>1, <3>3
      <4>2. t[i - 1] = m
        BY <1>3, <3>1, <4>1
      <4> QED BY <1>4, <4>1, <4>2 DEF Range
    <3>4. i # j
      BY <2>2, <3>1
    <3> QED BY <1>1, <3>2, <3>3, <3>4
  <2> QED BY <2>1, <2>2
<1>8. ASSUME NEW i \in 0..Len(s)
      PROVE  At(t, h, i) = IF i < j THEN At(s, h, i) ELSE At(s, h, i + 1)
  <2>1. CASE i < j
    BY <1>1, <1>3, <1>5, <2>1 DEF At
  <2>2. CASE i >= j
    BY <1>1, <1>3, <1>5, <2>2 DEF At
  <2> QED BY <1>1, <2>1, <2>2
<1> QED BY <1>5, <1>6, <1>7, <1>8

\* list_del takes the entry out of the sequence and leaves the others.
LEMMA DelStrung ==
    ASSUME NEW nx, NEW pv, NEW ow, NEW sq, Strung(nx, ow, sq), Sound(nx, pv, ow),
           NEW e \in Nodes, ow[e] \in Heads
    PROVE  Strung(del_next(nx, pv, e), [ow EXCEPT ![e] = NULL], ListDel(sq, e))
<1>1. PICK h \in Heads : ow[e] = h
  OBVIOUS
<1>2. PICK s : s = sq[h]
  OBVIOUS
<1>3. /\ s \in Seq(Nodes) /\ Len(s) \in Nat /\ DOMAIN s = 1..Len(s) /\ IsInjective(s)
      /\ \A i \in 1..Len(s) : s[i] \in Nodes /\ ow[s[i]] = h
      /\ \A m \in Nodes : ow[m] = h => \E i \in 1..Len(s) : s[i] = m
      /\ \A i \in Nat : At(s, h, i) \in LiveIn(ow) /\ OwnerIn(ow, At(s, h, i)) = h
      /\ \A i, k \in 0..Len(s) : At(s, h, i) = At(s, h, k) => i = k
      /\ \A i \in 0..Len(s) : /\ nx[At(s, h, i)] = At(s, h, i + 1)
                              /\ pv[At(s, h, i + 1)] = At(s, h, i)
  BY <1>2, AtFacts
<1>4. PICK j \in 1..Len(s) : s[j] = e
  BY <1>1, <1>3
<1>5. PICK t : t = Without(s, j)
  OBVIOUS
<1>6. /\ t \in Seq(Nodes) /\ Len(t) = Len(s) - 1 /\ IsInjective(t)
      /\ Range(t) = Range(s) \ {e}
      /\ \A i \in 0..Len(s) :
           At(t, h, i) = IF i < j THEN At(s, h, i) ELSE At(s, h, i + 1)
  <2>1. s \in Seq(Nodes) /\ IsInjective(s)
    BY <1>3
  <2>2. Range(t) = Range(s) \ {s[j]}
    BY <1>5, <2>1, WithoutFacts
  <2>3. Range(t) = Range(s) \ {e}
    BY <1>4, <2>2
  <2> QED BY <1>5, <2>1, <2>3, WithoutFacts
<1> DEFINE nx1 == del_next(nx, pv, e)
           ow1 == [ow EXCEPT ![e] = NULL]
           p == At(s, h, j - 1)
<1>7. /\ j - 1 \in 0..Len(s) /\ j \in 0..Len(s) /\ j - 1 \in Nat /\ j \in Nat /\ (j - 1) + 1 = j
      /\ At(s, h, j) = e /\ pv[e] = p /\ nx[e] = At(s, h, j + 1)
  <2>1. j - 1 \in 0..Len(s) /\ j \in 0..Len(s) /\ j - 1 \in Nat /\ j \in Nat /\ (j - 1) + 1 = j
    BY <1>3
  <2>2. At(s, h, j) = e
    BY <1>4 DEF At
  <2> QED BY <1>3, <2>1, <2>2
<1>8. p # e /\ p \in LiveIn(ow) /\ e \in LiveIn(ow) /\ OwnerIn(ow, e) = h /\ OwnerIn(ow, p) = h
  <2>1. j - 1 # j
    BY <1>7
  <2> QED BY <1>3, <1>7, <2>1
<1>9. \A c \in LiveIn(ow) : c # e => nx1[c] = IF c = p THEN At(s, h, j + 1) ELSE nx[c]
  <2>1. nx \in [Cells -> Cells \cup {NULL}] /\ \A c \in LiveIn(ow) : c \in Cells
    BY DEF Sound, Typed, LiveIn
  <2> QED BY <1>7, <1>8, <2>1 DEF del_next
<1>10. /\ ow \in [Nodes -> Heads \cup {NULL, Lost}] /\ NULL \notin Heads
       /\ \A m \in Nodes : ow1[m] = IF m = e THEN NULL ELSE ow[m]
  BY CellAssumption DEF Sound, Typed
<1> HIDE DEF nx1, ow1
<1>11. Leads(nx1, h, t)
  <2> SUFFICES ASSUME NEW i \in 0..(Len(s) - 1) PROVE nx1[At(t, h, i)] = At(t, h, i + 1)
    BY <1>6 DEF Leads
  <2>0. i \in Nat /\ i \in 0..Len(s) /\ i + 1 \in 0..Len(s)
    BY <1>3
  <2>1. CASE i < j - 1
    <3>1. At(t, h, i) = At(s, h, i) /\ At(t, h, i + 1) = At(s, h, i + 1)
      BY <1>6, <1>7, <2>0, <2>1
    <3>2. i # j /\ i # j - 1
      BY <1>7, <2>0, <2>1
    <3>3. /\ At(s, h, i) # e /\ At(s, h, i) # p /\ At(s, h, i) \in LiveIn(ow)
          /\ nx[At(s, h, i)] = At(s, h, i + 1)
      BY <1>3, <1>7, <2>0, <3>2
    <3> QED BY <1>9, <3>1, <3>3
  <2>2. CASE i = j - 1
    <3>1. At(t, h, i) = p /\ At(t, h, i + 1) = At(s, h, (i + 1) + 1) /\ i + 1 = j
      BY <1>6, <1>7, <2>0, <2>2
    <3> QED BY <1>8, <1>9, <3>1
  <2>3. CASE i > j - 1
    <3>1. At(t, h, i) = At(s, h, i + 1) /\ At(t, h, i + 1) = At(s, h, (i + 1) + 1)
      BY <1>6, <1>7, <2>0, <2>3
    <3>2. i + 1 # j /\ i + 1 # j - 1 /\ i + 1 \in Nat
      BY <1>7, <2>0, <2>3
    <3>3. /\ At(s, h, i + 1) # e /\ At(s, h, i + 1) # p /\ At(s, h, i + 1) \in LiveIn(ow)
          /\ nx[At(s, h, i + 1)] = At(s, h, (i + 1) + 1)
      BY <1>3, <1>7, <2>0, <3>2
    <3> QED BY <1>9, <3>1, <3>3
  <2> QED BY <1>7, <2>0, <2>1, <2>2, <2>3
<1>12. PICK sq1 : sq1 = ListDel(sq, e)
  OBVIOUS
<1>13. sq \in [Heads -> Seq(Nodes)]
  BY DEF Strung
<1>14. sq1 \in [Heads -> Seq(Nodes)] /\ \A g \in Heads : sq1[g] = IF g = h THEN t ELSE sq[g]
  <2>1. DOMAIN sq1 = Heads /\ \A g \in Heads : sq1[g] = Keep(sq[g], Range(sq[g]) \ {e})
    BY <1>12, <1>13 DEF ListDel
  <2>2. Keep(s, Range(s) \ {e}) = t
    <3>1. \A i \in DOMAIN s : s[i] \in Range(s) \ {e} <=> i # j
      BY <1>3, <1>4 DEF IsInjective, Range
    <3> QED BY <1>3, <1>4, <1>5, <3>1, KeepWithout
  <2>3. ASSUME NEW g \in Heads, g # h PROVE Keep(sq[g], Range(sq[g]) \ {e}) = sq[g]
    <3>1. e \notin Range(sq[g])
      BY <1>1, <2>3 DEF Strung
    <3>2. Range(sq[g]) \subseteq Range(sq[g]) \ {e}
      BY <3>1
    <3> QED BY <1>13, <3>2, KeepAllAndTail
  <2>4. \A g \in Heads : sq1[g] = IF g = h THEN t ELSE sq[g]
    BY <1>2, <2>1, <2>2, <2>3
  <2>5. sq1 = [g \in Heads |-> Keep(sq[g], Range(sq[g]) \ {e})]
    BY <1>12, <1>13 DEF ListDel
  <2> QED BY <1>6, <1>13, <2>4, <2>5
<1>15. ASSUME NEW g \in Heads PROVE IsInjective(sq1[g]) /\ Leads(nx1, g, sq1[g])
  <2>1. CASE g = h
    BY <1>6, <1>11, <1>14, <2>1
  <2>2. CASE g # h
    <3>1. \A c \in LiveIn(ow) : OwnerIn(ow, c) = g => nx1[c] = nx[c]
      BY <1>8, <1>9, <2>2
    <3>2. Leads(nx1, g, sq[g])
      BY <3>1, OtherList
    <3> QED BY <1>14, <2>2, <3>2 DEF Strung
  <2> QED BY <2>1, <2>2
<1>16. ASSUME NEW g \in Heads, NEW m \in Nodes PROVE m \in Range(sq1[g]) <=> ow1[m] = g
  <2>1. m \in Range(sq[g]) <=> ow[m] = g
    BY DEF Strung
  <2>2. CASE g = h
    BY <1>2, <1>6, <1>10, <1>14, <2>1, <2>2
  <2>3. CASE g # h
    BY <1>1, <1>10, <1>14, <2>1, <2>3
  <2> QED BY <2>2, <2>3
<1> QED BY <1>12, <1>14, <1>15, <1>16 DEF Strung, nx1, ow1

\* INIT_LIST_HEAD.
LEMMA InitStrung ==
    ASSUME NEW nx, NEW ow, NEW sq, Strung(nx, ow, sq), nx \in [Cells -> Cells \cup {NULL}],
           NEW h \in Heads
    PROVE  Strung([nx EXCEPT ![h] = h], [m \in Nodes |-> IF ow[m] = h THEN Lost ELSE ow[m]],
                  [sq EXCEPT ![h] = << >>])
<1> DEFINE nx1 == [nx EXCEPT ![h] = h]
           ow1 == [m \in Nodes |-> IF ow[m] = h THEN Lost ELSE ow[m]]
           sq1 == [sq EXCEPT ![h] = << >>]
<1>1. /\ sq1 \in [Heads -> Seq(Nodes)] /\ sq1[h] = << >>
      /\ \A g \in Heads : g # h => sq1[g] = sq[g]
  BY EmptySeq DEF Strung
<1>2. /\ nx1[h] = h /\ \A c \in Cells : c # h => nx1[c] = nx[c]
  BY DEF Cells
<1>3. \A m \in Nodes : ow1[m] = IF ow[m] = h THEN Lost ELSE ow[m]
  OBVIOUS
<1> HIDE DEF nx1, ow1, sq1
<1>4. Leads(nx1, h, << >>)
  <2>1. Len(<< >>) = 0 /\ \A i \in Int : At(<< >>, h, i) = h
    BY EmptySeq DEF At
  <2> QED BY <1>2, <2>1 DEF Leads
<1>5. ASSUME NEW g \in Heads PROVE IsInjective(sq1[g]) /\ Leads(nx1, g, sq1[g])
  <2>1. CASE g = h
    BY <1>1, <1>4, <2>1, RangeOfEmpty
  <2>2. CASE g # h
    <3>1. \A c \in LiveIn(ow) : OwnerIn(ow, c) = g => nx1[c] = nx[c]
      BY <1>2, <2>2 DEF LiveIn, OwnerIn
    <3>2. Leads(nx1, g, sq[g])
      BY <3>1, OtherList
    <3> QED BY <1>1, <2>2, <3>2 DEF Strung
  <2> QED BY <2>1, <2>2
<1>6. ASSUME NEW g \in Heads, NEW m \in Nodes PROVE m \in Range(sq1[g]) <=> ow1[m] = g
  <2>1. m \in Range(sq[g]) <=> ow[m] = g
    BY DEF Strung
  <2>2. Lost \notin Heads
    BY CellAssumption
  <2>3. CASE g = h
    BY <1>1, <1>3, <2>2, <2>3, RangeOfEmpty
  <2>4. CASE g # h
    BY <1>1, <1>3, <2>1, <2>2, <2>4
  <2> QED BY <2>3, <2>4
<1> QED BY <1>1, <1>5, <1>6 DEF Strung, nx1, ow1, sq1
-----------------------------------------------------------------------------
(* The lists of the kernel as sequences, and loops over them.               *)

Chains == [h \in Heads |-> Entries(h)]

\* The sequences that the pointers are strung along are the ones read off them.
LEMMA ReadOff ==
    ASSUME NEW sq
    PROVE  /\ Strung(next, on, sq) => Chains = sq
           /\ Strung(next', on', sq) => Chains' = sq
<1>1. ASSUME NEW nx, NEW ow, Strung(nx, ow, sq), NEW h \in Heads
      PROVE  EntriesIn(nx, h) = sq[h]
  BY <1>1, EntriesAre DEF Strung
<1>2. ASSUME NEW ow, NEW nx, Strung(nx, ow, sq)
      PROVE  sq = [h \in Heads |-> EntriesIn(nx, h)]
  <2>1. sq \in [Heads -> Seq(Nodes)]
    BY <1>2 DEF Strung
  <2>2. sq = [h \in Heads |-> sq[h]]
    BY <2>1
  <2> QED BY <1>1, <1>2, <2>2
<1>3. Chains = [h \in Heads |-> EntriesIn(next, h)]
  BY EntriesAreIn DEF Chains
<1>4. Chains' = [h \in Heads |-> EntriesIn(next', h)]
  BY EntriesAreIn DEF Chains
<1> QED BY <1>2, <1>3, <1>4

\* A loop has had the first entries of start, is at the next one, and the rest is
\* still linked as it was when the loop began.
Visiting ==
    head # NULL =>
        /\ start \in Seq(Nodes) /\ IsInjective(start)
        /\ seen \in Seq(Nodes) /\ Len(seen) <= Len(start)
        /\ \A k \in 1..Len(seen) : seen[k] = start[k]
        /\ pos = At(start, head, Len(seen) + 1)
        /\ \A i \in (Len(seen) + 1)..Len(start) :
             next[start[i]] = At(start, head, i + 1) /\ on[start[i]] = head

\* The inductive invariant, with the lists as sequences.
SeqInv == Inv /\ Strung(next, on, Chains) /\ Visiting

\* The lists as Lists has them after an operation, by which ListSeq allows it.
LEMMA AddSeq ==
    ASSUME NEW nx, NEW pv, NEW ow, NEW sq, Strung(nx, ow, sq), Sound(nx, pv, ow),
           NEW new \in Nodes, ow[new] = NULL, NEW h \in Heads
    PROVE  /\ Strung(add_next(nx, pv, new, h, nx[h]), [ow EXCEPT ![new] = h],
                     ListAdd(sq, new, h))
           /\ Strung(add_next(nx, pv, new, pv[h], h), [ow EXCEPT ![new] = h],
                     ListAddTail(sq, new, h))
<1>1. PICK s : s = sq[h]
  OBVIOUS
<1>2. /\ s \in Seq(Nodes) /\ Len(s) \in Nat
      /\ \A i \in 0..Len(s) : /\ nx[At(s, h, i)] = At(s, h, i + 1)
                              /\ pv[At(s, h, i + 1)] = At(s, h, i)
  BY <1>1, AtFacts
<1>3. Inserted(s, 0, new) = <<new>> \o s /\ Inserted(s, Len(s), new) = Append(s, new)
  BY <1>2, InsertedEnds
<1>4. 0 \in 0..Len(s) /\ Len(s) \in 0..Len(s) /\ At(s, h, 0) = h /\ At(s, h, Len(s) + 1) = h
  BY <1>2 DEF At
<1>5. At(s, h, 0 + 1) = nx[h] /\ At(s, h, Len(s)) = pv[h]
  BY <1>2, <1>4
<1>6. Strung(add_next(nx, pv, new, At(s, h, 0), At(s, h, 0 + 1)), [ow EXCEPT ![new] = h],
             [sq EXCEPT ![h] = Inserted(s, 0, new)])
  BY <1>1, <1>4, AddStrung
<1>7. Strung(add_next(nx, pv, new, At(s, h, Len(s)), At(s, h, Len(s) + 1)),
             [ow EXCEPT ![new] = h], [sq EXCEPT ![h] = Inserted(s, Len(s), new)])
  BY <1>1, <1>4, AddStrung
<1>8. /\ [sq EXCEPT ![h] = Inserted(s, 0, new)] = ListAdd(sq, new, h)
      /\ [sq EXCEPT ![h] = Inserted(s, Len(s), new)] = ListAddTail(sq, new, h)
  BY <1>1, <1>3 DEF ListAdd, ListAddTail
<1> QED BY <1>4, <1>5, <1>6, <1>7, <1>8

\* ListSeq has its lists from Lists.
LEMMA AbsOps ==
    ASSUME NEW q, NEW m, NEW h
    PROVE  /\ Abs!ListAdd(q, m, h) = ListAdd(q, m, h)
           /\ Abs!ListAddTail(q, m, h) = ListAddTail(q, m, h)
           /\ Abs!ListDel(q, m) = ListDel(q, m)
           /\ Abs!Range(q) = Range(q)
<1>1. \A p : Abs!Range(p) = Range(p)
  BY DEF Abs!Range, Range
<1>2. \A p, S : Abs!Keep(p, S) = Keep(p, S)
  BY DEF Abs!Keep, Keep, Abs!FlattenSeq, FlattenSeq
<1>3. Abs!ListDel(q, m) = ListDel(q, m)
  BY <1>1, <1>2 DEF Abs!ListDel, ListDel
<1> QED BY <1>1, <1>3 DEF Abs!ListAdd, ListAdd, Abs!ListAddTail, ListAddTail

\* What the operations do to the lists, ListSeq allows.
LEMMA AbsSteps ==
    ASSUME Strung(next, on, Chains), NEW m \in Nodes, NEW h \in Heads
    PROVE  /\ on[m] \notin Heads /\ Chains' = ListAdd(Chains, m, h) => Abs!Next
           /\ on[m] \notin Heads /\ Chains' = ListAddTail(Chains, m, h) => Abs!Next
           /\ on[m] \in Heads /\ Chains' = ListDel(Chains, m) => Abs!Next
           /\ on[m] \in Heads /\ on[m] # h
                /\ Chains' = ListAddTail(ListDel(Chains, m), m, h) => Abs!Next
           /\ Chains' = [Chains EXCEPT ![h] = << >>] => Abs!Next
<1>1. \A g \in Heads : m \in Range(Chains[g]) <=> on[m] = g
  BY DEF Strung
<1>2. m \in Abs!Linked <=> on[m] \in Heads
  BY <1>1, AbsOps DEF Abs!Linked, Chains
<1>3. m \notin Abs!Range(Chains[h]) <=> on[m] # h
  BY <1>1, AbsOps
<1>4. ASSUME on[m] \notin Heads, Chains' = ListAdd(Chains, m, h) PROVE Abs!Next
  <2>1. Chains' = Abs!ListAdd(Chains, m, h)
    BY <1>4, AbsOps
  <2>2. Abs!AddFirst(m, h)
    BY <1>2, <1>4, <2>1 DEF Abs!AddFirst, Chains
  <2> QED BY <2>2 DEF Abs!Next
<1>5. ASSUME on[m] \notin Heads, Chains' = ListAddTail(Chains, m, h) PROVE Abs!Next
  <2>1. Chains' = Abs!ListAddTail(Chains, m, h)
    BY <1>5, AbsOps
  <2>2. Abs!AddLast(m, h)
    BY <1>2, <1>5, <2>1 DEF Abs!AddLast, Chains
  <2> QED BY <2>2 DEF Abs!Next
<1>6. ASSUME on[m] \in Heads, Chains' = ListDel(Chains, m) PROVE Abs!Next
  <2>1. Chains' = Abs!ListDel(Chains, m)
    BY <1>6, AbsOps
  <2>2. Abs!Unlink(m)
    BY <1>2, <1>6, <2>1 DEF Abs!Unlink, Chains
  <2> QED BY <2>2 DEF Abs!Next
<1>7. ASSUME on[m] \in Heads, on[m] # h, Chains' = ListAddTail(ListDel(Chains, m), m, h)
      PROVE  Abs!Next
  <2>1. Chains' = Abs!ListAddTail(Abs!ListDel(Chains, m), m, h)
    BY <1>7, AbsOps
  <2>2. Abs!Requeue(m, h)
    BY <1>2, <1>3, <1>7, <2>1 DEF Abs!Requeue, Chains
  <2> QED BY <2>2 DEF Abs!Next
<1>8. ASSUME Chains' = [Chains EXCEPT ![h] = << >>] PROVE Abs!Next
  <2>1. Abs!Reset(h)
    BY <1>8 DEF Abs!Reset, Chains
  <2> QED BY <2>1 DEF Abs!Next
<1> QED BY <1>4, <1>5, <1>6, <1>7, <1>8

\* An iteration: the cursor takes the next of start, provided that the body left
\* what comes after it alone.
LEMMA VisitsNext ==
    ASSUME Visiting, head \in Heads, pos # head, n = next[pos],
           head' = head, start' = start, seen' = Append(seen, pos), pos' = n,
           \A c \in Nodes : on[c] = head /\ c # pos /\ next[c] # pos
                              => next'[c] = next[c] /\ on'[c] = on[c]
    PROVE  Visiting'
<1> DEFINE k == Len(seen) + 1
<1>1. /\ head # NULL /\ head \notin Nodes
      /\ start \in Seq(Nodes) /\ IsInjective(start) /\ seen \in Seq(Nodes)
      /\ Len(seen) \in Nat /\ Len(start) \in Nat /\ Len(seen) <= Len(start)
      /\ \A i \in 1..Len(seen) : seen[i] = start[i]
      /\ pos = At(start, head, k)
      /\ \A i \in k..Len(start) : next[start[i]] = At(start, head, i + 1) /\ on[start[i]] = head
  BY CellAssumption, LenProperties DEF Visiting
<1>2. \A i \in 1..Len(start) : start[i] \in Nodes
  BY <1>1, ElementOfSeq
<1>3. \A i, j \in 1..Len(start) : start[i] = start[j] => i = j
  BY <1>1, LenProperties DEF IsInjective
<1>4. k \in 1..Len(start) /\ pos = start[k] /\ pos \in Nodes
  BY <1>1, <1>2 DEF At
<1>5. n = At(start, head, k + 1)
  <2>1. k \in k..Len(start)
    BY <1>4
  <2>2. next[start[k]] = At(start, head, k + 1)
    BY <1>1, <2>1
  <2> QED BY <1>4, <2>2
<1>6. /\ seen' \in Seq(Nodes) /\ Len(seen') = k
      /\ \A i \in 1..Len(seen) : seen'[i] = seen[i]
      /\ seen'[k] = pos
  BY <1>1, <1>4, AppendProperties
<1>7. ASSUME NEW i \in (k + 1)..Len(start)
      PROVE  next'[start[i]] = At(start, head, i + 1) /\ on'[start[i]] = head
  <2>1. i \in 1..Len(start) /\ i \in k..Len(start) /\ i # k /\ i + 1 # k
    BY <1>1, <1>4
  <2>2. /\ next[start[i]] = At(start, head, i + 1) /\ on[start[i]] = head
        /\ start[i] \in Nodes /\ start[i] # pos
    BY <1>1, <1>2, <1>3, <1>4, <2>1
  <2>3. At(start, head, i + 1) # pos
    <3>1. CASE i + 1 \in 1..Len(start)
      BY <1>3, <1>4, <2>1, <3>1 DEF At
    <3>2. CASE i + 1 \notin 1..Len(start)
      BY <1>1, <1>4, <3>2 DEF At
    <3> QED BY <3>1, <3>2
  <2> QED BY <2>2, <2>3
<1>8. \A i \in 1..k : seen'[i] = start[i]
  <2> SUFFICES ASSUME NEW i \in 1..k PROVE seen'[i] = start[i]
    OBVIOUS
  <2>1. CASE i = k
    BY <1>4, <1>6, <2>1
  <2>2. CASE i # k
    <3>1. i \in 1..Len(seen)
      BY <1>1, <2>2
    <3> QED BY <1>1, <1>6, <3>1
  <2> QED BY <2>1, <2>2
<1>9. Len(seen') <= Len(start) /\ pos' = At(start, head, Len(seen') + 1)
  BY <1>4, <1>5, <1>6
<1>10. \A i \in (Len(seen') + 1)..Len(start) :
         next'[start[i]] = At(start, head, i + 1) /\ on'[start[i]] = head
  BY <1>6, <1>7
<1>11. \A i \in 1..Len(seen') : seen'[i] = start[i]
  BY <1>6, <1>8
<1> HIDE DEF k
<1> QED BY <1>1, <1>6, <1>9, <1>10, <1>11 DEF Visiting, At

\* Boot.
LEMMA SeqInit == Init => SeqInv /\ Abs!Init
<1> SUFFICES ASSUME Init PROVE SeqInv /\ Abs!Init
  OBVIOUS
<1>1. Inv /\ head = NULL
  BY InitInv DEF Init
<1> DEFINE sq == [h \in Heads |-> << >>]
<1>2. Strung(next, on, sq)
  <2>1. sq \in [Heads -> Seq(Nodes)]
    BY EmptySeq
  <2>2. ASSUME NEW h \in Heads
        PROVE  /\ IsInjective(sq[h]) /\ Leads(next, h, sq[h])
               /\ \A m \in Nodes : m \in Range(sq[h]) <=> on[m] = h
    <3>1. Len(<< >>) = 0 /\ \A i \in Int : At(<< >>, h, i) = h
      BY EmptySeq DEF At
    <3>2. next[h] = h /\ \A m \in Nodes : on[m] # h
      BY CellAssumption DEF Init, Cells
    <3>3. Leads(next, h, << >>)
      BY <3>1, <3>2 DEF Leads
    <3> QED BY <3>2, <3>3, RangeOfEmpty
  <2> QED BY <2>1, <2>2 DEF Strung
<1>3. Chains = sq
  BY <1>2, ReadOff
<1>4. Abs!Init
  BY <1>3 DEF Abs!Init, Chains
<1> QED BY <1>1, <1>2, <1>3, <1>4 DEF SeqInv, Visiting

\* Every operation and every loop keeps the invariant, and is a step of ListSeq
\* or none.
LEMMA SeqStep == SeqInv /\ [Next]_vars => SeqInv' /\ [Abs!Next]_Chains
<1> SUFFICES ASSUME SeqInv, [Next]_vars PROVE SeqInv' /\ [Abs!Next]_Chains
  OBVIOUS
<1>1. /\ Inv' /\ Strung(next, on, Chains) /\ Sound(next, prev, on) /\ Visiting
      /\ next \in [Cells -> Cells \cup {NULL}] /\ NULL \notin Heads
  BY NextInv, CellAssumption DEF SeqInv, Inv, Sound, Typed
<1>2. ASSUME NEW sq, Strung(next', on', sq) PROVE Chains' = sq /\ Strung(next', on', Chains')
  BY <1>2, ReadOff
<1>3. ASSUME NoLoop, UNCHANGED loopVars PROVE Visiting'
  BY <1>3 DEF Visiting, NoLoop, loopVars
<1>4. ASSUME UNCHANGED <<next, on>> PROVE Chains' = Chains /\ Strung(next', on', Chains')
  BY <1>1, <1>2, <1>4
<1>5. ASSUME NEW h \in Heads, INIT_LIST_HEAD(h) PROVE SeqInv' /\ [Abs!Next]_Chains
  <2>1. /\ NoLoop /\ UNCHANGED loopVars /\ next' = [next EXCEPT ![h] = h]
        /\ on' = [m \in Nodes |-> IF on[m] = h THEN Lost ELSE on[m]]
    BY <1>5 DEF INIT_LIST_HEAD
  <2>2. Strung(next', on', [Chains EXCEPT ![h] = << >>])
    BY <1>1, <2>1, InitStrung
  <2>3. Chains' = [Chains EXCEPT ![h] = << >>] /\ Strung(next', on', Chains')
    BY <1>2, <2>2
  <2>4. Abs!Next
    <3>1. Abs!Reset(h)
      BY <2>3 DEF Abs!Reset, Chains
    <3> QED BY <3>1 DEF Abs!Next
  <2> QED BY <1>1, <1>3, <2>1, <2>3, <2>4 DEF SeqInv
<1>6. ASSUME NEW m \in Nodes, NEW h \in Heads, list_add(m, h)
      PROVE  SeqInv' /\ [Abs!Next]_Chains
  <2>1. /\ NoLoop /\ UNCHANGED loopVars /\ on[m] = NULL
        /\ next' = add_next(next, prev, m, h, next[h]) /\ on' = [on EXCEPT ![m] = h]
    BY <1>6 DEF list_add
  <2>2. Strung(next', on', ListAdd(Chains, m, h))
    BY <1>1, <2>1, AddSeq
  <2>3. Chains' = ListAdd(Chains, m, h) /\ Strung(next', on', Chains')
    BY <1>2, <2>2
  <2> QED BY <1>1, <1>3, <2>1, <2>3, AbsSteps DEF SeqInv
<1>7. ASSUME NEW m \in Nodes, NEW h \in Heads, list_add_tail(m, h)
      PROVE  SeqInv' /\ [Abs!Next]_Chains
  <2>1. /\ NoLoop /\ UNCHANGED loopVars /\ on[m] = NULL
        /\ next' = add_next(next, prev, m, prev[h], h) /\ on' = [on EXCEPT ![m] = h]
    BY <1>7 DEF list_add_tail
  <2>2. Strung(next', on', ListAddTail(Chains, m, h))
    BY <1>1, <2>1, AddSeq
  <2>3. Chains' = ListAddTail(Chains, m, h) /\ Strung(next', on', Chains')
    BY <1>2, <2>2
  <2> QED BY <1>1, <1>3, <2>1, <2>3, AbsSteps DEF SeqInv
<1>8. ASSUME NEW m \in Nodes, list_del(m) PROVE SeqInv' /\ [Abs!Next]_Chains
  <2>1. /\ NoLoop /\ UNCHANGED loopVars /\ on[m] \in Heads
        /\ next' = del_next(next, prev, m) /\ on' = [on EXCEPT ![m] = NULL]
    BY <1>8 DEF list_del
  <2>2. Strung(next', on', ListDel(Chains, m))
    BY <1>1, <2>1, DelStrung
  <2>3. Chains' = ListDel(Chains, m) /\ Strung(next', on', Chains')
    BY <1>2, <2>2
  <2> QED BY <1>1, <1>3, <2>1, <2>3, AbsSteps DEF SeqInv
<1>9. ASSUME NEW h \in Heads, list_for_each_safe(h) PROVE SeqInv' /\ [Abs!Next]_Chains
  <2>1. /\ head' = h /\ pos' = next[h] /\ seen' = << >> /\ start' = Entries(h)
        /\ UNCHANGED <<next, on>>
    BY <1>9 DEF list_for_each_safe, list_first
  <2>2. PICK s : s = Chains[h]
    OBVIOUS
  <2>3. /\ start' = s /\ s \in Seq(Nodes) /\ Len(s) \in Nat /\ IsInjective(s)
        /\ \A i \in 1..Len(s) : on[s[i]] = h
        /\ \A i \in 0..Len(s) : next[At(s, h, i)] = At(s, h, i + 1)
    <3>1. start' = s
      BY <2>1, <2>2 DEF Chains
    <3> QED BY <1>1, <2>2, <3>1, AtFacts
  <2>4. << >> \in Seq(Nodes) /\ Len(<< >>) = 0
    BY EmptySeq
  <2>5. pos' = At(s, h, 0 + 1)
    BY <2>1, <2>3 DEF At
  <2>6. ASSUME NEW i \in 1..Len(s)
        PROVE  next'[s[i]] = At(s, h, i + 1) /\ on'[s[i]] = h
    BY <2>1, <2>3, <2>6 DEF At
  <2>7. Visiting'
    BY <2>1, <2>3, <2>4, <2>5, <2>6 DEF Visiting, At
  <2> QED BY <1>1, <1>4, <2>1, <2>7 DEF SeqInv
<1>10. ASSUME head # NULL PROVE head \in Heads /\ pos \in Live /\ Owner(pos) = head /\ n = next[pos]
  BY <1>10, CursorFacts DEF SeqInv
<1>11. ASSUME body_keeps PROVE SeqInv' /\ [Abs!Next]_Chains
  <2>1. /\ head # NULL /\ pos # head /\ head' = head /\ start' = start
        /\ seen' = Append(seen, pos) /\ pos' = n /\ UNCHANGED <<next, on>>
    BY <1>11 DEF body_keeps, ahead
  <2>2. Visiting'
    BY <1>1, <1>10, <2>1, VisitsNext
  <2> QED BY <1>1, <1>4, <2>1, <2>2 DEF SeqInv
<1>12. ASSUME NEW h \in Heads, body_moves(h) PROVE SeqInv' /\ [Abs!Next]_Chains
  <2> DEFINE nx == del_next(next, prev, pos)
             pv == del_prev(next, prev, pos)
             ow == [on EXCEPT ![pos] = NULL]
             sq == ListDel(Chains, pos)
  <2>1. /\ head # NULL /\ pos # head /\ h # head /\ head' = head /\ start' = start
        /\ seen' = Append(seen, pos) /\ pos' = n
        /\ next' = add_next(nx, pv, pos, pv[h], h) /\ on' = [on EXCEPT ![pos] = h]
    BY <1>12 DEF body_moves, ahead
  <2>2. pos \in Nodes /\ on[pos] = head /\ head \in Heads
    BY <1>10, <2>1 DEF Owner, Live, Cells
  <2>3. Sound(nx, pv, ow) /\ Strung(nx, ow, sq)
    BY <1>1, <2>2, DelSound, DelStrung
  <2>4. on \in [Nodes -> Heads \cup {NULL, Lost}] /\ ow[pos] = NULL /\ on' = [ow EXCEPT ![pos] = h]
    BY <1>1, <2>1, <2>2 DEF Sound, Typed
  <2>5. \A m \in Nodes : m # pos => ow[m] = on[m] /\ on'[m] = on[m]
    BY <2>1, <2>4
  <2>6. \A m \in Nodes : on[m] = head /\ m # pos /\ next[m] # pos => nx[m] = next[m]
    <3>1. next[prev[pos]] = pos /\ prev[pos] \in Cells
      BY <1>1, <2>2 DEF Sound, Ring, LiveIn, OwnerIn, Cells
    <3> QED BY <1>1, <2>2, <3>1 DEF del_next, Cells
  <2> HIDE DEF nx, pv, ow, sq
  <2>7. Strung(next', on', ListAddTail(sq, pos, h))
    <3>1. Strung(add_next(nx, pv, pos, pv[h], h), [ow EXCEPT ![pos] = h],
                 ListAddTail(sq, pos, h))
      BY <2>2, <2>3, <2>4, AddSeq
    <3>2. /\ next' = add_next(nx, pv, pos, pv[h], h)
          /\ on' = [ow EXCEPT ![pos] = h]
      BY <2>1, <2>4
    <3> QED BY ONLY <3>1, <3>2, Zenon
  <2>8. Chains' = ListAddTail(sq, pos, h) /\ Strung(next', on', Chains')
    BY <1>2, <2>7
  <2>9. Abs!Next
    BY <1>1, <2>1, <2>2, <2>8, AbsSteps DEF sq
  <2>10. ASSUME NEW c \in Nodes, on[c] = head, c # pos, next[c] # pos
         PROVE  next'[c] = next[c] /\ on'[c] = on[c]
    <3>1. pv[h] \in LiveIn(ow) /\ OwnerIn(ow, pv[h]) = h
      BY <2>3 DEF Sound, Ring, LiveIn, OwnerIn, Cells
    <3>2. OwnerIn(ow, c) = head
      BY <2>5, <2>10, CellAssumption DEF OwnerIn
    <3>3. c # pv[h] /\ pv[h] \in Cells
      BY <2>1, <3>1, <3>2 DEF LiveIn
    <3>4. nx \in [Cells -> Cells \cup {NULL}]
      BY <2>3 DEF Sound, Typed
    <3>5. next'[c] = nx[c]
      BY <2>1, <2>2, <2>10, <3>3, <3>4 DEF add_next, Cells
    <3> QED BY <2>5, <2>6, <2>10, <3>5
  <2>11. Visiting'
    BY <1>1, <1>10, <2>1, <2>10, VisitsNext
  <2> QED BY <1>1, <2>8, <2>9, <2>11 DEF SeqInv
<1>13. ASSUME loop_ends PROVE SeqInv' /\ [Abs!Next]_Chains
  <2>1. head' = NULL /\ UNCHANGED <<next, on>>
    BY <1>13 DEF loop_ends
  <2> QED BY <1>1, <1>4, <2>1 DEF SeqInv, Visiting
<1>14. ASSUME UNCHANGED vars PROVE SeqInv' /\ [Abs!Next]_Chains
  <2>1. UNCHANGED <<next, on>> /\ UNCHANGED <<head, pos, n, seen, start>>
    BY <1>14 DEF vars
  <2>2. Visiting'
    BY <1>1, <2>1 DEF Visiting, At
  <2> QED BY <1>1, <1>4, <2>1, <2>2 DEF SeqInv
<1> QED BY <1>5, <1>6, <1>7, <1>8, <1>9, <1>11, <1>12, <1>13, <1>14 DEF Next

\* list_for_each_safe has every entry that was on the list when it began, once
\* and in order, however many of them its body queues elsewhere.
THEOREM LoopsVisitAll == Spec => []VisitsAll
<1>1. SeqInv => VisitsAll
  <2> SUFFICES ASSUME Visiting, head # NULL, head \in Heads
               PROVE  /\ Len(seen) <= Len(start)
                      /\ \A k \in 1..Len(seen) : seen[k] = start[k]
                      /\ pos = head => seen = start
    BY CursorFacts DEF SeqInv, VisitsAll
  <2>1. /\ start \in Seq(Nodes) /\ seen \in Seq(Nodes) /\ Len(seen) <= Len(start)
        /\ \A k \in 1..Len(seen) : seen[k] = start[k]
        /\ pos = At(start, head, Len(seen) + 1)
    BY DEF Visiting
  <2>2. /\ Len(seen) \in Nat /\ Len(start) \in Nat /\ head \notin Nodes
        /\ \A k \in 1..Len(start) : start[k] \in Nodes
    BY <2>1, LenProperties, ElementOfSeq, CellAssumption
  <2>3. ASSUME pos = head PROVE seen = start
    <3>1. Len(seen) + 1 \notin 1..Len(start)
      BY <2>1, <2>2, <2>3 DEF At
    <3>2. Len(seen) = Len(start)
      BY <2>1, <2>2, <3>1
    <3> QED BY <2>1, <3>2, SeqEqual
  <2> QED BY <2>1, <2>3
<1> QED BY <1>1, SeqInit, SeqStep, PTL DEF Spec

\* The pointers implement sequences: what Sched and Tasks assume of list.c is
\* what its operations do.
THEOREM PointersAreSequences == Spec => SeqSpec
<1>1. SeqSpec <=> Abs!Init /\ [][Abs!Next]_Chains
  BY DEF SeqSpec, Abs!Spec, Chains
<1> QED BY <1>1, SeqInit, SeqStep, PTL DEF Spec
=============================================================================
