--------------------------- MODULE CirBuffProofs ---------------------------
(***************************************************************************)
(* The keyboard buffer is a bounded queue, for every size and every set of *)
(* keys.                                                                   *)
(***************************************************************************)
EXTENDS CirBuff, SequenceTheorems, TLAPS

\* An index taken modulo the size after at most one turn.
LEMMA Mod ==
    ASSUME NEW n \in Nat \ {0}, NEW h \in 0..(n - 1), NEW i \in 0..n
    PROVE  (h + i) % n = IF h + i < n THEN h + i ELSE h + i - n
<1> DEFINE x == h + i
<1>1. x \in 0..(2 * n - 1)
  OBVIOUS
<1> HIDE DEF x
<1>2. CASE x < n
  <2>1. x % n = x
    BY <1>1, <1>2
  <2> QED BY <1>2, <2>1 DEF x
<1>3. CASE x >= n
  <2>1. x % n = x - n
    BY <1>1, <1>3
  <2> QED BY <1>3, <2>1 DEF x
<1> QED BY <1>1, <1>2, <1>3

Turn(h, i) == IF h + i < MAX_BUFF THEN h + i ELSE h + i - MAX_BUFF

\* Where the indices point, without the modulus.
LEMMA SlotFacts ==
    ASSUME NEW h \in Slots, NEW i \in 0..MAX_BUFF
    PROVE  /\ (h + i) % MAX_BUFF = Turn(h, i)
           /\ Turn(h, i) \in Slots
           /\ After(h) = Turn(h, 1)
<1>1. h \in 0..(MAX_BUFF - 1) /\ 1 \in 0..MAX_BUFF
  BY MaxBuffAssumption DEF Slots
<1>2. (h + i) % MAX_BUFF = Turn(h, i) /\ (h + 1) % MAX_BUFF = Turn(h, 1)
  BY <1>1, Mod, MaxBuffAssumption DEF Turn
<1>3. Turn(h, i) \in Slots
  BY MaxBuffAssumption DEF Turn, Slots
<1> QED BY <1>2, <1>3 DEF After

IInv == TypeOK /\ Window

\* The invariant without the modulus; a full buffer is one whose tail has
\* caught its head up with keys in it.
LEMMA Facts ==
    ASSUME IInv
    PROVE  /\ MAX_BUFF \in Nat \ {0} /\ TypeOK
           /\ keyTail = Turn(keyHead, numKeys)
           /\ Caught <=> numKeys = MAX_BUFF
<1>1. TypeOK /\ keyTail = Turn(keyHead, numKeys)
  BY SlotFacts DEF IInv, TypeOK, Window, Slot
<1>2. Caught <=> numKeys = MAX_BUFF
  BY <1>1, MaxBuffAssumption DEF Caught, TypeOK, Turn, Slots
<1> QED BY <1>1, <1>2, MaxBuffAssumption

\* The buffer starts empty.
LEMMA InitInv == Init => IInv
<1> SUFFICES ASSUME Init PROVE IInv
  OBVIOUS
<1>1. TypeOK
  BY MaxBuffAssumption DEF Init, TypeOK, Slots
<1>2. 0 \in Slots /\ 0 \in 0..MAX_BUFF
  BY MaxBuffAssumption DEF Slots
<1>3. (0 + 0) % MAX_BUFF = Turn(0, 0)
  BY <1>2, SlotFacts
<1>4. Turn(0, 0) = 0
  BY MaxBuffAssumption DEF Turn
<1> QED BY <1>1, <1>3, <1>4 DEF IInv, Window, Slot, Init

\* Reading and writing keep tail, head and count in step.
LEMMA NextInv == IInv /\ [Next]_vars => IInv'
<1> SUFFICES ASSUME IInv, [Next]_vars PROVE IInv'
  OBVIOUS
<1>1. /\ MAX_BUFF \in Nat \ {0} /\ TypeOK
      /\ keyTail = Turn(keyHead, numKeys)
      /\ Caught <=> numKeys = MAX_BUFF
  BY Facts
<1>2. After(keyHead) = Turn(keyHead, 1) /\ After(keyTail) = Turn(keyTail, 1)
      /\ Turn(keyHead, 1) \in Slots /\ Turn(keyTail, 1) \in Slots
  BY <1>1, SlotFacts DEF TypeOK
<1> SUFFICES /\ TypeOK'
             /\ keyTail' = Turn(keyHead', numKeys')
  BY SlotFacts DEF IInv, TypeOK, Window, Slot
<1>3. CASE buff_head
  <2>1. TypeOK'
    BY <1>1, <1>2, <1>3 DEF buff_head, TypeOK
  <2>2. keyTail' = Turn(keyHead', numKeys')
    BY <1>1, <1>2, <1>3 DEF buff_head, TypeOK, Turn, Slots
  <2> QED BY <2>1, <2>2
<1>4. ASSUME NEW c \in Keys, buff_tail(c)
      PROVE  TypeOK' /\ keyTail' = Turn(keyHead', numKeys')
  <2>1. TypeOK'
    BY <1>1, <1>2, <1>4 DEF buff_tail, TypeOK
  <2>2. keyTail' = Turn(keyHead', numKeys')
    BY <1>1, <1>2, <1>4 DEF buff_tail, TypeOK, Turn, Slots
  <2> QED BY <2>1, <2>2
<1>5. CASE UNCHANGED vars
  BY <1>1, <1>5 DEF vars, TypeOK
<1> QED BY <1>3, <1>4, <1>5 DEF Next

\* For every size: the indices stay inside keyBuff.
THEOREM TypeCorrect == Spec => []TypeOK
<1>1. IInv => TypeOK
  BY DEF IInv
<1> QED BY <1>1, InitInv, NextInv, PTL DEF Spec

\* For every size: head, tail and count describe one window of the array.
THEOREM WindowCorrect == Spec => []Window
<1>1. IInv => Window
  BY DEF IInv
<1> QED BY <1>1, InitInv, NextInv, PTL DEF Spec
-----------------------------------------------------------------------------
(* Refinement.                                                              *)

\* The keys held by array b with head h and count n, as FifoSpec maps them.
FifoOf(b, h, n) == [i \in 1..n |-> b[(h + (i - 1)) % MAX_BUFF]]

\* They are a sequence of n keys.
LEMMA FifoFacts ==
    ASSUME NEW b \in [Slots -> Keys \cup {NUL}], NEW h \in Slots, NEW n \in 0..MAX_BUFF
    PROVE  /\ FifoOf(b, h, n) \in Seq(Keys \cup {NUL})
           /\ Len(FifoOf(b, h, n)) = n
           /\ DOMAIN FifoOf(b, h, n) = 1..n
           /\ \A i \in 1..n : FifoOf(b, h, n)[i] = b[Turn(h, i - 1)]
<1> DEFINE f == FifoOf(b, h, n)
<1>1. \A i \in 1..n : /\ (h + (i - 1)) % MAX_BUFF = Turn(h, i - 1)
                     /\ Turn(h, i - 1) \in Slots
  <2> SUFFICES ASSUME NEW i \in 1..n
               PROVE  /\ (h + (i - 1)) % MAX_BUFF = Turn(h, i - 1)
                      /\ Turn(h, i - 1) \in Slots
    OBVIOUS
  <2>1. i - 1 \in 0..MAX_BUFF
    BY MaxBuffAssumption
  <2> QED BY <2>1, SlotFacts
<1>2. n \in Nat
  BY MaxBuffAssumption
<1>3. f = [i \in 1..n |-> b[Turn(h, i - 1)]]
  BY <1>1 DEF FifoOf
<1>4. \A i \in 1..n : b[Turn(h, i - 1)] \in Keys \cup {NUL}
  BY <1>1
<1> HIDE DEF f
<1>5. f \in Seq(Keys \cup {NUL})
  BY <1>2, <1>3, <1>4, SeqDef
<1>6. Len(f) = n /\ DOMAIN f = 1..n
  BY <1>2, <1>3, <1>5, LenProperties
<1> QED BY <1>3, <1>5, <1>6 DEF f

\* The queue before and after a step.
LEMMA Queues ==
    ASSUME IInv, IInv'
    PROVE  LET f == FifoOf(keyBuff, keyHead, numKeys)
               g == FifoOf(keyBuff', keyHead', numKeys')
           IN  /\ f \in Seq(Keys \cup {NUL}) /\ Len(f) = numKeys
               /\ \A i \in 1..numKeys : f[i] = keyBuff[Turn(keyHead, i - 1)]
               /\ g \in Seq(Keys \cup {NUL}) /\ Len(g) = numKeys'
               /\ \A i \in 1..numKeys' : g[i] = keyBuff'[Turn(keyHead', i - 1)]
BY FifoFacts DEF IInv, TypeOK

\* Sequences of one length with the same elements are the same.
LEMMA SameSeq ==
    ASSUME NEW T, NEW f \in Seq(T), NEW g \in Seq(T), Len(f) = Len(g),
           \A i \in 1..Len(f) : f[i] = g[i]
    PROVE  f = g
BY LenProperties, SeqDef

\* The empty buffer is the empty queue.
LEMMA FifoInit == Init => Fifo!Init
<1> SUFFICES ASSUME Init PROVE Fifo!Init
  OBVIOUS
<1>1. IInv /\ numKeys = 0
  BY InitInv DEF Init
<1>2. FifoOf(keyBuff, keyHead, numKeys) = << >>
  BY <1>1, FifoFacts, EmptySeq DEF IInv, TypeOK
<1> QED BY <1>2 DEF Fifo!Init, FifoOf, Init, Slot

\* buff_head takes the oldest key, or answers NUL.
LEMMA FifoGet == ASSUME IInv, IInv', buff_head PROVE Fifo!Get
<1> DEFINE f == FifoOf(keyBuff, keyHead, numKeys)
           g == FifoOf(keyBuff', keyHead', numKeys')
           T == Keys \cup {NUL}
<1>1. /\ f \in Seq(T) /\ Len(f) = numKeys
      /\ \A i \in 1..numKeys : f[i] = keyBuff[Turn(keyHead, i - 1)]
      /\ g \in Seq(T) /\ Len(g) = numKeys'
      /\ \A i \in 1..numKeys' : g[i] = keyBuff'[Turn(keyHead', i - 1)]
  BY Queues
<1>2. /\ TypeOK /\ MAX_BUFF \in Nat \ {0}
      /\ After(keyHead) = Turn(keyHead, 1)
  BY Facts, SlotFacts DEF TypeOK
<1>3. CASE numKeys = 0
  <2>1. f = << >> /\ g = f
    BY <1>1, <1>3, EmptySeq DEF buff_head
  <2>2. answer' = NUL
    BY <1>3 DEF buff_head
  <2> QED BY <2>1, <2>2 DEF Fifo!Get, FifoOf, Slot
<1>4. CASE numKeys # 0
  <2>1. /\ answer' = keyBuff[keyHead] /\ keyHead' = Turn(keyHead, 1)
        /\ numKeys' = numKeys - 1 /\ keyBuff' = keyBuff /\ numKeys \in Nat
    BY <1>2, <1>4 DEF buff_head, TypeOK
  <2> HIDE DEF f, g, T
  <2>2. f # << >>
    BY <1>1, <1>4, EmptySeq
  <2>3. /\ Head(f) = f[1] /\ Tail(f) \in Seq(T) /\ Len(Tail(f)) = numKeys - 1
        /\ \A i \in 1..(numKeys - 1) : Tail(f)[i] = f[i + 1]
    BY <1>1, <2>1, <2>2, HeadTailProperties
  <2>4. Head(f) = answer'
    <3>1. f[1] = keyBuff[Turn(keyHead, 0)] /\ Turn(keyHead, 0) = keyHead
      BY <1>1, <1>2, <1>4, <2>1 DEF Turn, TypeOK, Slots
    <3> QED BY <2>1, <2>3, <3>1
  <2>5. \A i \in 1..(numKeys - 1) : g[i] = Tail(f)[i]
    <3> SUFFICES ASSUME NEW i \in 1..(numKeys - 1)
                 PROVE  g[i] = Tail(f)[i]
      OBVIOUS
    <3>1. Turn(Turn(keyHead, 1), i - 1) = Turn(keyHead, i)
      BY <1>2, <2>1 DEF Turn, TypeOK, Slots
    <3>2. i + 1 \in 1..numKeys /\ (i + 1) - 1 = i
      BY <2>1
    <3> QED BY <1>1, <2>1, <2>3, <3>1, <3>2
  <2>6. g = Tail(f)
    BY <1>1, <2>1, <2>3, <2>5, SameSeq
  <2> QED BY <2>2, <2>4, <2>6 DEF Fifo!Get, f, g, FifoOf, Slot
<1> QED BY <1>3, <1>4

\* buff_tail adds a key at the end, in the place of the oldest if it must.
LEMMA FifoPut == ASSUME IInv, IInv', NEW c \in Keys, buff_tail(c) PROVE Fifo!Put(c)
<1> DEFINE f == FifoOf(keyBuff, keyHead, numKeys)
           g == FifoOf(keyBuff', keyHead', numKeys')
           T == Keys \cup {NUL}
<1>1. /\ f \in Seq(T) /\ Len(f) = numKeys
      /\ \A i \in 1..numKeys : f[i] = keyBuff[Turn(keyHead, i - 1)]
      /\ g \in Seq(T) /\ Len(g) = numKeys'
      /\ \A i \in 1..numKeys' : g[i] = keyBuff'[Turn(keyHead', i - 1)]
  BY Queues
<1>2. /\ TypeOK /\ MAX_BUFF \in Nat \ {0} /\ c \in T
      /\ After(keyHead) = Turn(keyHead, 1)
      /\ keyTail = Turn(keyHead, numKeys)
      /\ Caught <=> numKeys = MAX_BUFF
      /\ keyBuff' = [keyBuff EXCEPT ![keyTail] = c]
      /\ answer' = answer
  BY Facts, SlotFacts DEF TypeOK, buff_tail
<1> HIDE DEF f, g, T
<1>3. CASE numKeys < MAX_BUFF
  <2>1. keyHead' = keyHead /\ numKeys' = numKeys + 1 /\ numKeys \in Nat
    BY <1>2, <1>3 DEF buff_tail, TypeOK
  <2>2. /\ Append(f, c) \in Seq(T) /\ Len(Append(f, c)) = numKeys + 1
        /\ \A i \in 1..numKeys : Append(f, c)[i] = f[i]
        /\ Append(f, c)[numKeys + 1] = c
    BY <1>1, <1>2, AppendProperties
  <2>3. \A i \in 1..(numKeys + 1) : g[i] = Append(f, c)[i]
    <3> SUFFICES ASSUME NEW i \in 1..(numKeys + 1)
                 PROVE  g[i] = Append(f, c)[i]
      OBVIOUS
    <3>1. CASE i = numKeys + 1
      <4>1. Turn(keyHead, i - 1) = keyTail /\ keyTail \in Slots
        BY <1>2, <2>1, <3>1 DEF TypeOK
      <4> QED BY <1>1, <1>2, <2>1, <2>2, <3>1, <4>1 DEF TypeOK
    <3>2. CASE i \in 1..numKeys
      <4>1. Turn(keyHead, i - 1) # keyTail /\ Turn(keyHead, i - 1) \in Slots
        BY <1>2, <1>3, <2>1, <3>2 DEF Turn, TypeOK, Slots
      <4> QED BY <1>1, <1>2, <2>1, <2>2, <3>2, <4>1 DEF TypeOK
    <3>3. i = numKeys + 1 \/ i \in 1..numKeys
      BY <2>1
    <3> QED BY <3>1, <3>2, <3>3
  <2>4. g = Append(f, c)
    BY <1>1, <2>1, <2>2, <2>3, SameSeq
  <2> QED BY <1>1, <1>2, <1>3, <2>4 DEF Fifo!Put, f, g, FifoOf, Slot
<1>4. CASE numKeys = MAX_BUFF
  <2>1. keyHead' = Turn(keyHead, 1) /\ numKeys' = numKeys /\ numKeys \in Nat
        /\ keyTail = keyHead /\ numKeys # 0
    BY <1>2, <1>4 DEF buff_tail, TypeOK, Turn, Slots
  <2>2. f # << >>
    BY <1>1, <2>1, EmptySeq
  <2>3. /\ Tail(f) \in Seq(T) /\ Len(Tail(f)) = numKeys - 1
        /\ \A i \in 1..(numKeys - 1) : Tail(f)[i] = f[i + 1]
    BY <1>1, <2>1, <2>2, HeadTailProperties
  <2> DEFINE a == Append(Tail(f), c)
  <2>4. /\ a \in Seq(T) /\ Len(a) = numKeys
        /\ \A i \in 1..(numKeys - 1) : a[i] = Tail(f)[i]
        /\ a[numKeys] = c
    BY <1>2, <2>1, <2>3, AppendProperties
  <2> HIDE DEF a
  <2>5. \A i \in 1..numKeys : g[i] = a[i]
    <3> SUFFICES ASSUME NEW i \in 1..numKeys
                 PROVE  g[i] = a[i]
      OBVIOUS
    <3>1. g[i] = keyBuff'[Turn(keyHead', i - 1)]
      BY <1>1, <2>1
    <3>2. Turn(Turn(keyHead, 1), i - 1) = IF i = numKeys THEN keyHead ELSE Turn(keyHead, i)
      BY <1>2, <1>4, <2>1 DEF Turn, TypeOK, Slots
    <3>3. CASE i = numKeys
      BY <1>2, <2>1, <2>4, <3>1, <3>2, <3>3 DEF TypeOK
    <3>4. CASE i # numKeys
      <4>1. i \in 1..(numKeys - 1) /\ i + 1 \in 1..numKeys /\ (i + 1) - 1 = i
        BY <2>1, <3>4
      <4>2. Turn(keyHead, i) # keyHead /\ Turn(keyHead, i) \in Slots
        BY <1>2, <1>4, <2>1, <4>1 DEF Turn, TypeOK, Slots
      <4>3. a[i] = keyBuff[Turn(keyHead, i)]
        BY <1>1, <2>3, <2>4, <4>1
      <4> QED BY <1>2, <2>1, <3>1, <3>2, <3>4, <4>2, <4>3 DEF TypeOK
    <3> QED BY <3>3, <3>4
  <2>6. g = a
    BY <1>1, <2>1, <2>4, <2>5, SameSeq
  <2>7. ~ (Len(f) < MAX_BUFF) /\ g = Append(Tail(f), c)
    BY <1>1, <1>2, <1>4, <2>6 DEF a
  <2> QED BY <1>2, <2>7 DEF Fifo!Put, f, g, FifoOf, Slot
<1>5. numKeys < MAX_BUFF \/ numKeys = MAX_BUFF
  BY <1>2 DEF TypeOK
<1> QED BY <1>3, <1>4, <1>5

\* Every step of the buffer is a step of the queue.
LEMMA FifoNext ==
    IInv /\ IInv' /\ [Next]_vars
        => [Fifo!Next]_<<[i \in 1..numKeys |-> keyBuff[Slot(i - 1)]], answer>>
<1> SUFFICES ASSUME IInv, IInv', [Next]_vars
             PROVE  [Fifo!Next]_<<[i \in 1..numKeys |-> keyBuff[Slot(i - 1)]], answer>>
  OBVIOUS
<1>1. CASE buff_head
  BY <1>1, FifoGet DEF Fifo!Next
<1>2. ASSUME NEW c \in Keys, buff_tail(c)
      PROVE  Fifo!Next
  BY <1>2, FifoPut DEF Fifo!Next
<1>3. CASE UNCHANGED vars
  BY <1>3 DEF vars, Slot
<1> QED BY <1>1, <1>2, <1>3 DEF Next

\* For every size and set of keys, the array with its wrapping indices is a
\* queue that makes room for a new key by dropping the oldest.
THEOREM BufferIsFifo == Spec => FifoSpec
<1> QED BY InitInv, NextInv, FifoInit, FifoNext, PTL DEF Spec, FifoSpec, Fifo!Spec
=============================================================================
