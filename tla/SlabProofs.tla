----------------------------- MODULE SlabProofs -----------------------------
(***************************************************************************)
(* For slabs of every size: a chunk is never handed out twice, the count   *)
(* is that of the chunks held although entries get lost, and a program     *)
(* that frees its newest chunk first loses none.                           *)
(***************************************************************************)
EXTENDS Slab, FiniteSetTheorems, TLAPS

\* Nobody holds a chunk of a slab that is not there.
Unmade == state = "none" => held = {} /\ given = << >>

\* While no chunk was freed before a newer one, the entries are the chunks held,
\* each once, in the order they were given out.
Ordered ==
    orderly =>
        /\ Len(given) = count
        /\ \A i \in 1..count : given[i] = occupiedSpaces[i - 1] /\ given[i] \in held
        /\ \A c \in held : \E i \in 1..count : given[i] = c
        /\ \A i, j \in 1..count : given[i] = given[j] => i = j

Inv == TypeOK /\ NeverTwice /\ CountExplained /\ Unmade /\ Ordered

\* A slab has a natural number of chunks.
LEMMA AmountNat ==
    ASSUME NEW elem_size \in Sizes, NEW mem_size \in Sizes
    PROVE  Amount(elem_size, mem_size) \in Nat
  <1>1. elem_size \in Nat /\ mem_size \in Nat /\ mem_size > 0 BY SizeAssumption
  <1> QED BY <1>1 DEF Amount

\* Before the first init_slab.
LEMMA InitInv == Init => Inv
  <1> SUFFICES ASSUME Init PROVE Inv OBVIOUS
  <1>1. 0..(0 - 1) = {} OBVIOUS
  <1>2. << >> \in [0..(0 - 1) -> (0..(0 - 1)) \cup {Nothing}] BY <1>1
  <1>3. TypeOK BY <1>2 DEF Init, TypeOK, Array
  <1>4. Ordered BY DEF Init, Ordered
  <1> QED BY <1>3, <1>4 DEF Init, Inv, NeverTwice, CountExplained, Unmade

\* A slab starts with its chunks all free and all different.
LEMMA InitSlabInv ==
    ASSUME Inv, NEW elem_size \in Sizes, NEW mem_size \in Sizes,
           init_slab(elem_size, mem_size)
    PROVE  Inv'
  <1> DEFINE N == Amount(elem_size, mem_size)
  <1>1. N \in Nat BY AmountNat
  <1> HIDE DEF N
  <1>2. /\ elem_amount' = N /\ left' = N /\ count' = 0
        /\ held' = {} /\ given' = << >> /\ orderly' \in BOOLEAN
        /\ freeSpaces' = [i \in 0..(N - 1) |-> i]
        /\ occupiedSpaces' = [i \in 0..(N - 1) |-> Nothing]
        /\ got' \subseteq Regions /\ state' \in {"slab", "fault"}
    BY DEF init_slab, program, Inv, TypeOK, Unmade, N
  <1>3. TypeOK' BY <1>1, <1>2 DEF TypeOK, Array
  <1>4. NeverTwice' BY <1>1, <1>2 DEF NeverTwice
  <1>5. CountExplained' BY <1>2, FS_EmptySet DEF CountExplained
  <1>6. Ordered' BY <1>2 DEF Ordered
  <1> QED BY <1>2, <1>3, <1>4, <1>5, <1>6 DEF Inv, Unmade

\* The chunk handed out was nobody's.
LEMMA AllocateInv == ASSUME Inv, allocate_mem PROVE Inv'
  <1> USE DEF Inv
  <1>1. CASE "occupiedSpaces" \notin got
    BY <1>1 DEF allocate_mem, arrays, program, TypeOK, NeverTwice, CountExplained,
                Unmade, Ordered
  <1>2. CASE "occupiedSpaces" \in got
    <2> DEFINE c == freeSpaces[left - 1]
    <2>1. /\ state = "slab" /\ state' = "slab" /\ got' = got
          /\ elem_amount' = elem_amount /\ freeSpaces' = freeSpaces
          /\ left # 0 /\ left' = left - 1 /\ count' = count + 1
          /\ occupiedSpaces' = [occupiedSpaces EXCEPT ![count] = c]
          /\ held' = held \cup {c} /\ orderly' = orderly
          /\ given' = IF orderly THEN Append(given, c) ELSE << >>
      BY <1>2 DEF allocate_mem, FreeChunk, OneMore
    <2>2. /\ elem_amount \in Nat /\ count \in 0..(elem_amount - 1)
          /\ left = elem_amount - count /\ left - 1 \in 0..(left - 1)
      <3>1. elem_amount \in Nat /\ count \in 0..elem_amount /\ left = elem_amount - count
        BY DEF TypeOK
      <3> QED BY <2>1, <3>1
    <2>3. c \in 0..(elem_amount - 1) /\ c \notin held
      BY <2>2 DEF NeverTwice
    <2> HIDE DEF c
    <2>4. TypeOK'
      <3>1. given \in Seq(0..(elem_amount - 1)) /\ orderly \in BOOLEAN BY DEF TypeOK
      <3>2. given' \in Seq(0..(elem_amount - 1))
        <4>1. CASE orderly
          <5>1. given' = Append(given, c) BY <2>1, <4>1
          <5> QED BY <2>3, <3>1, <5>1
        <4>2. CASE ~orderly
          <5>1. given' = << >> BY <2>1, <4>2
          <5> QED BY <5>1
        <4> QED BY <4>1, <4>2
      <3> HIDE DEF Inv
      <3> QED BY <2>1, <2>2, <2>3, <3>1, <3>2 DEF TypeOK, Array, Inv
    <2>5. NeverTwice'
      <3>1. \A i \in 0..(left - 2) : freeSpaces[i] # c
        BY <2>2 DEF NeverTwice, c
      <3> QED BY <2>1, <2>2, <3>1 DEF NeverTwice
    <2>6. CountExplained'
      <3>1. IsFiniteSet(held)
        <4>1. held \subseteq 0..(elem_amount - 1) /\ elem_amount - 1 \in Int
          BY <2>2 DEF TypeOK
        <4>2. IsFiniteSet(0..(elem_amount - 1)) BY <2>2, FS_Interval
        <4> QED BY <4>1, <4>2, FS_Subset
      <3>2. Cardinality(held \cup {c}) = Cardinality(held) + 1
        BY <2>3, <3>1, FS_AddElement
      <3> QED BY <2>1, <3>2 DEF CountExplained
    <2>7. Ordered'
      <3> SUFFICES ASSUME orderly PROVE Ordered' BY <2>1 DEF Ordered
      <3>1. given \in Seq(0..(elem_amount - 1)) /\ Len(given) = count
        BY DEF TypeOK, Ordered
      <3>2. /\ given' = Append(given, c) /\ Len(given') = count + 1
            /\ given'[count + 1] = c
            /\ \A i \in 1..count : given'[i] = given[i]
        BY <2>1, <2>3, <3>1
      <3>3. /\ occupiedSpaces'[count] = c
            /\ \A i \in 1..count : occupiedSpaces'[i - 1] = occupiedSpaces[i - 1]
        BY <2>1, <2>2 DEF TypeOK, Array
      <3>4. \A i \in 1..count : given[i] # c BY <2>3 DEF Ordered
      <3>5. \A i \in 1..(count + 1) : i \in 1..count \/ i = count + 1 BY <2>2
      <3>6. \A i \in 1..(count + 1) : given'[i] = occupiedSpaces'[i - 1] /\ given'[i] \in held'
        BY <2>1, <2>2, <3>2, <3>3, <3>5 DEF Ordered
      <3>7. \A d \in held' : \E i \in 1..(count + 1) : given'[i] = d
        <4>1. \A i \in 1..count : i \in 1..(count + 1) BY <2>2
        <4>2. count + 1 \in 1..(count + 1) BY <2>2
        <4> QED BY <2>1, <3>2, <4>1, <4>2 DEF Ordered
      <3>8. \A i, j \in 1..(count + 1) : given'[i] = given'[j] => i = j
        BY <3>2, <3>4, <3>5 DEF Ordered
      <3> QED BY <2>1, <3>2, <3>6, <3>7, <3>8 DEF Ordered
    <2> QED BY <2>1, <2>4, <2>5, <2>6, <2>7 DEF Unmade
  <1> QED BY <1>1, <1>2

\* The chunk that comes back was held, so it differs from all the free ones.
LEMMA DeallocateInv ==
    ASSUME Inv, NEW addr \in held, deallocate_mem(addr) PROVE Inv'
  <1> USE DEF Inv
  <1>1. PICK pos \in Found(addr) : deleteOccupiedSpace(pos)
    BY DEF deallocate_mem
  <1>2. /\ state = "slab" /\ state' = "slab" /\ got' = got
        /\ elem_amount' = elem_amount /\ held' = held \ {addr}
    BY DEF deallocate_mem
  <1>3. /\ elem_amount \in Nat /\ count \in 1..elem_amount
        /\ left = elem_amount - count /\ left \in 0..(elem_amount - 1)
        /\ occupiedSpaces[pos] = addr /\ addr \in 0..(elem_amount - 1)
    BY DEF Found, TypeOK
  <1>4. /\ freeSpaces' = [freeSpaces EXCEPT ![left] = addr]
        /\ left' = left + 1 /\ count' = count - 1
        /\ occupiedSpaces' = Shifted(occupiedSpaces, pos, count - 1)
    BY <1>1, <1>3 DEF deleteOccupiedSpace
  <1>5. freeSpaces \in Array(elem_amount) /\ occupiedSpaces \in Array(elem_amount)
    BY DEF TypeOK
  <1>6. occupiedSpaces' \in Array(elem_amount)
    BY <1>3, <1>4, <1>5 DEF Shifted, Array, Found
  <1>7. freeSpaces' \in Array(elem_amount)
    BY <1>3, <1>4, <1>5 DEF Array
  <1>11. /\ orderly' = (orderly /\ addr = given[Len(given)])
         /\ given' = IF orderly' THEN SubSeq(given, 1, Len(given) - 1) ELSE << >>
    BY DEF deallocate_mem
  <1>12. ASSUME orderly'
         PROVE  /\ orderly /\ addr = given[count] /\ Len(given) = count
                /\ given \in Seq(0..(elem_amount - 1))
                /\ given' \in Seq(0..(elem_amount - 1)) /\ Len(given') = count - 1
                /\ \A i \in 1..(count - 1) : given'[i] = given[i]
    <2>1. /\ orderly /\ addr = given[count] /\ Len(given) = count
          /\ given \in Seq(0..(elem_amount - 1)) /\ given' = SubSeq(given, 1, count - 1)
      BY <1>11, <1>12 DEF Ordered, TypeOK
    <2> QED BY <1>3, <2>1
  <1>8. TypeOK'
    <2>1. given' \in Seq(0..(elem_amount - 1))
      <3>1. CASE orderly'
        BY <1>12, <3>1
      <3>2. CASE ~orderly'
        <4>1. given' = << >> BY <1>11, <3>2
        <4> QED BY <4>1
      <3> QED BY <3>1, <3>2
    <2> QED BY <1>2, <1>3, <1>4, <1>6, <1>7, <1>11, <2>1 DEF TypeOK
  <1>9. NeverTwice'
    <2>1. \A i \in 0..(left - 1) : freeSpaces'[i] = freeSpaces[i] /\ freeSpaces[i] # addr
      BY <1>3, <1>4, <1>5 DEF Array, NeverTwice
    <2>2. freeSpaces'[left] = addr BY <1>3, <1>4, <1>5 DEF Array
    <2>3. 0..(left' - 1) = 0..(left - 1) \cup {left} BY <1>3, <1>4
    <2> QED BY <1>2, <1>3, <2>1, <2>2, <2>3 DEF NeverTwice
  <1>10. CountExplained'
    <2>1. IsFiniteSet(held)
      <3>1. held \subseteq 0..(elem_amount - 1) /\ elem_amount - 1 \in Int
        BY <1>3 DEF TypeOK
      <3>2. IsFiniteSet(0..(elem_amount - 1)) BY <1>3, FS_Interval
      <3> QED BY <3>1, <3>2, FS_Subset
    <2>2. Cardinality(held \ {addr}) = Cardinality(held) - 1
      BY <2>1, FS_RemoveElement
    <2> QED BY <1>2, <1>4, <2>2 DEF CountExplained
  <1>13. Ordered'
    <2> SUFFICES ASSUME orderly' PROVE Ordered' BY DEF Ordered
    <2>1. /\ orderly /\ addr = given[count] /\ Len(given') = count'
          /\ \A i \in 1..(count - 1) : given'[i] = given[i]
      BY <1>4, <1>12
    <2>2. pos = count - 1
      <3>1. pos + 1 \in 1..count /\ count \in 1..count /\ (pos + 1) - 1 = pos
        BY <1>3 DEF Found
      <3>2. given[pos + 1] = addr BY <1>3, <2>1, <3>1 DEF Ordered
      <3> QED BY <1>3, <2>1, <3>1, <3>2 DEF Ordered
    <2>3. \A i \in 0..(count - 2) : occupiedSpaces'[i] = occupiedSpaces[i]
      BY <1>3, <1>4, <1>5, <2>2 DEF Shifted, Array
    <2>4. \A i \in 1..(count - 1) : i \in 1..count /\ i # count /\ i - 1 \in 0..(count - 2)
      BY <1>3
    <2>5. \A i \in 1..(count - 1) : given'[i] = occupiedSpaces'[i - 1] /\ given'[i] \in held'
      <3> SUFFICES ASSUME NEW i \in 1..(count - 1)
                   PROVE  given'[i] = occupiedSpaces'[i - 1] /\ given'[i] \in held'
        OBVIOUS
      <3>1. i \in 1..count /\ i # count /\ i - 1 \in 0..(count - 2) /\ count \in 1..count
        BY <1>3, <2>4
      <3>2. given'[i] = given[i] BY <2>1
      <3>3. given[i] = occupiedSpaces[i - 1] /\ given[i] \in held /\ given[i] # addr
        BY <2>1, <3>1 DEF Ordered
      <3>4. occupiedSpaces'[i - 1] = occupiedSpaces[i - 1] BY <2>3, <3>1
      <3> QED BY <1>2, <3>2, <3>3, <3>4
    <2>6. \A d \in held' : \E i \in 1..(count - 1) : given'[i] = d
      <3>1. \A i \in 1..count : i \in 1..(count - 1) \/ i = count BY <1>3
      <3> QED BY <1>2, <2>1, <3>1 DEF Ordered
    <2>7. \A i, j \in 1..(count - 1) : given'[i] = given'[j] => i = j
      BY <2>1, <2>4 DEF Ordered
    <2> QED BY <1>4, <2>1, <2>5, <2>6, <2>7 DEF Ordered
  <1> QED BY <1>2, <1>8, <1>9, <1>10, <1>13 DEF Unmade

\* Every call keeps the invariant.
LEMMA NextInv == Inv /\ [Next]_vars => Inv'
  <1> SUFFICES ASSUME Inv, [Next]_vars PROVE Inv' OBVIOUS
  <1>1. CASE detroy_slab
    <2>1. 0..(0 - 1) = {} OBVIOUS
    <2>2. << >> \in [0..(0 - 1) -> (0..(0 - 1)) \cup {Nothing}] BY <2>1
    <2>3. TypeOK' BY <1>1, <2>2 DEF detroy_slab, TypeOK, Array
    <2>4. Ordered' BY <1>1 DEF detroy_slab, Ordered
    <2> QED BY <1>1, <2>3, <2>4 DEF detroy_slab, Inv, NeverTwice, CountExplained, Unmade
  <1>2. CASE UNCHANGED vars
    BY <1>2 DEF vars, program, arrays, Inv, TypeOK, NeverTwice, CountExplained,
                Unmade, Ordered
  <1> QED
    BY <1>1, <1>2, InitSlabInv, AllocateInv, DeallocateInv DEF Next

\* A chunk is never given out while somebody has it, for slabs of every size.
THEOREM AlwaysNeverTwice == Spec => []NeverTwice
  <1>1. Inv => NeverTwice BY DEF Inv
  <1> QED BY InitInv, NextInv, <1>1, PTL DEF Spec

\* The count stays that of the chunks the program holds.
THEOREM AlwaysCountExplained == Spec => []CountExplained
  <1>1. Inv => CountExplained BY DEF Inv
  <1> QED BY InitInv, NextInv, <1>1, PTL DEF Spec

\* Every index stays within its array.
THEOREM AlwaysTypeOK == Spec => []TypeOK
  <1>1. Inv => TypeOK BY DEF Inv
  <1> QED BY InitInv, NextInv, <1>1, PTL DEF Spec

\* A program that frees its newest chunk first is never refused one it holds.
THEOREM NewestFirstFindsAll == Spec => []NewestFirstRefusesNone
  <1>1. Inv => NewestFirstRefusesNone
    <2> SUFFICES ASSUME Inv, orderly, NEW c \in held PROVE Answer(c) = 0
      BY DEF NewestFirstRefusesNone, RefusesNone
    <2>1. PICK i \in 1..count : given[i] = c
      BY DEF Inv, Ordered
    <2>2. i - 1 \in 0..(count - 1) /\ occupiedSpaces[i - 1] = c
      BY <2>1 DEF Inv, Ordered, TypeOK
    <2> QED BY <2>2 DEF Answer, Found
  <1> QED BY InitInv, NextInv, <1>1, PTL DEF Spec
=============================================================================
