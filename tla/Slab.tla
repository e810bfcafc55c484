-------------------------------- MODULE Slab --------------------------------
(***************************************************************************)
(* The slab allocator of user programs (slabs.c): fixed chunks of a        *)
(* dynamic region, with an array of free and one of occupied chunks.  A    *)
(* chunk is its number; its address only serves to tell chunks apart.  One *)
(* thread uses a slab, and frees only chunks it has been given.            *)
(***************************************************************************)
EXTENDS Integers, FiniteSets, Sequences

CONSTANT Sizes      \* sizes user code passes to init_slab

ASSUME SizeAssumption == Sizes \subseteq Nat \ {0}

VARIABLES
    got,                \* regions that memRegGet granted to init_slab
    elem_amount,
    count, left,
    freeSpaces, occupiedSpaces,
    held,               \* chunks the program was given and has not freed
    orderly,            \* no chunk of the slab was freed before a newer one
    given,              \* while orderly, the chunks of held, oldest first
    state               \* "none", "slab", or "fault" once it ran off a region

arrays == <<count, left, freeSpaces, occupiedSpaces>>
program == <<held, orderly, given>>
vars == <<got, elem_amount, arrays, program, state>>

Regions == {"mem", "freeSpaces", "occupiedSpaces"}
Nothing == -1       \* what a fresh page holds
Array(N) == [0..(N - 1) -> (0..(N - 1)) \cup {Nothing}]

Init ==
    /\ got = {} /\ elem_amount = 0 /\ count = 0 /\ left = 0
    /\ freeSpaces = << >> /\ occupiedSpaces = << >>
    /\ held = {} /\ orderly = TRUE /\ given = << >>
    /\ state = "none"
-----------------------------------------------------------------------------
\* The division is this way round: a slab of elements that are smaller than
\* its memory has no chunk.
Amount(elem_size, mem_size) == elem_size \div mem_size

\* What memRegGet answers is not looked at: without the array of free chunks
\* the first write faults.
init_slab(elem_size, mem_size) ==
    LET N == Amount(elem_size, mem_size)
    IN  /\ state = "none"
        /\ \E S \in SUBSET Regions :
              got' = S /\ state' = IF "freeSpaces" \in S THEN "slab" ELSE "fault"
        /\ elem_amount' = N /\ left' = N /\ count' = 0
        /\ freeSpaces' = [i \in 0..(N - 1) |-> i]
        /\ occupiedSpaces' = [i \in 0..(N - 1) |-> Nothing]
        /\ UNCHANGED program

\* memRegDel of a region that was not granted changes nothing.  Chunks the
\* program still holds go with the region.
detroy_slab ==
    /\ state = "slab"
    /\ got' = {} /\ elem_amount' = 0 /\ count' = 0 /\ left' = 0
    /\ freeSpaces' = << >> /\ occupiedSpaces' = << >>
    /\ held' = {} /\ orderly' = TRUE /\ given' = << >>
    /\ state' = "none"

\* Faulty: the chunk is read before `left' is decremented.
FreeChunk_Early == IF left < elem_amount THEN freeSpaces[left] ELSE 0

\* The chunk an allocation hands out.
FreeChunk == freeSpaces[left - 1]

\* Faulty: count does not go up, so the next chunk takes the same place.
OneMore_Not(k) == k
OneMore(k) == k + 1

\* With no chunk left it answers 0 and changes nothing.
allocate_mem ==
    /\ state = "slab" /\ left # 0
    /\ IF "occupiedSpaces" \in got
       THEN /\ left' = left - 1
            /\ occupiedSpaces' = [occupiedSpaces EXCEPT ![count] = FreeChunk]
            /\ count' = OneMore(count)
            /\ held' = held \cup {FreeChunk}
            /\ given' = IF orderly THEN Append(given, FreeChunk) ELSE << >>
            /\ UNCHANGED <<freeSpaces, orderly, state>>
       ELSE state' = "fault" /\ UNCHANGED <<arrays, program>>
    /\ UNCHANGED <<got, elem_amount>>

\* The entries behind pos move up, all but the last of the k that remain.
Shifted(occ, pos, k) ==
    [i \in DOMAIN occ |-> IF i \in pos..(k - 2) THEN occ[i + 1] ELSE occ[i]]

deleteOccupiedSpace(pos) ==
    /\ freeSpaces' = [freeSpaces EXCEPT ![left] = occupiedSpaces[pos]]
    /\ left' = left + 1
    /\ count' = count - 1
    /\ occupiedSpaces' = Shifted(occupiedSpaces, pos, count - 1)

\* Faulty: the search stops before the newest entry.
Found_Short(addr) == {i \in 0..(count - 2) : occupiedSpaces[i] = addr}

\* The entries that the search for addr would stop at.
Found(addr) == {i \in 0..(count - 1) : occupiedSpaces[i] = addr}

\* What deallocate_mem answers: with no entry for addr, -1.
Answer(addr) == IF Found(addr) = {} THEN -1 ELSE 0

\* A call that answers -1 changes nothing, so it is no step.
deallocate_mem(addr) ==
    /\ state = "slab" /\ addr \in held
    /\ \E pos \in Found(addr) :
          /\ \A i \in Found(addr) : pos <= i
          /\ deleteOccupiedSpace(pos)
    /\ held' = held \ {addr}
    /\ orderly' = (orderly /\ addr = given[Len(given)])
    /\ given' = IF orderly' THEN SubSeq(given, 1, Len(given) - 1) ELSE << >>
    /\ UNCHANGED <<got, elem_amount, state>>

Next ==
    \/ \E elem_size, mem_size \in Sizes : init_slab(elem_size, mem_size)
    \/ detroy_slab \/ allocate_mem
    \/ \E addr \in held : deallocate_mem(addr)
    \/ state = "fault" /\ UNCHANGED vars

Spec == Init /\ [][Next]_vars
-----------------------------------------------------------------------------
\* Every variable keeps its type, and each index its array's bounds.
TypeOK ==
    /\ got \subseteq Regions /\ elem_amount \in Nat
    /\ count \in 0..elem_amount /\ left = elem_amount - count
    /\ freeSpaces \in Array(elem_amount) /\ occupiedSpaces \in Array(elem_amount)
    /\ held \subseteq 0..(elem_amount - 1)
    /\ orderly \in BOOLEAN /\ given \in Seq(0..(elem_amount - 1))
    /\ state \in {"none", "slab", "fault"}

\* A chunk is never given out while somebody has it: the free chunks are all
\* different, and none of them is held.  This survives the entries that
\* deleteOccupiedSpace loses.
NeverTwice ==
    \A i \in 0..(left - 1) :
        /\ freeSpaces[i] \in 0..(elem_amount - 1) /\ freeSpaces[i] \notin held
        /\ \A j \in 0..(left - 1) : freeSpaces[i] = freeSpaces[j] => i = j

\* What slabs.c:50 says of the answer, "Returns -1 if addr does not point to any
\* chunk of this slab": a chunk of the slab that is in use is not answered so.
RefusesNone == \A c \in held : Answer(c) = 0

\* The code keeps that to a program that frees its chunks in the opposite order
\* of their allocation: it can give all of them back, however often it goes up
\* and down.  It breaks it for one that ever frees a chunk before a newer one.
NewestFirstRefusesNone == orderly => RefusesNone

\* The count goes on counting a forgotten chunk that the program still holds:
\* the two never part, so what is forgotten is lost till the slab is destroyed.
CountExplained == state = "slab" => count = Cardinality(held)
=============================================================================
