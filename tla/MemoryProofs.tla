---------------------------- MODULE MemoryProofs ----------------------------
(***************************************************************************)
(* Proofs about module Memory, for every number of tasks, pages, frames    *)
(* and mem_chunks.  The page tables are one flat array, so the first part  *)
(* is arithmetic: which entry belongs to which directory and page.         *)
(***************************************************************************)
EXTENDS Memory, FunctionTheorems, FiniteSetTheorems,
        WellFoundedInduction, TLAPS
-----------------------------------------------------------------------------
(* Sizes.                                                                   *)

\* What the assumptions say of the sizes: pages, frames and their bounds.
LEMMA Sizes ==
    /\ NR_TASKS \in Nat /\ NR_TASKS > 2
    /\ TOTAL_PAGES \in Nat /\ NUM_PAG_KERNEL \in Nat \ {0} /\ NUM_PAG_CODE \in Nat \ {0}
    /\ NUM_PAG_DATA \in Nat \ {0} /\ MAX_DIN \in Nat /\ MaxPages \in Nat \ {0}
    /\ FirstData = NUM_PAG_KERNEL + NUM_PAG_CODE /\ FirstData \in Nat
    /\ FirstFree = FirstData + NUM_PAG_DATA /\ FirstFree \in Nat
    /\ FirstFree < TOTAL_PAGES /\ 0 < FirstData /\ NUM_PAG_KERNEL < FirstData
<1>1. NR_TASKS \in Nat /\ NR_TASKS > 2
  BY MemAssumption, FS_CardinalityType DEF NR_TASKS
<1>2. /\ TOTAL_PAGES \in Nat \ {0} /\ NUM_PAG_KERNEL \in Nat \ {0} /\ NUM_PAG_CODE \in Nat \ {0}
      /\ NUM_PAG_DATA \in Nat \ {0} /\ MAX_DIN \in Nat \ {0} /\ MaxPages \in Nat \ {0}
      /\ NUM_PAG_KERNEL + 2 * (NUM_PAG_CODE + NUM_PAG_DATA) <= TOTAL_PAGES
  BY MemAssumption
<1> QED BY <1>1, <1>2 DEF FirstData, FirstFree

\* Each entry belongs to one page of one directory.
LEMMA EntryFacts ==
    ASSUME NEW d \in Dirs, NEW pag \in Pages
    PROVE  /\ Entry(d, pag) \in Entries /\ Entry(d, pag) % TOTAL_PAGES = pag
           /\ \A d2 \in Dirs, pag2 \in Pages :
                Entry(d, pag) = Entry(d2, pag2) => d = d2 /\ pag = pag2
<1> DEFINE N == TOTAL_PAGES
<1>1. N \in Nat /\ pag \in 0..(N - 1) /\ d \in Nat /\ d <= NR_TASKS - 1 /\ NR_TASKS \in Nat
  BY Sizes DEF Dirs, Pages
<1>2. d * N + pag \in Nat /\ (d * N + pag) % N = pag
  BY <1>1
<1>3. d * N + pag <= NR_TASKS * N - 1
  <2>1. PICK k \in Nat : NR_TASKS = d + 1 + k
    <3>1. NR_TASKS - d - 1 \in Nat /\ NR_TASKS = d + 1 + (NR_TASKS - d - 1)
      BY <1>1
    <3> QED BY <3>1
  <2>2. NR_TASKS * N = d * N + N + k * N /\ k * N \in Nat /\ d * N \in Nat
    BY <1>1, <2>1
  <2> QED BY <1>1, <2>2
<1>4. ASSUME NEW d2 \in Dirs, NEW pag2 \in Pages, d * N + pag = d2 * N + pag2
      PROVE  d = d2 /\ pag = pag2
  <2>1. d2 \in Nat /\ pag2 \in 0..(N - 1)
    BY Sizes DEF Dirs, Pages
  <2> QED BY <1>1, <1>4, <2>1
<1>5. NR_TASKS * N \in Nat
  BY <1>1
<1> QED BY <1>1, <1>2, <1>3, <1>4, <1>5 DEF Entry, Entries

\* The entries of user pages, and those of the kernel and of the code.
UserPart == {e \in Entries : e % TOTAL_PAGES >= FirstData}

\* The entries of a directory for a set of pages, told one by one.
LEMMA EntriesOfFacts ==
    ASSUME NEW d \in Dirs, NEW S \in SUBSET Pages
    PROVE  /\ EntriesOf(d, S) \in SUBSET Entries
           /\ \A i \in Dirs, pag \in Pages :
                Entry(i, pag) \in EntriesOf(d, S) <=> i = d /\ pag \in S
           /\ S \subseteq FirstData..(TOTAL_PAGES - 1) => EntriesOf(d, S) \subseteq UserPart
           /\ S \subseteq 0..(FirstData - 1) => EntriesOf(d, S) \cap UserPart = {}
<1>1. \A pag \in S : /\ pag \in Pages /\ Entry(d, pag) \in Entries
                     /\ Entry(d, pag) % TOTAL_PAGES = pag
  BY EntryFacts
<1>2. \A i \in Dirs, pag \in Pages : Entry(i, pag) \in EntriesOf(d, S) <=> i = d /\ pag \in S
  BY EntryFacts DEF EntriesOf
<1>3. EntriesOf(d, S) \in SUBSET Entries
  BY <1>1 DEF EntriesOf
<1>4. S \subseteq FirstData..(TOTAL_PAGES - 1) => EntriesOf(d, S) \subseteq UserPart
  BY <1>1, Sizes DEF EntriesOf, UserPart
<1>5. S \subseteq 0..(FirstData - 1) => EntriesOf(d, S) \cap UserPart = {}
  BY <1>1, Sizes DEF EntriesOf, UserPart
<1> QED BY <1>2, <1>3, <1>4, <1>5

\* The entries of a run of pages are a run of entries.
LEMMA EntriesOfRun ==
    ASSUME NEW d \in Dirs, NEW a \in Nat, NEW b \in Int
    PROVE  /\ EntriesOf(d, a..b) = Entry(d, a)..Entry(d, b)
           /\ Entry(d, a) = Entry(d, 0) + a /\ Entry(d, 0) \in Nat
<1>1. PICK z \in Nat : z = d * TOTAL_PAGES
  <2>1. d * TOTAL_PAGES \in Nat
    BY Sizes DEF Dirs
  <2> QED BY <2>1
<1>2. Entry(d, a) = z + a /\ Entry(d, b) = z + b /\ Entry(d, 0) = z
      /\ EntriesOf(d, a..b) = {z + pag : pag \in a..b}
  BY <1>1 DEF Entry, EntriesOf
<1>3. {z + pag : pag \in a..b} = (z + a)..(z + b)
  <2>1. ASSUME NEW e \in (z + a)..(z + b) PROVE e \in {z + pag : pag \in a..b}
    <3>1. e - z \in a..b /\ e = z + (e - z)
      BY <2>1
    <3> QED BY <3>1
  <2> QED BY <2>1
<1> QED BY <1>1, <1>2, <1>3

\* Min of a set of numbers is one of them, and the least.
LEMMA MinFacts ==
    ASSUME NEW S \in SUBSET Nat, S # {}
    PROVE  Min(S) \in S /\ \A y \in S : Min(S) <= y
<1>1. IsWellFoundedOn(OpToRel(<, Nat), Nat)
  BY NatLessThanWellFounded
<1>2. \E x \in S : \A y \in S : ~(<<y, x>> \in OpToRel(<, Nat))
  BY <1>1, WFMin
<1>3. PICK x \in S : \A y \in S : ~(<<y, x>> \in OpToRel(<, Nat))
  BY <1>2
<1>4. \A y \in S : ~(y < x)
  BY <1>3 DEF OpToRel
<1>5. \A y \in S : x <= y
  BY <1>4
<1> QED BY <1>5 DEF Min
-----------------------------------------------------------------------------
(* Frames.  Granted pairs entries and free frames by their rank.            *)

\* Entries are finitely many numbers, so ranks can be counted.
LEMMA EntriesFinite == IsFiniteSet(Entries) /\ Entries \subseteq Nat /\ Absent \notin Nat
<1>1. NR_TASKS * TOTAL_PAGES - 1 \in Int
  BY Sizes
<1>2. IsFiniteSet(0..(NR_TASKS * TOTAL_PAGES - 1))
  BY <1>1, FS_Interval
<1> QED BY <1>1, <1>2 DEF Entries, Absent

\* So are frames.
LEMMA FramesFinite ==
    /\ IsFiniteSet(Frames) /\ Frames \subseteq Nat /\ Frames \subseteq Pages
    /\ NUM_PAG_KERNEL \in Frames /\ \A f \in Frames : f >= NUM_PAG_KERNEL
<1>1. NUM_PAG_KERNEL..(TOTAL_PAGES - 1) \subseteq Pages
  BY Sizes DEF Pages
<1>2. IsFiniteSet(Pages) /\ Pages \subseteq Nat
  BY Sizes, FS_Interval DEF Pages
<1>3. NUM_PAG_KERNEL \in NUM_PAG_KERNEL..(TOTAL_PAGES - 1)
      /\ (NUM_PAG_KERNEL - NUM_PAG_KERNEL) % 2 = 0
  BY Sizes
<1>4. Frames \subseteq NUM_PAG_KERNEL..(TOTAL_PAGES - 1) /\ NUM_PAG_KERNEL \in Frames
  BY <1>3 DEF Frames
<1>5. IsFiniteSet(Frames)
  BY <1>1, <1>2, <1>4, FS_Subset
<1> QED BY <1>1, <1>2, <1>4, <1>5, Sizes

\* Different members have different ranks, below the size of the set.
LEMMA RankFacts ==
    ASSUME NEW S \in SUBSET Nat, IsFiniteSet(S)
    PROVE  /\ \A x \in S : Below(S, x) \in 0..(Cardinality(S) - 1)
           /\ \A x, y \in S : Below(S, x) = Below(S, y) => x = y
           /\ \A x \in S : Below(S, x) = 0 => \A y \in S : x <= y
<1> DEFINE B(x) == {y \in S : y < x}
<1>0. Cardinality(S) \in Nat
  BY FS_CardinalityType
<1>1. \A x \in S : B(x) \in SUBSET S /\ x \notin B(x)
  OBVIOUS
<1>2. \A x \in S : IsFiniteSet(B(x)) /\ Cardinality(B(x)) \in Nat
  BY <1>1, FS_Subset, FS_CardinalityType
<1>3. ASSUME NEW x \in S, NEW T \in SUBSET S, x \in T, B(x) \subseteq T
      PROVE  Cardinality(B(x)) < Cardinality(T)
  <2>1. IsFiniteSet(T) /\ Cardinality(T) \in Nat
    BY FS_Subset, FS_CardinalityType
  <2>2. Cardinality(B(x) \cup {x}) = Cardinality(B(x)) + 1
    BY <1>1, <1>2, FS_AddElement
  <2>3. B(x) \cup {x} \in SUBSET T
    BY <1>3
  <2>4. Cardinality(B(x) \cup {x}) <= Cardinality(T)
    BY <2>1, <2>3, FS_Subset
  <2> QED BY <1>2, <2>1, <2>2, <2>4
<1>4. \A x \in S : Cardinality(B(x)) < Cardinality(S)
  BY <1>1, <1>3
<1>5. ASSUME NEW x \in S, NEW y \in S, x < y
      PROVE  Cardinality(B(x)) < Cardinality(B(y))
  <2>1. \A z \in S : z < x => z < y
    BY <1>5
  <2>2. x \in B(y) /\ B(x) \subseteq B(y) /\ B(y) \in SUBSET S
    BY <1>5, <2>1
  <2> QED BY <1>3, <2>2
<1>6. \A x, y \in S : Cardinality(B(x)) = Cardinality(B(y)) => x = y
  <2> SUFFICES ASSUME NEW x \in S, NEW y \in S, Cardinality(B(x)) = Cardinality(B(y)), x # y
               PROVE  FALSE
    OBVIOUS
  <2>1. x < y \/ y < x
    OBVIOUS
  <2> QED BY <1>2, <1>5, <2>1
<1>7. \A x \in S : Cardinality(B(x)) = 0 => \A y \in S : x <= y
  <2> SUFFICES ASSUME NEW x \in S, Cardinality(B(x)) = 0, NEW y \in S PROVE x <= y
    OBVIOUS
  <2>1. B(x) = {}
    BY <1>2, FS_EmptySet
  <2> QED BY <2>1
<1> QED BY <1>0, <1>2, <1>4, <1>6, <1>7 DEF Below

\* Every rank below the size of the set is somebody's.
LEMMA RankTaken ==
    ASSUME NEW S \in SUBSET Nat, IsFiniteSet(S)
    PROVE  \A k \in 0..(Cardinality(S) - 1) : \E x \in S : Below(S, x) = k
<1> DEFINE n == Cardinality(S)
           rank == [x \in S |-> Below(S, x)]
<1>1. n \in Nat /\ IsFiniteSet(0..(n - 1)) /\ Cardinality(0..(n - 1)) = n
  <2>1. n \in Nat
    BY FS_CardinalityType
  <2>2. 0 \in Int /\ n - 1 \in Int /\ (0 > n - 1 <=> n = 0) /\ (n - 1) - 0 + 1 = n
    BY <2>1
  <2> QED BY <2>1, <2>2, FS_Interval
<1>2. rank \in [S -> 0..(n - 1)] /\ \A x, y \in S : rank[x] = rank[y] => x = y
  BY RankFacts
<1>3. rank \in Injection(S, 0..(n - 1))
  BY <1>2 DEF Injection, IsInjective
<1>4. rank \in Surjection(S, 0..(n - 1))
  BY <1>1, <1>3, FS_Injection
<1>5. \A k \in 0..(n - 1) : \E x \in S : rank[x] = k
  BY <1>4 DEF Surjection
<1> QED BY <1>5

FreeFrames(u) == Frames \ u

\* Granted is a function on the entries of the lowest ranks, to free frames of
\* the same rank.
LEMMA GrantedRanks ==
    ASSUME NEW u, NEW E \in SUBSET Entries, NEW g, g = Granted(u, E)
    PROVE  /\ DOMAIN g = {e \in E : Below(E, e) < Cardinality(FreeFrames(u))}
           /\ \A e \in DOMAIN g : /\ g[e] \in FreeFrames(u)
                                  /\ Below(FreeFrames(u), g[e]) = Below(E, e)
<1> DEFINE F == FreeFrames(u)
           D == {x \in E : Below(E, x) < Cardinality(F)}
<1>1. F \in SUBSET Nat /\ IsFiniteSet(F) /\ E \in SUBSET Nat /\ IsFiniteSet(E)
      /\ Cardinality(F) \in Nat /\ Cardinality(E) \in Nat
  BY FramesFinite, EntriesFinite, FS_Subset, FS_CardinalityType DEF FreeFrames
<1>2. g = [e \in D |-> CHOOSE f \in F : Below(F, f) = Below(E, e)]
  BY DEF Granted, FreeFrames
<1>3. \A e \in D : Below(E, e) \in 0..(Cardinality(F) - 1)
  BY <1>1, RankFacts
<1>4. \A e \in D : \E f \in F : Below(F, f) = Below(E, e)
  BY <1>1, <1>3, RankTaken
<1>5. \A e \in D : g[e] \in F /\ Below(F, g[e]) = Below(E, e)
  BY <1>2, <1>4
<1> QED BY <1>2, <1>5

\* alloc_frame gives every entry a frame that is free, and no frame twice.
LEMMA GrantedFacts ==
    ASSUME NEW u, NEW E \in SUBSET Entries, NEW g, g = Granted(u, E)
    PROVE  /\ DOMAIN g \in SUBSET E
           /\ \A e \in DOMAIN g : g[e] \in Frames \ u
           /\ \A e, e2 \in DOMAIN g : g[e] = g[e2] => e = e2
<1>2. /\ DOMAIN g = {e \in E : Below(E, e) < Cardinality(FreeFrames(u))}
      /\ \A e \in DOMAIN g : /\ g[e] \in FreeFrames(u)
                             /\ Below(FreeFrames(u), g[e]) = Below(E, e)
  BY GrantedRanks
<1>3. IsFiniteSet(E) /\ E \in SUBSET Nat
  BY EntriesFinite, FS_Subset
<1>4. \A e, e2 \in E : Below(E, e) = Below(E, e2) => e = e2
  BY <1>3, RankFacts
<1>5. \A e, e2 \in DOMAIN g : g[e] = g[e2] => e = e2
  BY <1>2, <1>4
<1> QED BY <1>2, <1>5 DEF FreeFrames
-----------------------------------------------------------------------------
(* Who owns a frame.  Beyond the code, an entry has a used frame to itself; *)
(* the other entries have frames of the kernel or of the booted program.    *)

LowValues == CodeFrames \cup (Absent..(NUM_PAG_KERNEL - 1))

Owned(pt, u) ==
    /\ u \subseteq Frames /\ pt \in [Entries -> Pages \cup {Absent}]
    /\ \A e \in Entries \ UserPart : pt[e] \in LowValues
    /\ \A e \in UserPart : pt[e] # Absent =>
            /\ pt[e] \in u \ CodeFrames
            /\ \A e2 \in UserPart : pt[e2] = pt[e] => e2 = e

\* That is what FrameOwnership says of them.
LEMMA OwnedIs == Owned(PT, used) => FrameOwnership
BY DEF Owned, FrameOwnership, UserEntries, UserPart

\* The first frame goes to the booted program: free_frame refuses no other.
LEMMA CodeFacts ==
    CodeFrames \subseteq Frames /\ NUM_PAG_KERNEL \in CodeFrames /\ 2 \in Dirs /\ CodePages \in SUBSET Pages
<1>1. 2 \in Dirs /\ CodePages \in SUBSET Pages /\ NUM_PAG_KERNEL \in CodePages
  BY Sizes DEF Dirs, CodePages, Pages
<1>2. PICK E, g, F : E = EntriesOf(2, CodePages) /\ g = Granted({}, E) /\ F = FreeFrames({})
  OBVIOUS
<1>3. E \in SUBSET Entries /\ Entry(2, NUM_PAG_KERNEL) \in E
  BY <1>1, <1>2, EntriesOfFacts
<1>4. /\ E \in SUBSET Nat /\ IsFiniteSet(E)
      /\ F \in SUBSET Nat /\ IsFiniteSet(F) /\ F = Frames
  BY <1>2, <1>3, EntriesFinite, FramesFinite, FS_Subset DEF FreeFrames
<1>5. Cardinality(E) \in Nat \ {0} /\ Cardinality(F) \in Nat \ {0}
  <2>1. E # {} /\ F # {}
    BY <1>3, <1>4, FramesFinite
  <2> QED BY <1>4, <2>1, FS_EmptySet, FS_CardinalityType
<1>6. PICK x \in E : Below(E, x) = 0
  BY <1>4, <1>5, RankTaken
<1>7. /\ DOMAIN g = {e \in E : Below(E, e) < Cardinality(F)}
      /\ \A e \in DOMAIN g : g[e] \in F /\ Below(F, g[e]) = Below(E, e)
  BY <1>2, <1>3, GrantedRanks
<1>8. x \in DOMAIN g /\ g[x] \in F /\ Below(F, g[x]) = 0
  BY <1>5, <1>6, <1>7
<1>9. g[x] = NUM_PAG_KERNEL
  <2>1. \A y \in F : g[x] <= y
    BY <1>4, <1>8, RankFacts
  <2>2. g[x] <= NUM_PAG_KERNEL /\ g[x] >= NUM_PAG_KERNEL
    BY <1>4, <1>8, <2>1, FramesFinite
  <2>3. g[x] \in Nat /\ NUM_PAG_KERNEL \in Nat
    BY <1>4, <1>8, Sizes
  <2> QED BY <2>2, <2>3
<1>10. CodeFrames = {g[e] : e \in DOMAIN g}
  BY <1>2 DEF CodeFrames, FramesOf
<1> QED BY <1>1, <1>4, <1>7, <1>8, <1>9, <1>10

\* Frames are handed out and mapped.
LEMMA OwnedMapped ==
    ASSUME NEW pt, NEW u, Owned(pt, u), CodeFrames \subseteq u,
           NEW E \in SUBSET UserPart, NEW g, g = Granted(u, E)
    PROVE  Owned(Mapped(pt, g), u \cup FramesOf(g))
<1> DEFINE q == Mapped(pt, g)
<1>1. E \in SUBSET Entries
  BY DEF UserPart
<1>2. /\ DOMAIN g \in SUBSET E
      /\ \A e \in DOMAIN g : g[e] \in Frames /\ g[e] \notin u /\ g[e] \in FramesOf(g)
      /\ \A e, e2 \in DOMAIN g : g[e] = g[e2] => e = e2
      /\ FramesOf(g) \subseteq Frames
  <2>1. /\ DOMAIN g \in SUBSET E
        /\ \A e \in DOMAIN g : g[e] \in Frames \ u
        /\ \A e, e2 \in DOMAIN g : g[e] = g[e2] => e = e2
    BY <1>1, GrantedFacts
  <2> QED BY <2>1 DEF FramesOf
<1>3. /\ \A e \in DOMAIN g : e \in Entries /\ q[e] = g[e]
      /\ \A e \in Entries \ DOMAIN g : q[e] = pt[e]
      /\ q \in [Entries -> Pages \cup {Absent}]
  BY <1>1, <1>2, FramesFinite DEF Mapped, Owned
<1> HIDE DEF q
<1>4. Frames \subseteq Nat /\ Absent \notin Nat
  BY FramesFinite, EntriesFinite
<1>5. \A e \in Entries \ UserPart : q[e] \in LowValues
  BY <1>2, <1>3 DEF Owned
<1>6. ASSUME NEW e \in UserPart, q[e] # Absent
      PROVE  /\ q[e] \in (u \cup FramesOf(g)) \ CodeFrames
             /\ \A e2 \in UserPart : q[e2] = q[e] => e2 = e
  <2>1. \A x \in UserPart : x \in Entries
    BY DEF UserPart
  <2>2. CASE e \in DOMAIN g
    <3>1. q[e] = g[e] /\ g[e] \in FramesOf(g) /\ g[e] \notin u /\ g[e] # Absent
      BY <1>2, <1>3, <1>4, <2>2
    <3>2. ASSUME NEW e2 \in UserPart, q[e2] = q[e] PROVE e2 = e
      <4>1. CASE e2 \in DOMAIN g
        BY <1>2, <1>3, <2>2, <3>1, <3>2, <4>1
      <4>2. CASE e2 \notin DOMAIN g
        <5>1. pt[e2] = g[e]
          BY <1>3, <2>1, <3>1, <3>2, <4>2
        <5> QED BY <3>1, <5>1 DEF Owned
      <4> QED BY <4>1, <4>2
    <3> QED BY <3>1, <3>2
  <2>3. CASE e \notin DOMAIN g
    BY <1>2, <1>3, <1>6, <2>1, <2>3 DEF Owned
  <2> QED BY <2>2, <2>3
<1>7. u \cup FramesOf(g) \subseteq Frames
  BY <1>2 DEF Owned
<1> QED BY <1>3, <1>5, <1>6, <1>7 DEF Owned, q

\* Entries are cleared, whatever entries they are.
LEMMA OwnedDel ==
    ASSUME NEW pt, NEW u, Owned(pt, u), NEW E
    PROVE  Owned(del_ss_pag(pt, E), u)
<1>1. /\ del_ss_pag(pt, E) \in [Entries -> Pages \cup {Absent}]
      /\ \A e \in Entries : del_ss_pag(pt, E)[e] = IF e \in E THEN Absent ELSE pt[e]
  BY DEF del_ss_pag, Owned
<1>2. Absent \in LowValues
  BY Sizes DEF LowValues, Absent
<1>3. \A x \in UserPart : x \in Entries
  BY DEF UserPart
<1> QED BY <1>1, <1>2, <1>3 DEF Owned

\* Entries are cleared and their frames freed: only those of user pages are
\* lost.
LEMMA OwnedFreed ==
    ASSUME NEW pt, NEW u, Owned(pt, u), NEW E \in SUBSET Entries
    PROVE  /\ Owned(del_ss_pag(pt, E), Freed(u, pt, E))
           /\ (/\ CodeFrames \subseteq u
               /\ \A e \in E \ UserPart : pt[e] = Absent) => CodeFrames \subseteq Freed(u, pt, E)
<1> DEFINE q == del_ss_pag(pt, E)
<1>1. \A f : f \in Freed(u, pt, E)
               <=> f \in u /\ ~(\E e \in E : pt[e] = f /\ f > NUM_PAG_KERNEL)
  BY DEF Freed
<1>2. Owned(q, u)
  BY OwnedDel
<1>3. Frames \subseteq Nat /\ \A f \in Frames : f >= NUM_PAG_KERNEL
  BY FramesFinite
<1>4. \A e \in Entries : q[e] = IF e \in E THEN Absent ELSE pt[e]
  BY DEF del_ss_pag
<1> HIDE DEF q
<1>5. ASSUME NEW e \in UserPart, q[e] # Absent
      PROVE  q[e] \in Freed(u, pt, E)
  <2>1. e \in Entries /\ e \notin E /\ q[e] = pt[e] /\ pt[e] \in u \ CodeFrames
    BY <1>4, <1>5 DEF UserPart, Owned
  <2>2. ASSUME NEW x \in E, pt[x] = pt[e] PROVE FALSE
    <3>1. CASE x \in UserPart
      BY <1>5, <2>1, <2>2, <3>1 DEF Owned
    <3>2. CASE x \notin UserPart
      <4>1. pt[x] \in LowValues
        BY <3>2 DEF Owned
      <4>2. pt[e] \in Frames /\ pt[e] >= NUM_PAG_KERNEL /\ pt[e] \notin CodeFrames
        BY <1>3, <2>1 DEF Owned
      <4> QED BY <2>2, <4>1, <4>2, Sizes DEF LowValues, Absent
    <3> QED BY <3>1, <3>2
  <2> QED BY <1>1, <2>1, <2>2
<1>6. Freed(u, pt, E) \subseteq Frames
  BY <1>1 DEF Owned
<1>7. Owned(q, Freed(u, pt, E))
  BY <1>2, <1>5, <1>6 DEF Owned
<1>8. ASSUME CodeFrames \subseteq u, \A e \in E \ UserPart : pt[e] = Absent
      PROVE  CodeFrames \subseteq Freed(u, pt, E)
  <2>1. Absent \notin CodeFrames
    BY CodeFacts, FramesFinite, EntriesFinite
  <2>2. \A e \in E : pt[e] \notin CodeFrames
    BY <1>8, <2>1 DEF Owned
  <2> QED BY <1>1, <1>8, <2>2
<1> QED BY <1>7, <1>8 DEF q

\* Entries of the kernel and of the code are shared.
LEMMA OwnedShared ==
    ASSUME NEW pt, NEW u, Owned(pt, u), NEW s,
           DOMAIN s \subseteq Entries \ UserPart, \A e \in DOMAIN s : s[e] \in LowValues
    PROVE  Owned(Mapped(pt, s), u)
<1>1. LowValues \subseteq Pages \cup {Absent}
  <2>1. CodeFrames \subseteq Pages
    BY CodeFacts, FramesFinite
  <2> QED BY <2>1, Sizes DEF LowValues, Pages, Absent
<1>2. /\ Mapped(pt, s) \in [Entries -> Pages \cup {Absent}]
      /\ \A e \in Entries : Mapped(pt, s)[e] = IF e \in DOMAIN s THEN s[e] ELSE pt[e]
  BY <1>1 DEF Mapped, Owned
<1>3. \A x \in UserPart : x \in Entries /\ x \notin DOMAIN s
  BY DEF UserPart
<1> QED BY <1>2, <1>3 DEF Owned

\* What was mapped is cleared again.
LEMMA MappedDeleted ==
    ASSUME NEW pt, NEW g
    PROVE  del_ss_pag(Mapped(pt, g), DOMAIN g) = del_ss_pag(pt, DOMAIN g)
BY DEF Mapped, del_ss_pag
-----------------------------------------------------------------------------
(* The invariant.  What Memory's properties say is not inductive: that the  *)
(* loaded directory is the running task's takes that a PID tells the        *)
(* directory; that a fork may take a directory, that its list of threads is *)
(* empty; that the program stays, that all have the frames task 1 was       *)
(* booted with.                                                             *)

Code(pag) == Granted({}, EntriesOf(2, CodePages))[Entry(2, pag)]

\* One in two frames is enough for task 1.
LEMMA FramesEnough == Cardinality(FreeFrames({})) >= NUM_PAG_CODE + NUM_PAG_DATA
<1> DEFINE n == NUM_PAG_CODE + NUM_PAG_DATA
           F == FreeFrames({})
           f == [k \in 0..(n - 1) |-> NUM_PAG_KERNEL + 2 * k]
<1>1. n \in Nat /\ n > 0 /\ NUM_PAG_KERNEL \in Nat /\ TOTAL_PAGES \in Nat
      /\ NUM_PAG_KERNEL + 2 * n <= TOTAL_PAGES
  BY Sizes, MemAssumption
<1>2. F = Frames /\ IsFiniteSet(F) /\ Cardinality(F) \in Nat
  BY FramesFinite, FS_CardinalityType DEF FreeFrames
<1>3. IsFiniteSet(0..(n - 1)) /\ Cardinality(0..(n - 1)) = n
  <2>1. PICK b \in Int : b = n - 1 /\ 0 <= b /\ b - 0 + 1 = n
    BY <1>1
  <2>2. IsFiniteSet(0..b) /\ Cardinality(0..b) = n
    BY <2>1, FS_Interval
  <2> QED BY <2>1, <2>2
<1> HIDE DEF n
<1>4. ASSUME NEW k \in 0..(n - 1) PROVE NUM_PAG_KERNEL + 2 * k \in Frames
  <2>1. PICK x : x = NUM_PAG_KERNEL + 2 * k
    OBVIOUS
  <2>2. x \in NUM_PAG_KERNEL..(TOTAL_PAGES - 1) /\ (x - NUM_PAG_KERNEL) % 2 = 0
    BY <1>1, <1>4, <2>1
  <2>3. x \in Frames
    BY ONLY <2>2 DEF Frames
  <2> QED BY <2>1, <2>3
<1>5. \A k, j \in 0..(n - 1) : NUM_PAG_KERNEL + 2 * k = NUM_PAG_KERNEL + 2 * j => k = j
  BY <1>1
<1>6. f \in Injection(0..(n - 1), F)
  BY <1>2, <1>4, <1>5 DEF Injection, IsInjective
<1>7. Cardinality(0..(n - 1)) <= Cardinality(F)
  BY <1>2, <1>6, FS_Injection
<1> QED BY <1>1, <1>2, <1>3, <1>7 DEF n

\* All of it is mapped.
Boot(b) == NUM_PAG_KERNEL..(b - 1)

\* What start-up maps: pages in order, each on the free frame of its rank.
LEMMA BootFrames ==
    ASSUME NEW b \in {FirstData, FirstFree}
    PROVE  /\ DOMAIN Granted({}, EntriesOf(2, Boot(b))) = EntriesOf(2, Boot(b))
           /\ Boot(b) \in SUBSET Pages
           /\ EntriesOf(2, Boot(b)) = Entry(2, NUM_PAG_KERNEL)..Entry(2, b - 1)
           /\ \A e \in EntriesOf(2, Boot(b)) :
                Granted({}, EntriesOf(2, Boot(b)))[e] =
                    CHOOSE f \in FreeFrames({}) :
                        Below(FreeFrames({}), f) = Below(EntriesOf(2, Boot(b)), e)
<1>0. PICK S, g : S = NUM_PAG_KERNEL..(b - 1) /\ S = Boot(b) /\ g = Granted({}, EntriesOf(2, S))
  BY DEF Boot
<1>1. /\ 2 \in Dirs /\ S \in SUBSET Pages /\ NUM_PAG_KERNEL \in Nat /\ b \in Nat
      /\ b - NUM_PAG_KERNEL <= NUM_PAG_CODE + NUM_PAG_DATA /\ NUM_PAG_KERNEL < b
  BY <1>0, Sizes DEF Dirs, Pages
<1>2. PICK E, F : E = EntriesOf(2, S) /\ F = FreeFrames({})
  OBVIOUS
<1>3. PICK lo \in Nat, hi \in Nat :
            lo = Entry(2, NUM_PAG_KERNEL) /\ hi = Entry(2, b - 1)
            /\ hi - lo + 1 = b - NUM_PAG_KERNEL /\ E = lo..hi /\ lo <= hi
  <2>1. b - 1 \in Nat
    BY <1>1
  <2>2. /\ EntriesOf(2, NUM_PAG_KERNEL..(b - 1)) = Entry(2, NUM_PAG_KERNEL)..Entry(2, b - 1)
        /\ Entry(2, NUM_PAG_KERNEL) = Entry(2, 0) + NUM_PAG_KERNEL /\ Entry(2, 0) \in Nat
        /\ Entry(2, b - 1) = Entry(2, 0) + (b - 1)
    BY <1>1, <2>1, EntriesOfRun
  <2> QED BY <1>0, <1>1, <1>2, <2>1, <2>2
<1>4. E \in SUBSET Entries
  BY <1>1, <1>2, EntriesOfFacts
<1>5. E \in SUBSET Nat /\ IsFiniteSet(E) /\ Cardinality(E) \in Nat
  BY <1>4, EntriesFinite, FS_Subset, FS_CardinalityType
<1>6. Cardinality(E) = b - NUM_PAG_KERNEL
  BY <1>3, FS_Interval
<1>7. IsFiniteSet(F) /\ Cardinality(F) \in Nat /\ Cardinality(E) <= Cardinality(F)
  <2>1. IsFiniteSet(F) /\ Cardinality(F) \in Nat
    BY <1>2, FramesFinite, FS_CardinalityType, FS_Subset DEF FreeFrames
  <2> QED BY <1>1, <1>2, <1>5, <1>6, <2>1, FramesEnough, Sizes
<1>8. \A e \in E : Below(E, e) \in 0..(Cardinality(E) - 1)
  BY <1>5, RankFacts
<1>9. \A e \in E : Below(E, e) < Cardinality(F)
  BY <1>5, <1>7, <1>8
<1>10. g = [e \in {x \in E : Below(E, x) < Cardinality(F)} |->
                CHOOSE f \in F : Below(F, f) = Below(E, e)]
  BY <1>0, <1>2 DEF Granted, FreeFrames
<1>11. DOMAIN g = E /\ \A e \in E : g[e] = CHOOSE f \in F : Below(F, f) = Below(E, e)
  BY <1>9, <1>10
<1>12. g = Granted({}, E) /\ E = EntriesOf(2, Boot(b)) /\ F = FreeFrames({})
       /\ S = Boot(b) /\ lo = Entry(2, NUM_PAG_KERNEL) /\ hi = Entry(2, b - 1) /\ E = lo..hi
  BY <1>0, <1>2, <1>3
<1>13. DOMAIN Granted({}, EntriesOf(2, Boot(b))) = EntriesOf(2, Boot(b)) /\ Boot(b) \in SUBSET Pages
  BY <1>1, <1>11, <1>12
<1>14. EntriesOf(2, Boot(b)) = Entry(2, NUM_PAG_KERNEL)..Entry(2, b - 1)
  BY <1>12
<1>15. \A e \in EntriesOf(2, Boot(b)) :
            Granted({}, EntriesOf(2, Boot(b)))[e] =
                CHOOSE f \in FreeFrames({}) :
                    Below(FreeFrames({}), f) = Below(EntriesOf(2, Boot(b)), e)
  BY <1>11, <1>12, Zenon
<1> QED BY <1>13, <1>14, <1>15

\* The program of task 1 has all its frames, the first one among them.
LEMMA CodeIs ==
    /\ \A pag \in CodePages : Code(pag) \in CodeFrames
    /\ \A f \in CodeFrames : \E pag \in CodePages : Code(pag) = f
    /\ CodePages \in SUBSET Pages /\ CodePages \in SUBSET (0..(FirstData - 1))
    /\ Absent \notin CodeFrames
<1>1. PICK g : g = Granted({}, EntriesOf(2, CodePages))
  OBVIOUS
<1>2. CodePages = NUM_PAG_KERNEL..(FirstData - 1) /\ CodePages \in SUBSET (0..(FirstData - 1))
  BY Sizes DEF CodePages
<1>3. DOMAIN g = EntriesOf(2, CodePages) /\ CodePages \in SUBSET Pages
  <2>1. CodePages = Boot(FirstData)
    BY <1>2 DEF Boot
  <2>2. DOMAIN Granted({}, EntriesOf(2, Boot(FirstData))) = EntriesOf(2, Boot(FirstData))
        /\ Boot(FirstData) \in SUBSET Pages
    BY BootFrames
  <2> QED BY <1>1, <2>1, <2>2
<1>4. CodeFrames = {g[e] : e \in DOMAIN g} /\ \A pag : Code(pag) = g[Entry(2, pag)]
  BY <1>1 DEF CodeFrames, FramesOf, Code
<1>5. Absent \notin CodeFrames
  BY CodeFacts, FramesFinite, EntriesFinite
<1> QED BY <1>2, <1>3, <1>4, <1>5 DEF EntriesOf

PidsTell ==
    /\ \A t \in live \cup {Idle} : PID[t] \in Nat
    /\ \A t, u \in live \cup {Idle} : PID[t] = PID[u] => dir[t] = dir[u]

\* Threads of every directory, and the count of those that have some.
ThreadsTell ==
    \A i \in Dirs : /\ threads[i] = {u \in live : dir[u] = i}
                    /\ threads[i] # {} => pointing_dir[i] = Cardinality(threads[i])

CodeThere ==
    /\ CodeFrames \subseteq used
    /\ \A pag \in CodePages : /\ PT[Entry(2, pag)] = Code(pag)
                              /\ \A t \in live : PT[Entry(dir[t], pag)] = Code(pag)

RegionsFinite == \A i \in Dirs : IsFiniteSet(regions[i])

MemInv ==
    /\ MemTypeOK /\ PID \in [Tasks -> Int] /\ Owned(PT, used)
    /\ broken = "no" => PidsTell /\ ThreadsTell /\ CodeThere /\ RegionsFinite
    /\ ChunksAccounted /\ SpaceKept /\ LoadedSpace

\* As long as nothing is broken.
Sane == MemInv /\ broken = "no"

\* The task that makes a system call.
LEMMA HomeFacts ==
    ASSUME Sane, current # Idle
    PROVE  /\ current \in live /\ current \in Tasks /\ home \in Dirs
           /\ current \in threads[home] /\ threads[home] \subseteq live
           /\ IsFiniteSet(threads[home]) /\ Cardinality(threads[home]) \in Nat \ {0}
           /\ pointing_dir[home] = Cardinality(threads[home])
           /\ stack[current] \subseteq FirstFree..(TOTAL_PAGES - 1)
<1>1. current \in live /\ current \in Tasks /\ home \in Dirs
      /\ stack[current] \subseteq FirstFree..(TOTAL_PAGES - 1) /\ live \subseteq Tasks
  BY DEF Sane, MemInv, MemTypeOK, home
<1>2. threads[home] = {u \in live : dir[u] = home} /\ current \in threads[home]
      /\ pointing_dir[home] = Cardinality(threads[home])
  BY <1>1 DEF Sane, MemInv, ThreadsTell, home
<1>3. IsFiniteSet(threads[home])
  BY <1>1, <1>2, MemAssumption, FS_Subset
<1>4. Cardinality(threads[home]) \in Nat \ {0}
  BY <1>2, <1>3, FS_CardinalityType, FS_EmptySet
<1> QED BY <1>1, <1>2, <1>3, <1>4

\* The directory a fork takes.
LEMMA FreeDirFacts ==
    ASSUME Sane, FreeDirs # {}, NEW i, i = Min(FreeDirs)
    PROVE  /\ i \in Dirs /\ pointing_dir[i] = 0 /\ threads[i] = {} /\ regions[i] = {}
           /\ \A t \in live : dir[t] # i
<1>1. FreeDirs \in SUBSET Nat
  BY DEF FreeDirs, Dirs
<1>2. i \in FreeDirs
  BY <1>1, MinFacts
<1>3. i \in Dirs /\ pointing_dir[i] = 0
  BY <1>2, Sizes DEF FreeDirs, Sane, MemInv, MemTypeOK
<1>4. threads[i] = {}
  <2>1. CASE threads[i] # {}
    <3>1. threads[i] = {u \in live : dir[u] = i} /\ Cardinality(threads[i]) = 0
      BY <1>3, <2>1 DEF Sane, MemInv, ThreadsTell
    <3>2. threads[i] \subseteq Tasks
      BY <1>3 DEF Sane, MemInv, MemTypeOK
    <3> QED BY <3>1, <3>2, MemAssumption, FS_Subset, FS_EmptySet
  <2> QED BY <2>1
<1>5. regions[i] = {}
  <2>1. \A m \in regions[i] : m.num_pointing \in 1..Cardinality({})
    BY <1>3, <1>4 DEF Sane, MemInv, ChunksAccounted
  <2> QED BY <2>1, FS_EmptySet
<1>6. \A t \in live : dir[t] # i
  BY <1>3, <1>4 DEF Sane, MemInv, ThreadsTell
<1> QED BY <1>3, <1>4, <1>5, <1>6

\* The stretch that create_thread and memRegGet take.
LEMMA GapFacts ==
    ASSUME Sane, NEW n \in 1..MaxPages, Gaps(PT, home, n) # {},
           NEW pag, pag = Min(Gaps(PT, home, n))
    PROVE  /\ pag \in FirstFree..(TOTAL_PAGES - 1) /\ pag \in Nat /\ pag + n <= TOTAL_PAGES
           /\ pag..(pag + n - 1) \subseteq FirstFree..(TOTAL_PAGES - 1)
           /\ \A p \in pag..(pag + n - 1) : PT[Entry(home, p)] = Absent
<1>1. Gaps(PT, home, n) \in SUBSET Nat
  BY Sizes DEF Gaps
<1>2. pag \in Gaps(PT, home, n)
  BY <1>1, MinFacts
<1>3. pag \in FirstFree..(TOTAL_PAGES - 2 * n)
      /\ \A i \in 0..(n - 1) : PT[Entry(home, pag + i)] = Absent
  BY <1>2 DEF Gaps, is_assigned
<1>4. n \in Nat /\ n >= 1 /\ pag \in Nat /\ pag + n <= TOTAL_PAGES
  BY <1>3, Sizes
<1>5. ASSUME NEW p \in pag..(pag + n - 1) PROVE PT[Entry(home, p)] = Absent
  <2>1. p - pag \in 0..(n - 1) /\ pag + (p - pag) = p
    BY <1>4, <1>5
  <2> QED BY <1>3, <2>1
<1> QED BY <1>3, <1>4, <1>5, Sizes

\* What a child shares.
LEMMA SharedFacts ==
    ASSUME Owned(PT, used), home \in Dirs, NEW to \in Dirs
    PROVE  /\ DOMAIN Shared(to) = EntriesOf(to, 0..(FirstData - 1))
           /\ DOMAIN Shared(to) \subseteq Entries \ UserPart
           /\ \A e \in DOMAIN Shared(to) : Shared(to)[e] \in LowValues
           /\ \A p \in 0..(FirstData - 1) :
                Shared(to)[Entry(to, p)] = get_frame(Entry(home, p))
<1>1. PICK S : S = 0..(FirstData - 1)
  OBVIOUS
<1>2. \A d \in Dirs : EntriesOf(d, S) \subseteq Entries \ UserPart
  <2>1. S \in SUBSET Pages /\ S \subseteq 0..(FirstData - 1)
    BY <1>1, Sizes DEF Pages
  <2>2. \A d \in Dirs : EntriesOf(d, S) \in SUBSET Entries /\ EntriesOf(d, S) \cap UserPart = {}
    BY <2>1, EntriesOfFacts
  <2> QED BY <2>2
<1>5. DOMAIN Shared(to) = EntriesOf(to, 0..(FirstData - 1))
      /\ DOMAIN Shared(to) \subseteq Entries \ UserPart
  <2>1. DOMAIN Shared(to) = EntriesOf(to, S)
    BY <1>1 DEF Shared
  <2> QED BY <1>1, <1>2, <2>1
<1>3. ASSUME NEW p \in 0..(FirstData - 1)
      PROVE  /\ Shared(to)[Entry(to, p)] = get_frame(Entry(home, p))
             /\ get_frame(Entry(home, p)) \in LowValues
  <2>1. Entry(to, p) \in EntriesOf(to, 0..(FirstData - 1))
    BY DEF EntriesOf
  <2>2. Entry(to, p) - Entry(to, 0) + Entry(home, 0) = Entry(home, p)
    <3>1. /\ p \in Nat
          /\ Entry(to, p) = Entry(to, 0) + p /\ Entry(to, 0) \in Nat
          /\ Entry(home, p) = Entry(home, 0) + p /\ Entry(home, 0) \in Nat
      BY Sizes, EntriesOfRun
    <3> QED BY <3>1
  <2>3. Shared(to)[Entry(to, p)] = get_frame(Entry(home, p))
    BY <2>1, <2>2 DEF Shared
  <2>4. Entry(home, p) \in Entries \ UserPart
    <3>1. Entry(home, p) \in EntriesOf(home, S)
      BY <1>1 DEF EntriesOf
    <3> QED BY <1>2, <3>1
  <2>5. 0 \in LowValues
    BY Sizes DEF LowValues, Absent
  <2> QED BY <2>3, <2>4, <2>5 DEF get_frame, Owned
<1>4. \A e \in DOMAIN Shared(to) : \E p \in 0..(FirstData - 1) : e = Entry(to, p)
  BY <1>5 DEF EntriesOf
<1> QED BY <1>3, <1>4, <1>5
-----------------------------------------------------------------------------
(* The outcomes of the calls, by pages instead of entries and frames.       *)

\* Frames marked used that nothing maps, and that there are no more of them.
Dropped(u, pt) == u \ InUse(u, pt)
NoneDropped == Dropped(used', PT') \subseteq Dropped(used, PT)

\* Frames handed out are mapped.
LEMMA DroppedMapped ==
    ASSUME NEW u, NEW pt, u \subseteq Frames, NEW E \in SUBSET Entries,
           \A e \in E : pt[e] = Absent, NEW g, g = Granted(u, E)
    PROVE  Dropped(u \cup FramesOf(g), Mapped(pt, g)) \subseteq Dropped(u, pt)
<1> DEFINE q == Mapped(pt, g)
<1>1. DOMAIN g \in SUBSET E
  BY GrantedFacts
<1>2. \A e \in Entries : q[e] = IF e \in DOMAIN g THEN g[e] ELSE pt[e]
  BY DEF Mapped
<1>3. \A f \in u : f # Absent
  BY FramesFinite, EntriesFinite
<1>4. \A f : f \in u \cup FramesOf(g) => f \in u \/ \E e \in DOMAIN g : f = g[e]
  BY DEF FramesOf
<1>5. \A v, r, f : f \in Dropped(v, r) <=> f \in v /\ \A e \in Entries : r[e] # f
  BY DEF Dropped, InUse
<1> HIDE DEF q
<1>6. ASSUME NEW f \in Dropped(u \cup FramesOf(g), q) PROVE f \in Dropped(u, pt)
  <2>1. f \in u \cup FramesOf(g) /\ \A e \in Entries : q[e] # f
    BY <1>5
  <2>2. f \in u
    BY <1>1, <1>2, <1>4, <2>1
  <2>3. \A e \in Entries : pt[e] # f
    BY <1>1, <1>2, <1>3, <2>1, <2>2
  <2> QED BY <1>5, <2>2, <2>3
<1> QED BY <1>6 DEF q

\* free_frame gives back what is unmapped, but for the first frame.
LEMMA DroppedFreed ==
    ASSUME NEW u, NEW pt, u \subseteq Frames, NEW E \in SUBSET Entries,
           NEW x \in Entries, del_ss_pag(pt, E)[x] = NUM_PAG_KERNEL
    PROVE  Dropped(Freed(u, pt, E), del_ss_pag(pt, E)) \subseteq Dropped(u, pt)
<1> DEFINE q == del_ss_pag(pt, E)
           v == Freed(u, pt, E)
<1>1. \A e \in Entries : q[e] = IF e \in E THEN Absent ELSE pt[e]
  BY DEF del_ss_pag
<1>2. \A f : f \in v <=> f \in u /\ ~(\E e \in E : pt[e] = f /\ f > NUM_PAG_KERNEL)
  BY DEF Freed
<1>3. \A f \in u : f \in Nat /\ f >= NUM_PAG_KERNEL
  BY FramesFinite
<1>4. \A w, r, f : f \in Dropped(w, r) <=> f \in w /\ \A e \in Entries : r[e] # f
  BY DEF Dropped, InUse
<1>5. q[x] = NUM_PAG_KERNEL
  OBVIOUS
<1> HIDE DEF q, v
<1>6. ASSUME NEW f \in Dropped(v, q) PROVE f \in Dropped(u, pt)
  <2>1. f \in v /\ f \in u /\ \A e \in Entries : q[e] # f
    BY <1>2, <1>4
  <2>2. f > NUM_PAG_KERNEL
    BY <1>3, <1>5, <2>1, Sizes
  <2>3. \A e \in Entries : pt[e] # f
    BY <1>1, <1>2, <2>1, <2>2
  <2> QED BY <1>4, <2>1, <2>3
<1> QED BY <1>6 DEF q, v

\* The caller got the pages of S.
Taken(S) ==
    /\ \A p \in S : PT'[Entry(home, p)] # Absent
    /\ \A d \in Dirs, p \in Pages :
            ~(d = home /\ p \in S) => PT'[Entry(d, p)] = PT[Entry(d, p)]
    /\ Owned(PT', used') /\ used \subseteq used' /\ NoneDropped

\* The caller gave them back.
GivenBack(S) ==
    /\ \A p \in S : PT'[Entry(home, p)] = Absent
    /\ \A d \in Dirs, p \in Pages :
            ~(d = home /\ p \in S) => PT'[Entry(d, p)] = PT[Entry(d, p)]
    /\ Owned(PT', used') /\ CodeFrames \subseteq used' /\ NoneDropped

\* Mapping absent pages takes free frames only: ownership and the code stay.
LEMMA TakenFacts ==
    ASSUME Sane, home \in Dirs, NEW S \in SUBSET (FirstFree..(TOTAL_PAGES - 1)),
           \A p \in S : PT[Entry(home, p)] = Absent,
           NEW g, g = Granted(used, EntriesOf(home, S)), DOMAIN g = EntriesOf(home, S),
           PT' = Mapped(PT, g), used' = used \cup FramesOf(g)
    PROVE  Taken(S)
<1>1. PICK E : E = EntriesOf(home, S)
  OBVIOUS
<1>2. S \in SUBSET Pages /\ S \subseteq FirstData..(TOTAL_PAGES - 1)
  BY Sizes DEF Pages
<1>3. /\ E \subseteq UserPart /\ E \in SUBSET Entries
      /\ \A i \in Dirs, p \in Pages : Entry(i, p) \in E <=> i = home /\ p \in S
  BY <1>1, <1>2, EntriesOfFacts
<1>4. \A e \in E : g[e] \in Frames \ used
  <2>1. g = Granted(used, E) /\ DOMAIN g = E
    BY <1>1
  <2> QED BY <1>3, <2>1, GrantedFacts
<1>5. \A e \in Entries : PT'[e] = IF e \in E THEN g[e] ELSE PT[e]
  BY <1>1 DEF Mapped
<1>6. Owned(PT', used')
  BY <1>1, <1>3, OwnedMapped DEF Sane, MemInv, CodeThere
<1>7. \A f \in Frames : f # Absent
  BY FramesFinite, EntriesFinite
<1>8. \A i \in Dirs, p \in Pages : Entry(i, p) \in Entries
  BY EntryFacts
<1>9. \A p \in S : PT'[Entry(home, p)] # Absent
  BY <1>2, <1>3, <1>4, <1>5, <1>7, <1>8
<1>10. \A d \in Dirs, p \in Pages :
            ~(d = home /\ p \in S) => PT'[Entry(d, p)] = PT[Entry(d, p)]
  BY <1>3, <1>5, <1>8
<1>11. NoneDropped
  <2>1. \A e \in E : PT[e] = Absent
    BY <1>1 DEF EntriesOf
  <2>2. used \subseteq Frames /\ g = Granted(used, E)
    BY <1>1 DEF Sane, MemInv, MemTypeOK
  <2> QED BY <1>3, <2>1, <2>2, DroppedMapped DEF NoneDropped
<1> QED BY <1>6, <1>9, <1>10, <1>11 DEF Taken

\* Unmapping mapped pages frees just their frames.
LEMMA GivenBackFacts ==
    ASSUME Sane, home \in Dirs, NEW S \in SUBSET (FirstData..(TOTAL_PAGES - 1)),
           NEW E, E = EntriesOf(home, S),
           PT' = del_ss_pag(PT, E), used' = Freed(used, PT, E)
    PROVE  GivenBack(S)
<1>1. S \in SUBSET Pages
  BY Sizes DEF Pages
<1>2. /\ E \subseteq UserPart /\ E \in SUBSET Entries
      /\ \A i \in Dirs, p \in Pages : Entry(i, p) \in E <=> i = home /\ p \in S
  BY <1>1, EntriesOfFacts
<1>3. Owned(PT', used') /\ CodeFrames \subseteq used'
  <2>1. Owned(PT, used) /\ CodeFrames \subseteq used
    BY DEF Sane, MemInv, CodeThere
  <2>2. E \ UserPart = {}
    BY <1>2
  <2> QED BY <1>2, <2>1, <2>2, OwnedFreed
<1>4. \A i \in Dirs, p \in Pages : Entry(i, p) \in Entries
  BY EntryFacts
<1>5. \A e \in Entries : PT'[e] = IF e \in E THEN Absent ELSE PT[e]
  BY DEF del_ss_pag
<1>6. NoneDropped
  <2>1. PICK k \in CodePages : Code(k) = NUM_PAG_KERNEL
    BY CodeFacts, CodeIs
  <2>2. Entry(2, k) \in Entries /\ Entry(2, k) \notin E
    <3>1. 2 \in Dirs /\ k \in Pages /\ k \in 0..(FirstData - 1)
      BY CodeFacts, CodeIs
    <3>2. k \notin S
      BY <3>1, Sizes
    <3> QED BY <1>2, <1>4, <3>1, <3>2
  <2>3. PT'[Entry(2, k)] = NUM_PAG_KERNEL
    BY <1>5, <2>1, <2>2 DEF Sane, MemInv, CodeThere
  <2>4. used \subseteq Frames
    BY DEF Sane, MemInv, MemTypeOK
  <2> QED BY <1>2, <2>2, <2>3, <2>4, DroppedFreed DEF NoneDropped
<1> QED BY <1>1, <1>2, <1>3, <1>4, <1>5, <1>6 DEF GivenBack

\* Frames that did not suffice are given back: nothing has changed.
LEMMA UndoneFacts ==
    ASSUME Sane, home \in Dirs, NEW S \in SUBSET (FirstFree..(TOTAL_PAGES - 1)),
           \A p \in S : PT[Entry(home, p)] = Absent,
           NEW g, g = Granted(used, EntriesOf(home, S)),
           NEW C, DOMAIN g \subseteq C,
           \A e \in C \ DOMAIN g : e \in Entries /\ PT[e] = Absent
    PROVE  /\ del_ss_pag(Mapped(PT, g), C) = PT
           /\ Freed(used \cup FramesOf(g), Mapped(PT, g), C) = used
<1>1. S \in SUBSET Pages /\ PT \in [Entries -> Pages \cup {Absent}] /\ used \subseteq Frames
  BY Sizes DEF Pages, Sane, MemInv, MemTypeOK
<1>2. PICK E : E = EntriesOf(home, S)
  OBVIOUS
<1>3. E \in SUBSET Entries /\ \A e \in E : PT[e] = Absent
  <2>1. EntriesOf(home, S) \in SUBSET Entries
    BY <1>1, EntriesOfFacts
  <2>2. \A e \in EntriesOf(home, S) : PT[e] = Absent
    BY DEF EntriesOf
  <2> QED BY <1>2, <2>1, <2>2
<1>4. /\ DOMAIN g \in SUBSET E /\ \A e \in DOMAIN g : g[e] \in Frames \ used
  BY <1>2, <1>3, GrantedFacts
<1>5. \A e \in Entries : Mapped(PT, g)[e] = IF e \in DOMAIN g THEN g[e] ELSE PT[e]
  BY DEF Mapped
<1>6. del_ss_pag(Mapped(PT, g), C) = PT
  <2>1. \A e \in C : e \in Entries /\ PT[e] = Absent
    BY <1>3, <1>4
  <2>2. \A e \in Entries : (IF e \in C THEN Absent ELSE Mapped(PT, g)[e]) = PT[e]
    BY <1>5, <2>1
  <2> QED BY <1>1, <2>2 DEF del_ss_pag
<1>7. NUM_PAG_KERNEL \in used
  BY CodeFacts DEF Sane, MemInv, CodeThere
<1>8. \A f \in Frames : f # Absent /\ f \in Nat /\ f >= NUM_PAG_KERNEL
  BY FramesFinite, EntriesFinite
<1>9. \A e \in DOMAIN g : g[e] > NUM_PAG_KERNEL
  BY <1>4, <1>7, <1>8, Sizes
<1>10. \A e \in C : Mapped(PT, g)[e] = IF e \in DOMAIN g THEN g[e] ELSE Absent
  BY <1>3, <1>4, <1>5
<1>11. \A f : f \in FramesOf(g) <=> \E e \in DOMAIN g : f = g[e]
  BY DEF FramesOf
<1>12. \A f : f \in Freed(used \cup FramesOf(g), Mapped(PT, g), C)
               <=> /\ f \in used \/ f \in FramesOf(g)
                   /\ ~(\E e \in C : Mapped(PT, g)[e] = f /\ f > NUM_PAG_KERNEL)
  BY DEF Freed
<1>13. ASSUME NEW f
       PROVE  f \in Freed(used \cup FramesOf(g), Mapped(PT, g), C) <=> f \in used
  <2>1. CASE f \in FramesOf(g)
    <3>1. PICK e \in DOMAIN g : f = g[e]
      BY <1>11, <2>1
    <3>2. e \in C /\ Mapped(PT, g)[e] = f /\ f > NUM_PAG_KERNEL /\ f \notin used
      BY <1>4, <1>9, <1>10, <3>1
    <3> QED BY <1>12, <3>2
  <2>2. CASE f \notin FramesOf(g)
    <3>1. f \in used => f # Absent
      BY <1>1, <1>8
    <3> QED BY <1>10, <1>11, <1>12, <2>2, <3>1
  <2> QED BY <2>1, <2>2
<1> QED BY <1>6, <1>13
-----------------------------------------------------------------------------
(* What each call does, by pages.                                           *)

\* There is a number no task has.
LEMMA NewPIDFacts ==
    ASSUME PID \in [Tasks -> Int]
    PROVE  NewPID \in Nat /\ \A t \in Tasks : PID[t] # NewPID
<1> DEFINE R == 1..(NR_TASKS + 1)
           S == {PID[t] : t \in Tasks}
<1>1. /\ IsFiniteSet(R) /\ Cardinality(R) = NR_TASKS + 1 /\ R \subseteq Nat
      /\ IsFiniteSet(Tasks) /\ Cardinality(Tasks) = NR_TASKS /\ NR_TASKS \in Nat
  <2>1. NR_TASKS \in Nat /\ NR_TASKS + 1 \in Int /\ 1 <= NR_TASKS + 1
        /\ (NR_TASKS + 1) - 1 + 1 = NR_TASKS + 1
    BY Sizes
  <2>2. IsFiniteSet(R) /\ Cardinality(R) = NR_TASKS + 1
    <3>1. PICK n \in Int : n = NR_TASKS + 1 /\ 1 <= n /\ n - 1 + 1 = n
      BY <2>1
    <3>2. IsFiniteSet(1..n) /\ Cardinality(1..n) = n
      BY <3>1, FS_Interval
    <3> QED BY <3>1, <3>2
  <2>3. R \subseteq Nat
    BY <2>1
  <2> QED BY <2>1, <2>2, <2>3, MemAssumption DEF NR_TASKS
<1>2. IsFiniteSet(S) /\ Cardinality(S) <= NR_TASKS /\ Cardinality(S) \in Nat
  <2> DEFINE f == [t \in Tasks |-> PID[t]]
  <2>1. f \in Surjection(Tasks, S)
    BY DEF Surjection
  <2>2. IsFiniteSet(S) /\ Cardinality(S) <= Cardinality(Tasks)
    BY <1>1, <2>1, FS_Surjection
  <2> QED BY <1>1, <2>2, FS_CardinalityType
<1>3. \E n \in R : n \notin S
  <2> SUFFICES ASSUME R \subseteq S PROVE FALSE
    OBVIOUS
  <2>1. Cardinality(R) <= Cardinality(S)
    BY <1>2, FS_Subset
  <2> QED BY <1>1, <1>2, <2>1
<1>4. \E n \in R : \A t \in Tasks : PID[t] # n
  BY <1>3
<1>5. NewPID \in R /\ \A t \in Tasks : PID[t] # NewPID
  BY <1>4 DEF NewPID
<1> QED BY <1>1, <1>5

\* Directories other than i are as they were.
Spared(i) == \A d \in Dirs \ {i}, p \in Pages : PT'[Entry(d, p)] = PT[Entry(d, p)]

\* A fork that copied its pages into directory i, and one that could not.
Copied(c, i) ==
    /\ Spared(i) /\ Cardinality(regions[home]) <= freedinamic
    /\ \A p \in ForkPages : PT'[Entry(i, p)] # Absent
    /\ \A p \in 0..(FirstData - 1) : PT'[Entry(i, p)] = get_frame(Entry(home, p))
    /\ Owned(PT', used') /\ used \subseteq used'
    /\ pointing_dir' = [pointing_dir EXCEPT ![i] = 1]
    /\ threads' = [threads EXCEPT ![i] = {c}]
    /\ regions' = [regions EXCEPT ![i] = {[m EXCEPT !.num_pointing = 1] : m \in regions[home]}]
    /\ freedinamic' = freedinamic
            - Cardinality({[m EXCEPT !.num_pointing = 1] : m \in regions[home]})
    /\ live' = live \cup {c} /\ dir' = [dir EXCEPT ![c] = i]
    /\ PID' = [PID EXCEPT ![c] = NewPID]
    /\ stack' = [stack EXCEPT ![c] = stack[current]]
    /\ cr3' = home /\ UNCHANGED <<current, broken>>

CopyFailed(i) ==
    /\ Spared(i)
    /\ \A p \in 0..(FirstData - 1) : PT'[Entry(i, p)] = PT[Entry(i, p)]
    /\ Owned(PT', used)
    /\ pointing_dir' = [pointing_dir EXCEPT ![i] = 1]
    /\ UNCHANGED <<used, threads, regions, freedinamic, live, dir, PID, stack,
                   current, cr3, broken>>

\* The memory of a live process is lost.
Broke == broken' # "no" /\ MemTypeOK' /\ PID' \in [Tasks -> Int] /\ Owned(PT', used')

\* The pages a fork gives its child are data pages, never the code.
LEMMA ForkPagesFacts ==
    ASSUME NEW i \in Dirs, NEW E, E = EntriesOf(i, ForkPages)
    PROVE  /\ ForkPages \in SUBSET Pages /\ E \subseteq UserPart /\ E \in SUBSET Entries
           /\ \A d \in Dirs, p \in Pages : Entry(d, p) \in E <=> d = i /\ p \in ForkPages
           /\ \A p \in 0..(FirstData - 1) : p \in Pages /\ p \notin ForkPages
<1>1. ForkPages \in SUBSET Pages /\ ForkPages \subseteq FirstData..(TOTAL_PAGES - 1)
      /\ \A p \in 0..(FirstData - 1) : p \in Pages /\ p \notin ForkPages
  BY Sizes DEF ForkPages, Pages
<1> QED BY <1>1, EntriesOfFacts

\* A fork that found a slot makes a child or undoes its failed copy.
LEMMA ForkFacts ==
    ASSUME Sane, current # Idle, NEW c \in FreeTasks, NEW i \in Dirs,
           threads[i] = {}, regions[i] = {}, fork_in(c, i)
    PROVE  Copied(c, i) \/ CopyFailed(i)
<1>1. PICK E, g : E = EntriesOf(i, ForkPages) /\ g = Granted(used, E)
  OBVIOUS
<1>2. /\ E \subseteq UserPart /\ E \in SUBSET Entries
      /\ \A d \in Dirs, p \in Pages : Entry(d, p) \in E <=> d = i /\ p \in ForkPages
      /\ \A p \in 0..(FirstData - 1) : p \in Pages /\ p \notin ForkPages
      /\ ForkPages \in SUBSET Pages
  BY <1>1, ForkPagesFacts
<1>3. \A d \in Dirs, p \in Pages : Entry(d, p) \in Entries
  BY EntryFacts
<1>4. DOMAIN g \in SUBSET E /\ \A e \in DOMAIN g : g[e] \in Frames \ used
  BY <1>1, <1>2, GrantedFacts
<1>5. home \in Dirs /\ Owned(PT, used) /\ CodeFrames \subseteq used
      /\ threads \in [Dirs -> SUBSET Tasks] /\ DOMAIN regions = Dirs
  BY HomeFacts DEF Sane, MemInv, MemTypeOK, CodeThere
<1>6. Owned(Mapped(PT, g), used \cup FramesOf(g))
  BY <1>1, <1>2, <1>5, OwnedMapped
<1>7. CASE DOMAIN g = E
  <2>1. /\ PT' = Mapped(Mapped(PT, g), Shared(i)) /\ used' = used \cup FramesOf(g)
    BY <1>1, <1>7 DEF fork_in
  <2>2. /\ DOMAIN Shared(i) = EntriesOf(i, 0..(FirstData - 1))
        /\ DOMAIN Shared(i) \subseteq Entries \ UserPart
        /\ \A e \in DOMAIN Shared(i) : Shared(i)[e] \in LowValues
        /\ \A p \in 0..(FirstData - 1) : Shared(i)[Entry(i, p)] = get_frame(Entry(home, p))
    BY <1>5, SharedFacts
  <2>3. Owned(PT', used') /\ used \subseteq used'
    BY <1>6, <2>1, <2>2, OwnedShared
  <2>4. \A d \in Dirs, p \in Pages :
            Entry(d, p) \in DOMAIN Shared(i) <=> d = i /\ p \in 0..(FirstData - 1)
    <3>1. PICK S \in SUBSET Pages : S = 0..(FirstData - 1)
      BY <1>2
    <3>2. \A d \in Dirs, p \in Pages : Entry(d, p) \in EntriesOf(i, S) <=> d = i /\ p \in S
      BY EntriesOfFacts
    <3> QED BY <2>2, <3>1, <3>2
  <2>5. \A e \in Entries : PT'[e] = IF e \in DOMAIN Shared(i) THEN Shared(i)[e]
                                    ELSE IF e \in E THEN g[e] ELSE PT[e]
    BY <1>7, <2>1 DEF Mapped
  <2>6. Spared(i)
    BY <1>2, <1>3, <2>4, <2>5 DEF Spared
  <2>7. \A p \in 0..(FirstData - 1) : PT'[Entry(i, p)] = get_frame(Entry(home, p))
    BY <1>2, <1>3, <2>2, <2>4, <2>5
  <2>8. ASSUME NEW p \in ForkPages PROVE PT'[Entry(i, p)] # Absent
    <3>1. p \in Pages /\ p \notin 0..(FirstData - 1)
      BY <1>2
    <3>2. Entry(i, p) \in Entries /\ Entry(i, p) \in E /\ Entry(i, p) \notin DOMAIN Shared(i)
      BY <1>2, <1>3, <2>4, <3>1
    <3>3. PT'[Entry(i, p)] = g[Entry(i, p)] /\ g[Entry(i, p)] \in Frames
      BY <1>4, <1>7, <2>5, <3>2
    <3> QED BY <3>3, FramesFinite, EntriesFinite
  <2>9. Copied(c, i)
    BY <1>1, <1>7, <2>3, <2>6, <2>7, <2>8 DEF fork_in, Copied, ChildPID, ForkGuard
  <2> QED BY <2>9
<1>8. CASE DOMAIN g # E
  <2>1. /\ PT' = del_ss_pag(Mapped(PT, g), DOMAIN g)
        /\ threads' = [threads EXCEPT ![i] = {}] /\ regions' = [regions EXCEPT ![i] = {}]
        /\ pointing_dir' = [pointing_dir EXCEPT ![i] = 1]
        /\ UNCHANGED <<used, freedinamic, live, dir, PID, stack, cr3, current, broken>>
    BY <1>1, <1>8 DEF fork_in
  <2>2. PT' = del_ss_pag(PT, DOMAIN g)
    BY <2>1, MappedDeleted
  <2>3. Owned(PT', used)
    BY <1>5, <2>2, OwnedDel
  <2>4. \A e \in Entries : e \notin E => PT'[e] = PT[e]
    BY <1>4, <2>2 DEF del_ss_pag
  <2>5. Spared(i) /\ \A p \in 0..(FirstData - 1) : PT'[Entry(i, p)] = PT[Entry(i, p)]
    BY <1>2, <1>3, <2>4 DEF Spared
  <2>6. threads' = threads
    BY <1>5, <2>1
  <2>7. regions' = regions
    <3>1. regions \in [Dirs -> SUBSET Regions]
      BY DEF Sane, MemInv, MemTypeOK
    <3> QED BY <2>1, <3>1
  <2> QED BY <2>1, <2>3, <2>5, <2>6, <2>7 DEF CopyFailed
<1> QED BY <1>7, <1>8
-----------------------------------------------------------------------------
\* A child that shares the directory of its parent, or a parent that lost pages.
LEMMA NoDirFacts ==
    ASSUME Sane, current # Idle, NEW c \in FreeTasks, fork_no_dir(c)
    PROVE  Broke \/ UNCHANGED vars
<1>1. PICK E, g : E = EntriesOf(home, ForkPages) /\ g = Granted(used, E)
  OBVIOUS
<1>2. home \in Dirs /\ Owned(PT, used) /\ CodeFrames \subseteq used
  BY HomeFacts DEF Sane, MemInv, CodeThere
<1>3. E \subseteq UserPart /\ E \in SUBSET Entries
  BY <1>1, <1>2, ForkPagesFacts
<1>4. Owned(Mapped(PT, g), used \cup FramesOf(g))
  BY <1>1, <1>2, <1>3, OwnedMapped
<1>5. CASE DOMAIN g = E
  <2>1. /\ PT' = Mapped(Mapped(PT, g), Shared(home)) /\ used' = used \cup FramesOf(g)
        /\ live' = live \cup {c} /\ dir' = [dir EXCEPT ![c] = home]
        /\ PID' = [PID EXCEPT ![c] = NewPID]
        /\ threads' = [threads EXCEPT ![home] = @ \cup {c}]
        /\ broken' = "shared directory"
        /\ UNCHANGED <<pointing_dir, regions, freedinamic, stack, current, cr3>>
    BY <1>1, <1>5 DEF fork_no_dir, ChildPID
  <2>2. DOMAIN Shared(home) \subseteq Entries \ UserPart
        /\ \A e \in DOMAIN Shared(home) : Shared(home)[e] \in LowValues
    BY <1>2, SharedFacts
  <2>3. Owned(PT', used')
    BY <1>4, <2>1, <2>2, OwnedShared
  <2>4. NewPID \in Nat /\ PID \in [Tasks -> Int]
    BY NewPIDFacts DEF Sane, MemInv
  <2>5. c \in Tasks /\ c # Idle
    BY DEF FreeTasks
  <2>6. PID' \in [Tasks -> Int] /\ broken' # "no"
    <3>1. PICK n \in Int : n = NewPID
      BY <2>4
    <3>2. PID' = [PID EXCEPT ![c] = n]
      BY <2>1, <3>1
    <3>3. PID' \in [Tasks -> Int]
      BY <2>4, <3>2
    <3> QED BY <2>1, <3>3
  <2>7. MemTypeOK'
    BY <1>2, <2>1, <2>3, <2>5 DEF Sane, MemInv, MemTypeOK, Owned
  <2> QED BY <2>3, <2>6, <2>7 DEF Broke
<1>6. CASE DOMAIN g # E
  <2>1. /\ PT' = del_ss_pag(Mapped(PT, g), DOMAIN g)
        /\ broken' = IF g = << >> THEN "no" ELSE "shared directory"
        /\ UNCHANGED <<used, live, dir, PID, threads, pointing_dir, regions, freedinamic,
                       stack, current, cr3>>
    BY <1>1, <1>6 DEF fork_no_dir
  <2>2. PT' = del_ss_pag(PT, DOMAIN g)
    BY <2>1, MappedDeleted
  <2>3. Owned(PT', used')
    BY <1>2, <2>1, <2>2, OwnedDel
  <2>4. CASE g = << >>
    <3>1. DOMAIN g = {}
      BY <2>4
    <3>2. PT' = PT
      BY <1>2, <2>2, <3>1 DEF del_ss_pag, Owned
    <3> QED BY <2>1, <2>4, <3>2 DEF vars, Sane
  <2>5. CASE g # << >>
    <3>1. MemTypeOK'
      BY <2>1, <2>3 DEF Sane, MemInv, MemTypeOK, Owned
    <3>2. PID' \in [Tasks -> Int] /\ broken' # "no"
      BY <2>1, <2>5 DEF Sane, MemInv
    <3> QED BY <2>3, <3>1, <3>2 DEF Broke
  <2> QED BY <2>4, <2>5
<1> QED BY <1>5, <1>6

\* A stretch of free pages.
Stretch(S) ==
    /\ S \in SUBSET (FirstFree..(TOTAL_PAGES - 1))
    /\ \A p \in S : PT[Entry(home, p)] = Absent

\* A thread with stack S, and a region.
Threaded(c, S) ==
    /\ Stretch(S) /\ Taken(S)
    /\ live' = live \cup {c} /\ dir' = [dir EXCEPT ![c] = home]
    /\ PID' = [PID EXCEPT ![c] = PID[current]]
    /\ stack' = [stack EXCEPT ![c] = S]
    /\ pointing_dir' = [pointing_dir EXCEPT ![home] = @ + 1]
    /\ threads' = [threads EXCEPT ![home] = @ \cup {c}]
    /\ regions' = [regions EXCEPT ![home] = Pointed(@)]
    /\ UNCHANGED <<freedinamic, current, cr3, broken>>

Got(m) ==
    /\ m \in Regions /\ m.num_pointing = 1 /\ freedinamic > 0
    /\ Stretch(PagesOf(m)) /\ Taken(PagesOf(m)) /\ m.mem_page \in PagesOf(m)
    /\ regions' = [regions EXCEPT ![home] = @ \cup {m}]
    /\ freedinamic' = freedinamic - 1
    /\ UNCHANGED <<pointing_dir, threads, live, dir, PID, stack, current, cr3, broken>>

\* memRegGet maps one new region or changes nothing.
LEMMA GetFacts ==
    ASSUME Sane, current # Idle, NEW n \in 1..MaxPages, memRegGet(n)
    PROVE  (\E m \in Regions : Got(m)) \/ UNCHANGED vars
<1>1. PICK pag : pag = Min(Gaps(PT, home, n))
  OBVIOUS
<1>2. PICK S, m : S = pag..(pag + n - 1)
                  /\ m = [mem_page |-> pag, num_pages |-> n, num_pointing |-> 1]
  OBVIOUS
<1>3. PICK g : g = Granted(used, EntriesOf(home, S))
  OBVIOUS
<1>4. Gaps(PT, home, n) # {} /\ freedinamic > 0
  BY DEF memRegGet
<1>5. /\ pag \in FirstFree..(TOTAL_PAGES - 1) /\ pag \in Nat /\ pag + n <= TOTAL_PAGES
      /\ S \in SUBSET (FirstFree..(TOTAL_PAGES - 1))
      /\ \A p \in S : PT[Entry(home, p)] = Absent
  BY <1>1, <1>2, <1>4, GapFacts
<1>6. home \in Dirs
  BY HomeFacts
<1>7. CASE DOMAIN g = EntriesOf(home, S)
  <2>1. /\ PT' = Mapped(PT, g) /\ used' = used \cup FramesOf(g)
        /\ regions' = [regions EXCEPT ![home] = @ \cup {m}]
        /\ freedinamic' = freedinamic - 1
        /\ UNCHANGED <<pointing_dir, threads, live, dir, PID, stack, current, cr3, broken>>
    BY <1>1, <1>2, <1>3, <1>7 DEF memRegGet
  <2>2. Taken(S)
    BY <1>3, <1>5, <1>6, <1>7, <2>1, TakenFacts
  <2>3. m \in Regions /\ m.num_pointing = 1
    BY <1>2, <1>5 DEF Regions
  <2>4. PagesOf(m) = S /\ m.mem_page \in S
    BY <1>2, <1>5 DEF PagesOf
  <2>5. Stretch(S)
    BY <1>5 DEF Stretch
  <2> QED BY <1>4, <2>1, <2>2, <2>3, <2>4, <2>5 DEF Got
<1>8. CASE DOMAIN g # EntriesOf(home, S)
  <2>1. /\ PT' = del_ss_pag(Mapped(PT, g), DOMAIN g)
        /\ used' = Freed(used \cup FramesOf(g), Mapped(PT, g), DOMAIN g)
        /\ UNCHANGED <<regions, freedinamic, pointing_dir, threads, live, dir, PID, stack,
                       current, cr3, broken>>
    BY <1>1, <1>2, <1>3, <1>8 DEF memRegGet
  <2>2. PT' = PT /\ used' = used
    BY <1>3, <1>5, <1>6, <2>1, UndoneFacts
  <2> QED BY <2>1, <2>2 DEF vars
<1> QED BY <1>7, <1>8

\* A new thread maps its stack, changes nothing, or breaks its caller.
LEMMA ThreadFacts ==
    ASSUME Sane, current # Idle, NEW c \in FreeTasks, NEW n \in 1..MaxPages,
           create_thread(c, n)
    PROVE  (\E S \in SUBSET Pages : Threaded(c, S)) \/ UNCHANGED vars \/ (Broke /\ NoneDropped)
<1>1. PICK pag : pag = Min(Gaps(PT, home, n))
  OBVIOUS
<1>2. PICK S : S = pag..(pag + n - 1)
  OBVIOUS
<1>3. PICK g : g = Granted(used, EntriesOf(home, S))
  OBVIOUS
<1>4. PICK i : i = pag + Cardinality(DOMAIN g)
  OBVIOUS
<1>5. PICK clean : clean = Undone(pag, n, i)
  OBVIOUS
<1>6. Gaps(PT, home, n) # {}
  BY DEF create_thread
<1>7. /\ pag \in FirstFree..(TOTAL_PAGES - 1) /\ pag \in Nat /\ pag + n <= TOTAL_PAGES
      /\ S \in SUBSET (FirstFree..(TOTAL_PAGES - 1)) /\ S \in SUBSET Pages
      /\ \A p \in S : PT[Entry(home, p)] = Absent
  BY <1>1, <1>2, <1>6, GapFacts, Sizes DEF Pages
<1>8. home \in Dirs
  BY HomeFacts
<1>9. CASE DOMAIN g = EntriesOf(home, S)
  <2>1. /\ PT' = Mapped(PT, g) /\ used' = used \cup FramesOf(g)
        /\ live' = live \cup {c} /\ dir' = [dir EXCEPT ![c] = home]
        /\ PID' = [PID EXCEPT ![c] = PID[current]]
        /\ stack' = [stack EXCEPT ![c] = S]
        /\ pointing_dir' = [pointing_dir EXCEPT ![home] = @ + 1]
        /\ threads' = [threads EXCEPT ![home] = @ \cup {c}]
        /\ regions' = [regions EXCEPT ![home] = Pointed(@)]
        /\ UNCHANGED <<freedinamic, current, cr3, broken>>
    BY <1>1, <1>2, <1>3, <1>9 DEF create_thread, OneMoreThread
  <2>2. Taken(S)
    BY <1>3, <1>7, <1>8, <1>9, <2>1, TakenFacts
  <2>3. Threaded(c, S)
    BY <1>7, <2>1, <2>2 DEF Threaded, Stretch
  <2> QED BY <1>7, <2>3
<1>10. CASE DOMAIN g # EntriesOf(home, S)
  <2>1. /\ PT' = del_ss_pag(Mapped(PT, g), clean)
        /\ used' = Freed(used \cup FramesOf(g), Mapped(PT, g), clean \cap Entries)
        /\ broken' = IF \E e \in clean \ DOMAIN g : e \notin Entries \/ Mapped(PT, g)[e] # Absent
                     THEN "overrun" ELSE "no"
        /\ UNCHANGED <<live, dir, PID, stack, pointing_dir, threads, regions,
                       freedinamic, current, cr3>>
    BY <1>1, <1>2, <1>3, <1>4, <1>5, <1>10 DEF create_thread
  <2>2. /\ EntriesOf(home, S) \in SUBSET Entries /\ EntriesOf(home, S) \subseteq UserPart
        /\ DOMAIN g \in SUBSET EntriesOf(home, S)
    <3>1. S \subseteq FirstData..(TOTAL_PAGES - 1)
      BY <1>7, Sizes
    <3>2. EntriesOf(home, S) \in SUBSET Entries /\ EntriesOf(home, S) \subseteq UserPart
      BY <1>7, <1>8, <3>1, EntriesOfFacts
    <3> QED BY <1>3, <3>2, GrantedFacts
  <2>3. \A e \in Entries \ DOMAIN g : Mapped(PT, g)[e] = PT[e]
    BY DEF Mapped
  <2>4. CASE \E e \in clean \ DOMAIN g : e \notin Entries \/ Mapped(PT, g)[e] # Absent
    <3>1. Owned(PT, used) /\ CodeFrames \subseteq used
      BY DEF Sane, MemInv, CodeThere
    <3>2. PICK pt, u, K : pt = Mapped(PT, g) /\ u = used \cup FramesOf(g) /\ K = clean \cap Entries
      OBVIOUS
    <3>3. Owned(pt, u)
      BY <1>3, <2>2, <3>1, <3>2, OwnedMapped
    <3>4. PT' = del_ss_pag(pt, K) /\ used' = Freed(u, pt, K) /\ K \in SUBSET Entries
      BY <2>1, <3>2 DEF del_ss_pag
    <3>5. Owned(PT', used')
      BY <3>3, <3>4, OwnedFreed
    <3>6. MemTypeOK'
      BY <2>1, <3>5 DEF Sane, MemInv, MemTypeOK, Owned
    <3>7. PID' \in [Tasks -> Int] /\ broken' # "no"
      BY <2>1, <2>4 DEF Sane, MemInv
    <3>8. PICK k \in CodePages : Code(k) = NUM_PAG_KERNEL
      BY CodeFacts, CodeIs
    <3>9. Entry(home, k) \in Entries /\ Entry(home, k) \notin clean
          /\ Entry(home, k) \notin DOMAIN g
      <4>1. PICK z \in Nat : z = Entry(home, 0)
        BY <1>7, <1>8, EntriesOfRun
      <4>2. k \in Nat /\ k < pag /\ k \in Pages /\ home \in Dirs
        BY <1>7, <1>8, CodeIs, Sizes
      <4>3. Entry(home, pag) = z + pag /\ Entry(home, k) = z + k
        BY <1>7, <4>1, <4>2, EntriesOfRun
      <4>4. Entry(home, k) < Entry(home, pag) /\ Entry(home, k) \in Entries
        BY <1>7, <4>2, <4>3, EntryFacts
      <4>5. clean = Entry(home, pag)..Entry(home, pag + n + i - 1)
        BY <1>5 DEF Undone
      <4>6. DOMAIN g \subseteq Entry(home, pag)..Entry(home, pag + n - 1)
        <5>1. pag + n - 1 \in Int
          BY <1>7
        <5> QED BY <1>2, <1>7, <1>8, <2>2, <5>1, EntriesOfRun
      <4>7. Entry(home, k) \in Nat /\ Entry(home, pag) \in Nat
        BY <1>7, <4>2, <4>3
      <4> QED BY <4>4, <4>5, <4>6, <4>7
    <3>10. del_ss_pag(pt, K)[Entry(home, k)] = NUM_PAG_KERNEL
      <4>1. PT[Entry(home, k)] = NUM_PAG_KERNEL
        BY <3>8, HomeFacts DEF Sane, MemInv, CodeThere, home
      <4> QED BY <2>3, <3>2, <3>9, <4>1 DEF del_ss_pag
    <3>11. Dropped(u, pt) \subseteq Dropped(used, PT)
      <4>1. \A e \in EntriesOf(home, S) : PT[e] = Absent
        BY <1>7 DEF EntriesOf
      <4> QED BY <1>3, <2>2, <3>1, <3>2, <4>1, DroppedMapped DEF Owned
    <3>12. Dropped(used', PT') \subseteq Dropped(u, pt)
      <4>1. u \subseteq Frames
        BY <3>3 DEF Owned
      <4> QED BY <3>4, <3>9, <3>10, <4>1, DroppedFreed
    <3>13. NoneDropped
      BY <3>11, <3>12 DEF NoneDropped
    <3> QED BY <3>5, <3>6, <3>7, <3>13 DEF Broke
  <2>5. CASE ~ \E e \in clean \ DOMAIN g : e \notin Entries \/ Mapped(PT, g)[e] # Absent
    <3>1. \A e \in clean \ DOMAIN g : e \in Entries /\ PT[e] = Absent
      BY <2>3, <2>5
    <3>2. DOMAIN g \subseteq clean
      <4>1. EntriesOf(home, S) = Entry(home, pag)..Entry(home, pag + n - 1)
            /\ Entry(home, pag) = Entry(home, 0) + pag
            /\ Entry(home, 0) \in Nat
        BY <1>2, <1>7, <1>8, EntriesOfRun
      <4>2. IsFiniteSet(DOMAIN g) /\ Cardinality(DOMAIN g) \in Nat
        BY <2>2, EntriesFinite, FS_Subset, FS_CardinalityType
      <4>3. i \in Nat /\ n \in Nat /\ pag + n - 1 \in Nat /\ pag + n + i - 1 \in Nat
            /\ pag + n - 1 <= pag + n + i - 1
        BY <1>4, <1>7, <4>2, Sizes
      <4>4. Entry(home, pag + n - 1) = Entry(home, 0) + (pag + n - 1)
            /\ Entry(home, pag + n + i - 1) = Entry(home, 0) + (pag + n + i - 1)
        BY <1>8, <4>3, EntriesOfRun
      <4>5. \A e \in EntriesOf(home, S) : e \in clean
        BY <1>5, <1>7, <4>1, <4>3, <4>4 DEF Undone
      <4> QED BY <2>2, <4>5
    <3>3. clean \cap Entries = clean
      BY <2>2, <3>1
    <3>4. PT' = PT /\ used' = used
      BY <1>3, <1>7, <1>8, <2>1, <3>1, <3>2, <3>3, UndoneFacts
    <3>5. broken' = broken
      BY <2>1, <2>5 DEF Sane
    <3> QED BY <2>1, <3>4, <3>5 DEF vars
  <2> QED BY <2>4, <2>5
<1> QED BY <1>9, <1>10
-----------------------------------------------------------------------------
\* The pages of a region lie behind the program.
LEMMA PagesOfFacts ==
    ASSUME NEW m \in Regions
    PROVE  PagesOf(m) \in SUBSET (FirstFree..(TOTAL_PAGES - 1)) /\ m.mem_page \in PagesOf(m)
<1>1. /\ m.mem_page \in FirstFree..(TOTAL_PAGES - 1) /\ m.num_pages \in 1..MaxPages
      /\ m.mem_page + m.num_pages <= TOTAL_PAGES
  BY DEF Regions
<1> QED BY <1>1, Sizes DEF PagesOf

\* A region of the caller is given back.
Deleted(m) ==
    /\ GivenBack(PagesOf(m))
    /\ regions' = [regions EXCEPT ![home] = @ \ {m}]
    /\ freedinamic' = freedinamic + 1 /\ cr3' = home
    /\ UNCHANGED <<pointing_dir, threads, live, dir, PID, stack, current, broken>>

\* memRegDel unmaps the region and frees its frames.
LEMMA DeleteFacts ==
    ASSUME Sane, current # Idle, NEW m \in regions[home], memRegDel(m)
    PROVE  Deleted(m)
<1>1. home \in Dirs /\ m \in Regions
  BY HomeFacts DEF Sane, MemInv, MemTypeOK
<1>2. PagesOf(m) \in SUBSET (FirstData..(TOTAL_PAGES - 1))
  BY <1>1, PagesOfFacts, Sizes
<1>3. PT' = del_ss_pag(PT, EntriesOf(home, PagesOf(m)))
      /\ used' = Freed(used, PT, EntriesOf(home, PagesOf(m)))
  BY DEF memRegDel, RegionEntries
<1>4. GivenBack(PagesOf(m))
  BY <1>1, <1>2, <1>3, GivenBackFacts
<1> QED BY <1>4 DEF memRegDel, Deleted

\* What an exit gives back.
ExitPages ==
    stack[current] \cup (IF threads[home] = {current} THEN DataPages ELSE {})
        \cup UNION {PagesOf(m) : m \in Dead(regions[home])}

Left ==
    /\ GivenBack(ExitPages) /\ ExitPages \subseteq FirstData..(TOTAL_PAGES - 1)
    /\ pointing_dir' = [pointing_dir EXCEPT ![home] = @ - 1]
    /\ threads' = [threads EXCEPT ![home] = @ \ {current}]
    /\ regions' = [regions EXCEPT ![home] =
            {[m EXCEPT !.num_pointing = @ - 1] : m \in @ \ Dead(@)}]
    /\ freedinamic' = freedinamic + Cardinality(Dead(regions[home]))
    /\ live' = live \ {current}
    /\ PID' = [PID EXCEPT ![current] = -1]
    /\ dir' = [dir EXCEPT ![current] = 0] /\ stack' = [stack EXCEPT ![current] = {}]
    /\ current' \in live' \cup {Idle} /\ cr3' = dir[current']
    /\ UNCHANGED broken

\* sys_exit takes one thread away and, with the last, its directory's frames.
LEMMA ExitFacts ==
    ASSUME Sane, current # Idle, sys_exit
    PROVE  Left
<1>1. /\ home \in Dirs /\ current \in threads[home] /\ threads \in [Dirs -> SUBSET Tasks]
      /\ stack[current] \subseteq FirstFree..(TOTAL_PAGES - 1)
      /\ regions[home] \subseteq Regions
  BY HomeFacts DEF Sane, MemInv, MemTypeOK
<1>2. threads'[home] = {} <=> threads[home] = {current}
  <2>1. threads'[home] = threads[home] \ {current}
    BY <1>1 DEF sys_exit
  <2> QED BY <1>1, <2>1
<1>3. Dead(regions[home]) \subseteq regions[home]
  BY DEF Dead
<1>4. ExitPages \in SUBSET (FirstData..(TOTAL_PAGES - 1))
  <2>1. FirstFree..(TOTAL_PAGES - 1) \subseteq FirstData..(TOTAL_PAGES - 1)
        /\ DataPages \subseteq FirstData..(TOTAL_PAGES - 1)
    BY Sizes DEF DataPages
  <2>2. \A m \in Dead(regions[home]) : PagesOf(m) \subseteq FirstFree..(TOTAL_PAGES - 1)
    BY <1>1, <1>3, PagesOfFacts
  <2> QED BY <1>1, <2>1, <2>2 DEF ExitPages
<1>5. PICK own, D : /\ own = IF threads[home] = {current} THEN DataPages ELSE {}
                    /\ D = Dead(regions[home])
  OBVIOUS
<1>6. PICK E : E = EntriesOf(home, stack[current] \cup own) \cup UNION {RegionEntries(m) : m \in D}
  OBVIOUS
<1>7. PT' = del_ss_pag(PT, E) /\ used' = Freed(used, PT, E)
  BY <1>2, <1>5, <1>6 DEF sys_exit
<1>8. E = EntriesOf(home, ExitPages)
  <2>1. \A e : e \in EntriesOf(home, stack[current] \cup own)
                 <=> \E p \in stack[current] \cup own : e = Entry(home, p)
    BY DEF EntriesOf
  <2>2. \A m, e : e \in RegionEntries(m) <=> \E p \in PagesOf(m) : e = Entry(home, p)
    BY DEF EntriesOf, RegionEntries
  <2>3. \A e : e \in UNION {RegionEntries(m) : m \in D}
                 <=> \E m \in D : \E p \in PagesOf(m) : e = Entry(home, p)
    BY <2>2
  <2>4. \A p : p \in ExitPages
                 <=> p \in stack[current] \cup own \/ \E m \in D : p \in PagesOf(m)
    BY <1>5 DEF ExitPages
  <2>5. \A e : e \in EntriesOf(home, ExitPages) <=> \E p \in ExitPages : e = Entry(home, p)
    BY DEF EntriesOf
  <2>6. \A e : e \in E <=> e \in EntriesOf(home, ExitPages)
    BY <1>6, <2>1, <2>3, <2>4, <2>5
  <2> QED BY <2>6
<1>9. GivenBack(ExitPages)
  BY <1>1, <1>4, <1>7, <1>8, GivenBackFacts
<1>10. current' \in live' \cup {Idle} /\ cr3' = dir[current']
  <2>1. PICK t \in live' \cup {Idle} : current' = t /\ cr3' = set_cr3(-1, t)
    BY DEF sys_exit
  <2>2. t \in live \cup {Idle}
    BY <2>1 DEF sys_exit
  <2>3. PID[t] \in Nat
    BY <2>2 DEF Sane, MemInv, PidsTell
  <2> QED BY <2>1, <2>3 DEF set_cr3
<1> QED BY <1>4, <1>9, <1>10 DEF sys_exit, Left, OneThreadLess

\* Every step changes nothing, breaks the model, or has one of these outcomes.
Worked ==
    \/ current # Idle /\ \E c \in FreeTasks, i \in Dirs :
            /\ i # home /\ FreeDirs # {} /\ i = Min(FreeDirs)
            /\ Copied(c, i) \/ (sys_fork(c) /\ CopyFailed(i))
    \/ current # Idle /\ \E c \in FreeTasks, S \in SUBSET Pages : Threaded(c, S)
    \/ current # Idle /\ \E m \in Regions : Got(m)
    \/ current # Idle /\ \E m \in regions[home] : Deleted(m)
    \/ current # Idle /\ Left
    \/ \E t \in live \cup {Idle} : task_switch(t)

\* Every step changes nothing, breaks, or does one of these things.
LEMMA Outcomes ==
    ASSUME Sane, Next
    PROVE  UNCHANGED vars \/ (current # Idle /\ Broke) \/ Worked
<1>1. CASE Syscall
  <2>1. ASSUME NEW c \in FreeTasks, sys_fork(c)
        PROVE  \/ UNCHANGED vars \/ Broke
               \/ \E i \in Dirs : /\ i # home /\ FreeDirs # {} /\ i = Min(FreeDirs)
                                  /\ Copied(c, i) \/ (sys_fork(c) /\ CopyFailed(i))
    <3>1. CASE fork_no_dir(c)
      BY <1>1, <3>1, NoDirFacts DEF Syscall
    <3>2. CASE FreeDirs # {} /\ fork_in(c, Min(FreeDirs))
      <4>1. PICK i : i = Min(FreeDirs)
        OBVIOUS
      <4>2. i \in Dirs /\ threads[i] = {} /\ regions[i] = {} /\ \A t \in live : dir[t] # i
        BY <3>2, <4>1, FreeDirFacts
      <4>3. i # home
        BY <1>1, <4>2, HomeFacts DEF Syscall, home
      <4>4. Copied(c, i) \/ CopyFailed(i)
        BY <1>1, <3>2, <4>1, <4>2, ForkFacts DEF Syscall
      <4> QED BY <2>1, <3>2, <4>1, <4>2, <4>3, <4>4
    <3> QED BY <2>1, <3>1, <3>2 DEF sys_fork
  <2>2. ASSUME NEW c \in FreeTasks, NEW n \in 1..MaxPages, create_thread(c, n)
        PROVE  (\E S \in SUBSET Pages : Threaded(c, S)) \/ UNCHANGED vars \/ Broke
    BY <1>1, <2>2, ThreadFacts DEF Syscall
  <2>3. ASSUME NEW n \in 1..MaxPages, memRegGet(n)
        PROVE  (\E m \in Regions : Got(m)) \/ UNCHANGED vars
    BY <1>1, <2>3, GetFacts DEF Syscall
  <2>4. ASSUME NEW m \in regions[home], memRegDel(m) PROVE Deleted(m)
    BY <1>1, <2>4, DeleteFacts DEF Syscall
  <2>5. ASSUME sys_exit PROVE Left
    BY <1>1, <2>5, ExitFacts DEF Syscall
  <2> QED BY <1>1, <2>1, <2>2, <2>3, <2>4, <2>5 DEF Syscall, Worked
<1>2. CASE \E t \in live \cup {Idle} : task_switch(t)
  BY <1>2 DEF Worked
<1>3. CASE Stopped
  BY <1>3 DEF Stopped
<1> QED BY <1>1, <1>2, <1>3 DEF Next
-----------------------------------------------------------------------------
(* What every call that works preserves: processes and their directories.   *)

\* What a state that is not broken has, unfolded once.
LEMMA SaneFacts ==
    ASSUME Sane
    PROVE  /\ used \subseteq Frames /\ pointing_dir \in [Dirs -> 0..NR_TASKS]
           /\ threads \in [Dirs -> SUBSET Tasks] /\ regions \in [Dirs -> SUBSET Regions]
           /\ freedinamic \in 0..MAX_DIN /\ live \subseteq Tasks \ {Idle}
           /\ dir \in [Tasks -> Dirs] /\ PID \in [Tasks -> Int]
           /\ stack \in [Tasks -> SUBSET (FirstFree..(TOTAL_PAGES - 1))]
           /\ current \in live \cup {Idle} /\ current \in Tasks /\ Idle \in Tasks
           /\ cr3 = dir[current] /\ broken = "no"
           /\ \A i \in Dirs : IsFiniteSet(regions[i]) /\ IsFiniteSet(threads[i])
<1>1. /\ used \subseteq Frames /\ pointing_dir \in [Dirs -> 0..NR_TASKS]
      /\ threads \in [Dirs -> SUBSET Tasks] /\ regions \in [Dirs -> SUBSET Regions]
      /\ freedinamic \in 0..MAX_DIN /\ live \subseteq Tasks \ {Idle}
      /\ dir \in [Tasks -> Dirs] /\ PID \in [Tasks -> Int]
      /\ stack \in [Tasks -> SUBSET (FirstFree..(TOTAL_PAGES - 1))]
      /\ current \in live \cup {Idle} /\ cr3 = dir[current] /\ broken = "no"
      /\ \A i \in Dirs : IsFiniteSet(regions[i])
  BY DEF Sane, MemInv, MemTypeOK, LoadedSpace, RegionsFinite
<1>2. \A i \in Dirs : IsFiniteSet(threads[i])
  BY <1>1, MemAssumption, FS_Subset
<1> QED BY <1>1, <1>2, MemAssumption

\* Live processes keep the directory their PID tells.
LEMMA PidsKept ==
    ASSUME Sane, Worked
    PROVE  PidsTell' /\ LoadedSpace'
<1>1. /\ current \in live \cup {Idle} /\ current \in Tasks /\ live \subseteq Tasks \ {Idle}
      /\ dir \in [Tasks -> Dirs] /\ PID \in [Tasks -> Int] /\ cr3 = dir[current]
      /\ Idle \in Tasks
  BY SaneFacts
<1>2. /\ \A t \in live \cup {Idle} : PID[t] \in Nat
      /\ \A t, u \in live \cup {Idle} : PID[t] = PID[u] => dir[t] = dir[u]
  BY DEF Sane, MemInv, PidsTell
<1>3. ASSUME NEW c \in FreeTasks, NEW i \in Dirs, Copied(c, i)
      PROVE  PidsTell' /\ LoadedSpace'
  <2>1. c \in Tasks /\ c # Idle /\ c \notin live
    BY DEF FreeTasks
  <2>2. NewPID \in Nat /\ \A t \in Tasks : PID[t] # NewPID
    BY <1>1, NewPIDFacts
  <2>3. /\ live' = live \cup {c} /\ dir' = [dir EXCEPT ![c] = i]
        /\ PID' = [PID EXCEPT ![c] = NewPID]
        /\ cr3' = home /\ current' = current
    BY <1>3 DEF Copied
  <2>4. \A t \in live \cup {Idle} : PID'[t] = PID[t] /\ dir'[t] = dir[t] /\ t \in Tasks
    BY <1>1, <2>1, <2>3
  <2>5. PID'[c] = NewPID
    BY <1>1, <2>1, <2>3
  <2>6. PidsTell'
    BY <1>2, <2>2, <2>3, <2>4, <2>5 DEF PidsTell
  <2> QED BY <1>1, <2>3, <2>4, <2>6 DEF LoadedSpace, home
<1>4. ASSUME NEW i \in Dirs, CopyFailed(i) PROVE PidsTell' /\ LoadedSpace'
  BY <1>1, <1>2, <1>4 DEF CopyFailed, PidsTell, LoadedSpace
<1>5. ASSUME current # Idle, NEW c \in FreeTasks, NEW S, Threaded(c, S)
      PROVE  PidsTell' /\ LoadedSpace'
  <2>1. c \in Tasks /\ c # Idle /\ c \notin live
    BY DEF FreeTasks
  <2>2. /\ live' = live \cup {c} /\ dir' = [dir EXCEPT ![c] = home]
        /\ PID' = [PID EXCEPT ![c] = PID[current]]
        /\ cr3' = cr3 /\ current' = current
    BY <1>5 DEF Threaded
  <2>3. \A t \in live \cup {Idle} : PID'[t] = PID[t] /\ dir'[t] = dir[t]
    BY <1>1, <2>1, <2>2
  <2>4. PID'[c] = PID[current] /\ dir'[c] = dir[current]
    BY <1>1, <2>1, <2>2 DEF home
  <2> QED BY <1>1, <1>2, <2>2, <2>3, <2>4 DEF PidsTell, LoadedSpace
<1>6. ASSUME NEW m, Got(m) PROVE PidsTell' /\ LoadedSpace'
  BY <1>1, <1>2, <1>6 DEF Got, PidsTell, LoadedSpace
<1>7. ASSUME NEW m, Deleted(m) PROVE PidsTell' /\ LoadedSpace'
  BY <1>1, <1>2, <1>7 DEF Deleted, PidsTell, LoadedSpace, home
<1>8. ASSUME current # Idle, Left PROVE PidsTell' /\ LoadedSpace'
  <2>1. /\ live' = live \ {current} /\ PID' = [PID EXCEPT ![current] = -1]
        /\ dir' = [dir EXCEPT ![current] = 0]
        /\ current' \in live' \cup {Idle} /\ cr3' = dir[current']
    BY <1>8 DEF Left
  <2>2. \A t \in live' \cup {Idle} : /\ t \in live \cup {Idle}
                                     /\ PID'[t] = PID[t] /\ dir'[t] = dir[t]
    BY <1>1, <1>8, <2>1
  <2> QED BY <1>2, <2>1, <2>2 DEF PidsTell, LoadedSpace
<1>9. ASSUME NEW t \in live \cup {Idle}, task_switch(t) PROVE PidsTell' /\ LoadedSpace'
  <2>1. /\ current' = t /\ cr3' = IF PID[current] # PID[t] THEN dir[t] ELSE cr3
        /\ UNCHANGED <<live, dir, PID>>
    BY <1>9 DEF task_switch, set_cr3
  <2>2. cr3' = dir[t]
    BY <1>1, <1>2, <2>1
  <2> QED BY <1>2, <2>1, <2>2 DEF PidsTell, LoadedSpace
<1> QED BY <1>3, <1>4, <1>5, <1>6, <1>7, <1>8, <1>9 DEF Worked

\* A directory's count and list of threads.
Listed(i) ==
    /\ threads[i] = {u \in live : dir[u] = i}
    /\ threads[i] # {} => pointing_dir[i] = Cardinality(threads[i])

\* The threads of a directory stay the live tasks that use it.
LEMMA ThreadsKept ==
    ASSUME Sane, Worked
    PROVE  ThreadsTell'
<1>1. /\ pointing_dir \in [Dirs -> 0..NR_TASKS]
      /\ threads \in [Dirs -> SUBSET Tasks] /\ live \subseteq Tasks \ {Idle}
      /\ dir \in [Tasks -> Dirs] /\ current \in Tasks
      /\ \A i \in Dirs : IsFiniteSet(threads[i])
  BY SaneFacts
<1>2. \A i \in Dirs : Listed(i)
  BY DEF Sane, MemInv, ThreadsTell, Listed
<1>3. SUFFICES \A j \in Dirs : Listed(j)'
  BY DEF ThreadsTell, Listed
<1>4. ASSUME NEW c \in FreeTasks, NEW i \in Dirs, FreeDirs # {}, i = Min(FreeDirs), Copied(c, i),
             NEW j \in Dirs
      PROVE  Listed(j)'
  <2>1. c \in Tasks /\ c \notin live
    BY DEF FreeTasks
  <2>2. \A t \in live : dir[t] # i
    BY <1>4, FreeDirFacts
  <2>3. /\ live' = live \cup {c} /\ dir' = [dir EXCEPT ![c] = i]
        /\ threads' = [threads EXCEPT ![i] = {c}]
        /\ pointing_dir' = [pointing_dir EXCEPT ![i] = 1]
    BY <1>4 DEF Copied
  <2>4. dir'[c] = i /\ \A t \in live : dir'[t] = dir[t]
    BY <1>1, <2>1, <2>3
  <2>5. CASE j = i
    <3>1. threads'[j] = {c} /\ pointing_dir'[j] = 1
      BY <1>1, <2>3, <2>5
    <3> QED BY <2>2, <2>3, <2>4, <2>5, <3>1, FS_Singleton DEF Listed
  <2>6. CASE j # i
    <3>1. threads'[j] = threads[j] /\ pointing_dir'[j] = pointing_dir[j]
      BY <1>1, <2>3, <2>6
    <3> QED BY <1>2, <2>3, <2>4, <2>6, <3>1 DEF Listed
  <2> QED BY <2>5, <2>6
<1>5. ASSUME NEW i \in Dirs, FreeDirs # {}, i = Min(FreeDirs), CopyFailed(i), NEW j \in Dirs
      PROVE  Listed(j)'
  <2>1. threads[i] = {}
    BY <1>5, FreeDirFacts
  <2>2. UNCHANGED <<threads, live, dir>> /\ pointing_dir' = [pointing_dir EXCEPT ![i] = 1]
    BY <1>5 DEF CopyFailed
  <2>3. j # i => pointing_dir'[j] = pointing_dir[j]
    BY <1>1, <2>2
  <2> QED BY <1>2, <2>1, <2>2, <2>3 DEF Listed
<1>6. ASSUME current # Idle, NEW c \in FreeTasks, NEW S, Threaded(c, S), NEW j \in Dirs
      PROVE  Listed(j)'
  <2>1. c \in Tasks /\ c \notin live
    BY DEF FreeTasks
  <2>2. /\ home \in Dirs /\ Cardinality(threads[home]) \in Nat
        /\ pointing_dir[home] = Cardinality(threads[home])
    BY <1>6, HomeFacts
  <2>3. /\ live' = live \cup {c} /\ dir' = [dir EXCEPT ![c] = home]
        /\ threads' = [threads EXCEPT ![home] = @ \cup {c}]
        /\ pointing_dir' = [pointing_dir EXCEPT ![home] = @ + 1]
    BY <1>6 DEF Threaded
  <2>4. dir'[c] = home /\ \A t \in live : dir'[t] = dir[t]
    BY <1>1, <2>1, <2>3
  <2>5. CASE j = home
    <3>1. threads'[j] = threads[j] \cup {c} /\ pointing_dir'[j] = pointing_dir[j] + 1
      BY <1>1, <2>3, <2>5
    <3>2. c \notin threads[j]
      BY <1>2, <2>1 DEF Listed
    <3>3. Cardinality(threads[j] \cup {c}) = Cardinality(threads[j]) + 1
      BY <1>1, <3>2, FS_AddElement
    <3>4. threads'[j] = {u \in live' : dir'[u] = j}
      BY <1>2, <2>3, <2>4, <2>5, <3>1 DEF Listed
    <3> QED BY <2>2, <2>5, <3>1, <3>3, <3>4 DEF Listed
  <2>6. CASE j # home
    <3>1. threads'[j] = threads[j] /\ pointing_dir'[j] = pointing_dir[j]
      BY <1>1, <2>3, <2>6
    <3> QED BY <1>2, <2>3, <2>4, <2>6, <3>1 DEF Listed
  <2> QED BY <2>5, <2>6
<1>7. ASSUME NEW m, Got(m), NEW j \in Dirs PROVE Listed(j)'
  BY <1>2, <1>7 DEF Got, Listed
<1>8. ASSUME NEW m, Deleted(m), NEW j \in Dirs PROVE Listed(j)'
  BY <1>2, <1>8 DEF Deleted, Listed
<1>9. ASSUME current # Idle, Left, NEW j \in Dirs PROVE Listed(j)'
  <2>1. /\ home \in Dirs /\ Cardinality(threads[home]) \in Nat /\ current \in threads[home]
        /\ pointing_dir[home] = Cardinality(threads[home])
    BY <1>9, HomeFacts
  <2>2. /\ live' = live \ {current} /\ dir' = [dir EXCEPT ![current] = 0]
        /\ threads' = [threads EXCEPT ![home] = @ \ {current}]
        /\ pointing_dir' = [pointing_dir EXCEPT ![home] = @ - 1]
    BY <1>9 DEF Left
  <2>3. \A t \in live' : t \in live /\ t # current /\ dir'[t] = dir[t]
    BY <1>1, <2>2
  <2>4. CASE j = home
    <3>1. threads'[j] = threads[j] \ {current} /\ pointing_dir'[j] = pointing_dir[j] - 1
      BY <1>1, <2>2, <2>4
    <3>2. Cardinality(threads[j] \ {current}) = Cardinality(threads[j]) - 1
      BY <1>1, <2>1, <2>4, FS_RemoveElement
    <3>3. threads'[j] = {u \in live' : dir'[u] = j}
      BY <1>2, <2>2, <2>3, <3>1 DEF Listed
    <3> QED BY <2>1, <2>4, <3>1, <3>2, <3>3 DEF Listed
  <2>5. CASE j # home
    <3>1. threads'[j] = threads[j] /\ pointing_dir'[j] = pointing_dir[j]
      BY <1>1, <2>2, <2>5
    <3>2. threads'[j] = {u \in live' : dir'[u] = j}
      BY <1>2, <2>2, <2>3, <2>5, <3>1 DEF Listed, home
    <3> QED BY <1>2, <3>1, <3>2 DEF Listed
  <2> QED BY <2>4, <2>5
<1>10. ASSUME NEW t, task_switch(t), NEW j \in Dirs PROVE Listed(j)'
  BY <1>2, <1>10 DEF task_switch, Listed
<1> QED BY <1>4, <1>5, <1>6, <1>7, <1>8, <1>9, <1>10 DEF Worked
-----------------------------------------------------------------------------
(* The program, the data, the stacks and the regions of every process.      *)

\* The caller got or gave back pages beyond its program.
Touched(S) ==
    /\ CodeFrames \subseteq used'
    /\ \A d \in Dirs, p \in Pages :
            ~(d = home /\ p \in S) => PT'[Entry(d, p)] = PT[Entry(d, p)]

CodeOf(d) == \A pag \in CodePages : PT[Entry(d, pag)] = Code(pag)

\* Touching pages above the code leaves a directory its code.
LEMMA CodeKeptTouched ==
    ASSUME Sane, home \in Dirs, NEW S \in SUBSET (FirstData..(TOTAL_PAGES - 1)), Touched(S),
           NEW d \in Dirs, CodeOf(d)
    PROVE  CodeOf(d)'
<1>1. \A pag \in CodePages : pag \in Pages /\ pag \notin S
  BY CodeIs, Sizes
<1> QED BY <1>1 DEF Touched, CodeOf

\* No call that works takes the code from a live directory.
LEMMA CodeStays ==
    ASSUME Sane, Worked
    PROVE  CodeThere'
<1>1. /\ live \subseteq Tasks /\ dir \in [Tasks -> Dirs] /\ current \in Tasks
      /\ current # Idle => current \in live
      /\ home \in Dirs
  BY SaneFacts DEF home
<1>2. /\ CodeFrames \subseteq used /\ 2 \in Dirs /\ CodeOf(2)
      /\ \A t \in live : dir[t] \in Dirs /\ CodeOf(dir[t])
  BY <1>1, CodeFacts DEF Sane, MemInv, CodeThere, CodeOf
<1>3. SUFFICES /\ CodeFrames \subseteq used' /\ CodeOf(2)'
               /\ \A t \in live' : \A pag \in CodePages : PT'[Entry(dir'[t], pag)] = Code(pag)
  BY DEF CodeThere, CodeOf
<1>4. ASSUME NEW S \in SUBSET (FirstData..(TOTAL_PAGES - 1)), Touched(S)
      PROVE  CodeFrames \subseteq used' /\ \A d \in Dirs : CodeOf(d) => CodeOf(d)'
  BY <1>1, <1>4, CodeKeptTouched DEF Touched
<1>5. ASSUME current # Idle, NEW c \in FreeTasks, NEW i \in Dirs, i # home, Copied(c, i)
      PROVE  /\ CodeFrames \subseteq used' /\ CodeOf(2)'
             /\ \A t \in live' : \A pag \in CodePages : PT'[Entry(dir'[t], pag)] = Code(pag)
  <2>1. c \in Tasks /\ c \notin live
    BY DEF FreeTasks
  <2>2. /\ Spared(i) /\ used \subseteq used'
        /\ \A p \in 0..(FirstData - 1) : PT'[Entry(i, p)] = get_frame(Entry(home, p))
        /\ live' = live \cup {c} /\ dir' = [dir EXCEPT ![c] = i]
    BY <1>5 DEF Copied
  <2>3. \A pag \in CodePages : /\ pag \in Pages /\ pag \in 0..(FirstData - 1)
                               /\ Code(pag) # Absent
    BY CodeIs
  <2>4. CodeOf(home)
    BY <1>1, <1>2, <1>5 DEF home
  <2>5. \A pag \in CodePages : PT'[Entry(i, pag)] = Code(pag)
    BY <2>2, <2>3, <2>4 DEF CodeOf, get_frame
  <2>6. \A d \in Dirs : d # i /\ CodeOf(d)
            => \A pag \in CodePages : PT'[Entry(d, pag)] = Code(pag)
    BY <2>2, <2>3 DEF Spared, CodeOf
  <2>7. dir'[c] = i /\ \A t \in live : dir'[t] = dir[t]
    BY <1>1, <2>1, <2>2
  <2>8. \A t \in live' : \A pag \in CodePages : PT'[Entry(dir'[t], pag)] = Code(pag)
    BY <1>2, <2>2, <2>5, <2>6, <2>7
  <2>9. CodeOf(2)'
    BY <1>2, <2>5, <2>6 DEF CodeOf
  <2> QED BY <1>2, <2>2, <2>8, <2>9
<1>6. ASSUME NEW i \in Dirs, CopyFailed(i)
      PROVE  /\ CodeFrames \subseteq used' /\ CodeOf(2)'
             /\ \A t \in live' : \A pag \in CodePages : PT'[Entry(dir'[t], pag)] = Code(pag)
  <2>1. /\ Spared(i) /\ used' = used /\ live' = live /\ dir' = dir
        /\ \A p \in 0..(FirstData - 1) : PT'[Entry(i, p)] = PT[Entry(i, p)]
    BY <1>6 DEF CopyFailed
  <2>2. \A pag \in CodePages : pag \in Pages /\ pag \in 0..(FirstData - 1)
    BY CodeIs
  <2>3. \A d \in Dirs, pag \in CodePages : PT'[Entry(d, pag)] = PT[Entry(d, pag)]
    BY <2>1, <2>2 DEF Spared
  <2> QED BY <1>2, <2>1, <2>3 DEF CodeOf
<1>7. ASSUME current # Idle, NEW c \in FreeTasks, NEW S, Threaded(c, S)
      PROVE  /\ CodeFrames \subseteq used' /\ CodeOf(2)'
             /\ \A t \in live' : \A pag \in CodePages : PT'[Entry(dir'[t], pag)] = Code(pag)
  <2>1. c \in Tasks /\ c \notin live
    BY DEF FreeTasks
  <2>2. /\ S \in SUBSET (FirstData..(TOTAL_PAGES - 1)) /\ Touched(S)
        /\ live' = live \cup {c} /\ dir' = [dir EXCEPT ![c] = home]
    BY <1>2, <1>7, Sizes DEF Threaded, Stretch, Taken, Touched
  <2>3. CodeFrames \subseteq used' /\ \A d \in Dirs : CodeOf(d) => CodeOf(d)'
    BY <1>4, <2>2
  <2>4. dir'[c] = home /\ CodeOf(home) /\ \A t \in live : dir'[t] = dir[t]
    BY <1>1, <1>2, <1>7, <2>1, <2>2 DEF home
  <2> QED BY <1>1, <1>2, <2>2, <2>3, <2>4 DEF CodeOf
<1>8. ASSUME NEW S \in SUBSET (FirstData..(TOTAL_PAGES - 1)), Touched(S), live' = live, dir' = dir
      PROVE  /\ CodeFrames \subseteq used' /\ CodeOf(2)'
             /\ \A t \in live' : \A pag \in CodePages : PT'[Entry(dir'[t], pag)] = Code(pag)
  <2>1. CodeFrames \subseteq used' /\ \A d \in Dirs : CodeOf(d) => CodeOf(d)'
    BY <1>4, <1>8
  <2> QED BY <1>2, <1>8, <2>1 DEF CodeOf
<1>9. ASSUME NEW m \in Regions
      PROVE  PagesOf(m) \in SUBSET (FirstData..(TOTAL_PAGES - 1))
  BY PagesOfFacts, Sizes
<1>10. ASSUME NEW m \in Regions, Got(m)
       PROVE  Touched(PagesOf(m)) /\ live' = live /\ dir' = dir
  BY <1>2, <1>10 DEF Got, Taken, Touched
<1>11. ASSUME NEW m \in Regions, Deleted(m)
       PROVE  Touched(PagesOf(m)) /\ live' = live /\ dir' = dir
  BY <1>11 DEF Deleted, GivenBack, Touched
<1>12. \A m \in regions[home] : m \in Regions
  BY <1>1, SaneFacts
<1>13. ASSUME current # Idle, Left
       PROVE  /\ CodeFrames \subseteq used' /\ CodeOf(2)'
              /\ \A t \in live' : \A pag \in CodePages : PT'[Entry(dir'[t], pag)] = Code(pag)
  <2>1. /\ ExitPages \in SUBSET (FirstData..(TOTAL_PAGES - 1)) /\ Touched(ExitPages)
        /\ live' = live \ {current} /\ dir' = [dir EXCEPT ![current] = 0]
    BY <1>13 DEF Left, GivenBack, Touched
  <2>2. CodeFrames \subseteq used' /\ \A d \in Dirs : CodeOf(d) => CodeOf(d)'
    BY <1>4, <2>1
  <2>3. \A t \in live' : t \in live /\ dir'[t] = dir[t]
    BY <1>1, <2>1
  <2> QED BY <1>2, <2>2, <2>3 DEF CodeOf
<1>14. ASSUME NEW t, task_switch(t)
       PROVE  /\ CodeFrames \subseteq used' /\ CodeOf(2)'
              /\ \A x \in live' : \A pag \in CodePages : PT'[Entry(dir'[x], pag)] = Code(pag)
  BY <1>2, <1>14 DEF task_switch, CodeOf
<1> QED BY <1>5, <1>6, <1>7, <1>8, <1>9, <1>10, <1>11, <1>12, <1>13, <1>14 DEF Worked
-----------------------------------------------------------------------------
(* Held and Apart, of the threads T with stacks st and the regions R.       *)

HeldBy(T, st, R) ==
    DataPages \cup (UNION {st[t] : t \in T}) \cup (UNION {PagesOf(m) : m \in R})

ApartBy(T, st, R) ==
    /\ \A t, u \in T : t # u => st[t] \cap st[u] = {}
    /\ \A m, r \in R : m # r => PagesOf(m) \cap PagesOf(r) = {}
    /\ \A t \in T, m \in R : st[t] \cap PagesOf(m) = {}

\* A page is held when it is data, on a stack or in a region.
LEMMA HeldIn ==
    ASSUME NEW T, NEW st, NEW R
    PROVE  \A p : p \in HeldBy(T, st, R)
                    <=> \/ p \in DataPages
                        \/ \E t \in T : p \in st[t]
                        \/ \E m \in R : p \in PagesOf(m)
<1>1. \A p : p \in UNION {st[t] : t \in T} <=> \E t \in T : p \in st[t]
  OBVIOUS
<1>2. \A p : p \in UNION {PagesOf(m) : m \in R} <=> \E m \in R : p \in PagesOf(m)
  OBVIOUS
<1>3. PICK A, B : A = UNION {st[t] : t \in T} /\ B = UNION {PagesOf(m) : m \in R}
  OBVIOUS
<1>4. HeldBy(T, st, R) = DataPages \cup A \cup B
  BY <1>3 DEF HeldBy
<1> QED BY <1>1, <1>2, <1>3, <1>4

\* Apart, page by page.
LEMMA ApartIn ==
    ASSUME NEW T, NEW st, NEW R
    PROVE  ApartBy(T, st, R) <=>
             /\ \A t, u \in T : \A p : p \in st[t] /\ p \in st[u] => t = u
             /\ \A m, r \in R : \A p : p \in PagesOf(m) /\ p \in PagesOf(r) => m = r
             /\ \A t \in T, m \in R : \A p : ~(p \in st[t] /\ p \in PagesOf(m))
BY DEF ApartBy

\* The regions R are those of Q, some of them, but for the count of threads.
Drawn(R, Q) ==
    /\ \A r \in R : \E m \in Q : PagesOf(r) = PagesOf(m)
    /\ \A r, s \in R : r # s =>
            \E m, n \in Q : m # n /\ PagesOf(r) = PagesOf(m) /\ PagesOf(s) = PagesOf(n)

\* A region's count of pointers says nothing of its pages.
LEMMA CountIsNoPage ==
    ASSUME NEW m \in Regions, NEW k
    PROVE  PagesOf([m EXCEPT !.num_pointing = k]) = PagesOf(m)
BY DEF Regions, PagesOf

\* Rewriting counts gives regions drawn from the old ones.
LEMMA ImageDrawn ==
    ASSUME NEW Q, NEW R, NEW h, \A m \in Q : PagesOf(h[m]) = PagesOf(m),
           \A r \in R : \E m \in Q : r = h[m]
    PROVE  Drawn(R, Q)
<1>1. \A r \in R : \E m \in Q : PagesOf(r) = PagesOf(m)
  OBVIOUS
<1>2. ASSUME NEW r \in R, NEW s \in R, r # s
      PROVE  \E m, n \in Q : m # n /\ PagesOf(r) = PagesOf(m) /\ PagesOf(s) = PagesOf(n)
  <2>1. PICK m \in Q, n \in Q : r = h[m] /\ s = h[n]
    OBVIOUS
  <2> QED BY <1>2, <2>1
<1> QED BY <1>1, <1>2 DEF Drawn

\* Regions drawn from others hold no page the others did not.
LEMMA DrawnFacts ==
    ASSUME NEW Q, Q \subseteq Regions, NEW P, P \subseteq Q
    PROVE  /\ Drawn(P, Q) /\ Drawn(Pointed(Q), Q)
           /\ Drawn({[m EXCEPT !.num_pointing = 1] : m \in Q}, Q)
           /\ Drawn({[m EXCEPT !.num_pointing = @ - 1] : m \in P}, Q)
<1>1. Drawn(P, Q)
  BY DEF Drawn
<1>2. \A m \in Q : m \in Regions
  OBVIOUS
<1>3. Drawn(Pointed(Q), Q)
  <2>1. PICK h : h = [m \in Q |-> [m EXCEPT !.num_pointing = @ + 1]]
    OBVIOUS
  <2>2. \A m \in Q : PagesOf(h[m]) = PagesOf(m)
    BY <1>2, <2>1, CountIsNoPage
  <2>3. \A r \in Pointed(Q) : \E m \in Q : r = h[m]
    BY <2>1 DEF Pointed
  <2> QED BY <2>2, <2>3, ImageDrawn
<1>4. Drawn({[m EXCEPT !.num_pointing = 1] : m \in Q}, Q)
  <2>1. PICK h, R : h = [m \in Q |-> [m EXCEPT !.num_pointing = 1]]
                    /\ R = {[m EXCEPT !.num_pointing = 1] : m \in Q}
    OBVIOUS
  <2>2. \A m \in Q : PagesOf(h[m]) = PagesOf(m)
    BY <1>2, <2>1, CountIsNoPage
  <2>3. \A r \in R : \E m \in Q : r = h[m]
    BY <2>1
  <2>4. Drawn(R, Q)
    BY <2>2, <2>3, ImageDrawn
  <2> QED BY <2>1, <2>4
<1>5. Drawn({[m EXCEPT !.num_pointing = @ - 1] : m \in P}, Q)
  <2>1. PICK h, R : h = [m \in Q |-> [m EXCEPT !.num_pointing = @ - 1]]
                    /\ R = {[m EXCEPT !.num_pointing = @ - 1] : m \in P}
    OBVIOUS
  <2>2. \A m \in Q : PagesOf(h[m]) = PagesOf(m)
    BY <1>2, <2>1, CountIsNoPage
  <2>3. \A r \in R : \E m \in Q : r = h[m]
    BY <2>1
  <2>4. Drawn(R, Q)
    BY <2>2, <2>3, ImageDrawn
  <2> QED BY <2>1, <2>4
<1> QED BY <1>1, <1>3, <1>4, <1>5

\* Fewer threads and regions.
LEMMA ApartFewer ==
    ASSUME NEW T, NEW st, NEW R, ApartBy(T, st, R), NEW T2, T2 \subseteq T,
           NEW st2, \A t \in T2 : st2[t] = st[t], NEW R2, Drawn(R2, R)
    PROVE  /\ ApartBy(T2, st2, R2)
           /\ \A p \in HeldBy(T2, st2, R2) : p \in HeldBy(T, st, R)
<1>1. \A r \in R2 : \E m \in R : PagesOf(r) = PagesOf(m)
  BY DEF Drawn
<1>2. \A p \in HeldBy(T2, st2, R2) : p \in HeldBy(T, st, R)
  BY <1>1, HeldIn
<1>3. \A r, s \in R2 : r # s => PagesOf(r) \cap PagesOf(s) = {}
  BY DEF Drawn, ApartBy
<1> QED BY <1>1, <1>2, <1>3 DEF ApartBy

\* One more thread, one more region.
LEMMA ApartThread ==
    ASSUME NEW T, NEW st, NEW R, ApartBy(T, st, R), NEW c, c \notin T,
           NEW st2, \A t \in T : st2[t] = st[t],
           \A p \in st2[c] : p \notin HeldBy(T, st, R)
    PROVE  /\ ApartBy(T \cup {c}, st2, R)
           /\ \A p \in HeldBy(T \cup {c}, st2, R) : p \in HeldBy(T, st, R) \/ p \in st2[c]
<1>1. \A p \in HeldBy(T \cup {c}, st2, R) : p \in HeldBy(T, st, R) \/ p \in st2[c]
  BY HeldIn
<1>2. \A t \in T : st2[c] \cap st[t] = {}
  BY HeldIn
<1>3. \A m \in R : st2[c] \cap PagesOf(m) = {}
  BY HeldIn
<1> QED BY <1>1, <1>2, <1>3 DEF ApartBy

\* A region of pages nobody held is apart from all the rest.
LEMMA ApartRegion ==
    ASSUME NEW T, NEW st, NEW R, ApartBy(T, st, R), NEW m,
           \A p \in PagesOf(m) : p \notin HeldBy(T, st, R)
    PROVE  /\ ApartBy(T, st, R \cup {m})
           /\ \A p \in HeldBy(T, st, R \cup {m}) : p \in HeldBy(T, st, R) \/ p \in PagesOf(m)
<1>1. \A p \in HeldBy(T, st, R \cup {m}) : p \in HeldBy(T, st, R) \/ p \in PagesOf(m)
  BY HeldIn
<1>2. \A t \in T : st[t] \cap PagesOf(m) = {}
  BY HeldIn
<1>3. \A r \in R : PagesOf(r) \cap PagesOf(m) = {} /\ PagesOf(m) \cap PagesOf(r) = {}
  BY HeldIn
<1> QED BY <1>1, <1>2, <1>3 DEF ApartBy

\* What SpaceKept says of a directory.
Whole(d) ==
    /\ \A p \in HeldBy(threads[d], stack, regions[d]) : PT[Entry(d, p)] # Absent
    /\ ApartBy(threads[d], stack, regions[d])

\* SpaceKept, directory by directory.
LEMMA SpaceIs ==
    /\ Sane => \A t \in live : Whole(dir[t])
    /\ (\A t \in live : Whole(dir[t])) => SpaceKept
<1>1. \A d : Whole(d) <=> /\ \A pag \in Held(d) : is_assigned(PT, d, pag)
                          /\ Apart(d)
  BY DEF Whole, HeldBy, ApartBy, Held, Apart, is_assigned
<1> QED BY <1>1 DEF Sane, MemInv, SpaceKept

\* Everything held is a user page.
LEMMA HeldPages ==
    ASSUME NEW T, NEW st, NEW R, R \subseteq Regions,
           \A t \in T : st[t] \subseteq FirstFree..(TOTAL_PAGES - 1)
    PROVE  \A p \in HeldBy(T, st, R) : p \in Pages /\ p \in FirstData..(TOTAL_PAGES - 1)
<1>1. \A p \in DataPages : p \in FirstData..(TOTAL_PAGES - 1)
  BY Sizes DEF DataPages
<1>2. \A p \in FirstFree..(TOTAL_PAGES - 1) : p \in FirstData..(TOTAL_PAGES - 1)
  BY Sizes
<1>3. \A p \in FirstData..(TOTAL_PAGES - 1) : p \in Pages
  BY Sizes DEF Pages
<1>4. \A m \in R : PagesOf(m) \subseteq FirstFree..(TOTAL_PAGES - 1)
  BY PagesOfFacts
<1>5. ASSUME NEW p \in HeldBy(T, st, R) PROVE p \in FirstData..(TOTAL_PAGES - 1)
  BY <1>1, <1>2, <1>4, HeldIn
<1> QED BY <1>3, <1>5
-----------------------------------------------------------------------------
\* A directory of which nothing is touched.
LEMMA WholeStays ==
    ASSUME Sane, NEW d \in Dirs, Whole(d),
           threads'[d] = threads[d], regions'[d] = regions[d],
           \A t \in threads[d] : stack'[t] = stack[t],
           \A p \in Pages : PT'[Entry(d, p)] = PT[Entry(d, p)]
    PROVE  Whole(d)'
<1>1. PICK T, R, st, st2 : T = threads[d] /\ R = regions[d] /\ st = stack /\ st2 = stack'
  OBVIOUS
<1>2. ApartBy(T, st, R) /\ \A p \in HeldBy(T, st, R) : PT[Entry(d, p)] # Absent
  BY <1>1 DEF Whole
<1>3. R \subseteq Regions /\ T \subseteq Tasks
      /\ \A t \in T : st2[t] = st[t] /\ st[t] \subseteq FirstFree..(TOTAL_PAGES - 1)
  BY <1>1, SaneFacts
<1>4. ApartBy(T, st2, R) /\ \A p \in HeldBy(T, st2, R) : p \in HeldBy(T, st, R)
  BY <1>2, <1>3, ApartFewer, DrawnFacts
<1>5. \A p \in HeldBy(T, st, R) : p \in Pages
  BY <1>3, HeldPages
<1>6. \A p \in HeldBy(T, st2, R) : PT'[Entry(d, p)] # Absent
  BY <1>2, <1>4, <1>5
<1> QED BY <1>1, <1>4, <1>6 DEF Whole

\* A directory of which pages are taken.
LEMMA WholeThreaded ==
    ASSUME Sane, current # Idle, NEW c \in FreeTasks, NEW S, Threaded(c, S),
           NEW d, d = home
    PROVE  Whole(d)'
<1>1. PICK T, R, st, st2 : T = threads[home] /\ R = regions[home] /\ st = stack /\ st2 = stack'
  OBVIOUS
<1>2. home \in Dirs /\ Whole(home) /\ T \subseteq live /\ c \notin live /\ c \in Tasks
  BY <1>1, HomeFacts, SpaceIs DEF FreeTasks, home
<1>3. ApartBy(T, st, R) /\ \A p \in HeldBy(T, st, R) : PT[Entry(home, p)] # Absent
  BY <1>1, <1>2 DEF Whole
<1>4. /\ threads'[home] = T \cup {c} /\ regions'[home] = Pointed(R)
      /\ st2[c] = S /\ \A t \in T : st2[t] = st[t]
  BY <1>1, <1>2, SaneFacts DEF Threaded
<1>5. R \subseteq Regions /\ \A t \in T : st[t] \subseteq FirstFree..(TOTAL_PAGES - 1)
  BY <1>1, <1>2, SaneFacts
<1>6. /\ \A p \in S : PT[Entry(home, p)] = Absent /\ PT'[Entry(home, p)] # Absent
      /\ \A p \in Pages : p \notin S => PT'[Entry(home, p)] = PT[Entry(home, p)]
  BY <1>2 DEF Threaded, Stretch, Taken
<1>7. \A p \in st2[c] : p \notin HeldBy(T, st, R)
  BY <1>3, <1>4, <1>6
<1>8. /\ ApartBy(T \cup {c}, st2, R)
      /\ \A p \in HeldBy(T \cup {c}, st2, R) : p \in HeldBy(T, st, R) \/ p \in st2[c]
  BY <1>2, <1>3, <1>4, <1>7, ApartThread
<1>9. /\ ApartBy(T \cup {c}, st2, Pointed(R))
      /\ \A p \in HeldBy(T \cup {c}, st2, Pointed(R)) : p \in HeldBy(T \cup {c}, st2, R)
  <2>1. Drawn(Pointed(R), R)
    BY <1>5, DrawnFacts
  <2> QED BY <1>8, <2>1, ApartFewer
<1>10. \A p \in HeldBy(T, st, R) : p \in Pages
  BY <1>5, HeldPages
<1>11. \A p \in HeldBy(T \cup {c}, st2, Pointed(R)) : PT'[Entry(home, p)] # Absent
  BY <1>3, <1>4, <1>6, <1>8, <1>9, <1>10
<1> QED BY <1>1, <1>4, <1>9, <1>11 DEF Whole

\* A new region leaves every directory whole.
LEMMA WholeGot ==
    ASSUME Sane, current # Idle, NEW m \in Regions, Got(m), NEW d, d = home
    PROVE  Whole(d)' /\ m \notin regions[home]
<1>1. PICK T, R, st : T = threads[home] /\ R = regions[home] /\ st = stack
  OBVIOUS
<1>2. home \in Dirs /\ Whole(home) /\ T \subseteq Tasks
  BY <1>1, HomeFacts, SpaceIs, SaneFacts DEF home
<1>3. ApartBy(T, st, R) /\ \A p \in HeldBy(T, st, R) : PT[Entry(home, p)] # Absent
  BY <1>1, <1>2 DEF Whole
<1>4. threads'[home] = T /\ regions'[home] = R \cup {m} /\ stack' = st
  BY <1>1, <1>2, SaneFacts DEF Got
<1>5. R \subseteq Regions /\ \A t \in T : st[t] \subseteq FirstFree..(TOTAL_PAGES - 1)
  BY <1>1, <1>2, SaneFacts
<1>6. /\ \A p \in PagesOf(m) : PT[Entry(home, p)] = Absent /\ PT'[Entry(home, p)] # Absent
      /\ \A p \in Pages : p \notin PagesOf(m) => PT'[Entry(home, p)] = PT[Entry(home, p)]
      /\ m.mem_page \in PagesOf(m)
  BY <1>2 DEF Got, Stretch, Taken
<1>7. \A p \in PagesOf(m) : p \notin HeldBy(T, st, R)
  BY <1>3, <1>6
<1>8. /\ ApartBy(T, st, R \cup {m})
      /\ \A p \in HeldBy(T, st, R \cup {m}) : p \in HeldBy(T, st, R) \/ p \in PagesOf(m)
  BY <1>3, <1>7, ApartRegion
<1>9. \A p \in HeldBy(T, st, R) : p \in Pages
  BY <1>5, HeldPages
<1>10. \A p \in HeldBy(T, st, R \cup {m}) : PT'[Entry(home, p)] # Absent
  BY <1>3, <1>6, <1>8, <1>9
<1>11. m \notin regions[home]
  BY <1>1, <1>6, <1>7, HeldIn
<1> QED BY <1>4, <1>8, <1>10, <1>11 DEF Whole

\* A directory of which pages are given back.
LEMMA WholeGivenBack ==
    ASSUME Sane, NEW d \in Dirs, Whole(d), NEW T, NEW R, NEW S,
           T \subseteq threads[d], T = threads'[d], R = regions'[d], Drawn(R, regions[d]),
           \A t \in T : stack'[t] = stack[t],
           \A p \in HeldBy(T, stack', R) : p \notin S,
           \A p \in Pages : p \notin S => PT'[Entry(d, p)] = PT[Entry(d, p)]
    PROVE  Whole(d)'
<1>1. PICK T0, R0, st, st2 : T0 = threads[d] /\ R0 = regions[d] /\ st = stack /\ st2 = stack'
  OBVIOUS
<1>2. ApartBy(T0, st, R0) /\ \A p \in HeldBy(T0, st, R0) : PT[Entry(d, p)] # Absent
  BY <1>1 DEF Whole
<1>3. R0 \subseteq Regions /\ \A t \in T0 : st[t] \subseteq FirstFree..(TOTAL_PAGES - 1)
  <2>1. T0 \subseteq Tasks
    BY <1>1, SaneFacts
  <2> QED BY <1>1, <2>1, SaneFacts
<1>4. T \subseteq T0 /\ Drawn(R, R0) /\ \A t \in T : st2[t] = st[t]
  BY <1>1
<1>5. ApartBy(T, st2, R) /\ \A p \in HeldBy(T, st2, R) : p \in HeldBy(T0, st, R0)
  BY <1>2, <1>4, ApartFewer
<1>6. \A p \in HeldBy(T0, st, R0) : p \in Pages
  BY <1>3, HeldPages
<1>7. \A p \in HeldBy(T, st2, R) : PT'[Entry(d, p)] # Absent
  BY <1>1, <1>2, <1>5, <1>6
<1> QED BY <1>1, <1>5, <1>7 DEF Whole

\* So does deleting one.
LEMMA WholeDeleted ==
    ASSUME Sane, current # Idle, NEW m \in regions[home], Deleted(m),
           NEW d, d = home
    PROVE  Whole(d)'
<1>1. PICK T, R, Q, st : T = threads[home] /\ R = regions[home] \ {m} /\ Q = regions[home]
                         /\ st = stack
  OBVIOUS
<1>2. home \in Dirs /\ Whole(home) /\ T \subseteq Tasks
  BY <1>1, HomeFacts, SpaceIs, SaneFacts DEF home
<1>3. threads'[home] = T /\ regions'[home] = R /\ stack' = stack
  BY <1>1, <1>2, SaneFacts DEF Deleted
<1>4. Q \subseteq Regions /\ \A t \in T : st[t] \subseteq FirstFree..(TOTAL_PAGES - 1)
  BY <1>1, <1>2, SaneFacts
<1>5. ApartBy(T, st, Q)
  BY <1>1, <1>2 DEF Whole
<1>6. \A p \in Pages : p \notin PagesOf(m) => PT'[Entry(home, p)] = PT[Entry(home, p)]
  BY <1>2 DEF Deleted, GivenBack
<1>7. Drawn(R, Q)
  BY <1>1, <1>4, DrawnFacts
<1>8. ASSUME NEW p \in HeldBy(T, st, R), p \in PagesOf(m) PROVE FALSE
  <2>1. m \in Q /\ m \in Regions /\ m \notin R /\ R \subseteq Q
    BY <1>1, <1>4
  <2>2. p \in FirstFree..(TOTAL_PAGES - 1)
    BY <1>8, <2>1, PagesOfFacts
  <2>3. p \notin DataPages
    BY <2>2, Sizes DEF DataPages
  <2> QED BY <1>5, <1>8, <2>1, <2>3, HeldIn, ApartIn
<1> QED BY <1>1, <1>2, <1>3, <1>6, <1>7, <1>8, WholeGivenBack

\* And so does an exit, for the directories that stay live.
LEMMA WholeLeft ==
    ASSUME Sane, current # Idle, Left, threads[home] # {current}, NEW d, d = home
    PROVE  Whole(d)'
<1>1. PICK T, R, T0, Q, P, st, D :
            /\ T0 = threads[home] /\ T = T0 \ {current} /\ Q = regions[home] /\ st = stack
            /\ D = Dead(Q) /\ P = Q \ D
            /\ R = {[m EXCEPT !.num_pointing = @ - 1] : m \in P}
  OBVIOUS
<1>2. home \in Dirs /\ Whole(home) /\ T0 \subseteq Tasks /\ current \in T0 /\ current \in Tasks
  BY <1>1, HomeFacts, SpaceIs, SaneFacts DEF home
<1>3. /\ threads'[home] = T /\ regions'[home] = R
      /\ stack' = [st EXCEPT ![current] = {}]
  <2>1. /\ threads' = [threads EXCEPT ![home] = @ \ {current}]
        /\ regions' = [regions EXCEPT ![home] =
            {[m EXCEPT !.num_pointing = @ - 1] : m \in @ \ Dead(@)}]
        /\ stack' = [stack EXCEPT ![current] = {}]
    BY DEF Left
  <2>2. threads'[home] = T
    BY <1>1, <1>2, <2>1, SaneFacts
  <2>3. regions'[home] = R
    BY <1>1, <1>2, <2>1, SaneFacts
  <2> QED BY <1>1, <2>1, <2>2, <2>3
<1>4. \A t \in T : stack'[t] = st[t]
  BY <1>1, <1>2, <1>3, SaneFacts
<1>5. Q \subseteq Regions /\ \A t \in T0 : st[t] \subseteq FirstFree..(TOTAL_PAGES - 1)
  BY <1>1, <1>2, SaneFacts
<1>6. ApartBy(T0, st, Q)
  BY <1>1, <1>2 DEF Whole
<1>7. Drawn(R, Q) /\ Drawn(P, Q) /\ Drawn(R, P)
  <2>1. P \subseteq Q /\ P \subseteq Regions
    BY <1>1, <1>5
  <2> QED BY <1>1, <1>5, <2>1, DrawnFacts
<1>8. \A p : p \in ExitPages <=> p \in st[current] \/ \E m \in D : p \in PagesOf(m)
  <2>1. ExitPages = st[current] \cup (UNION {PagesOf(m) : m \in D})
    BY <1>1 DEF ExitPages
  <2>2. PICK B : B = UNION {PagesOf(m) : m \in D}
    OBVIOUS
  <2>3. \A p : p \in B <=> \E m \in D : p \in PagesOf(m)
    BY <2>2
  <2> QED BY <2>1, <2>2, <2>3
<1>9. D \subseteq Q
  BY <1>1 DEF Dead
<1>10. ASSUME NEW p \in HeldBy(T, stack', R), p \in ExitPages PROVE FALSE
  <2>1. p \in FirstFree..(TOTAL_PAGES - 1)
    <3>1. \A m \in D : PagesOf(m) \subseteq FirstFree..(TOTAL_PAGES - 1)
      BY <1>5, <1>9, PagesOfFacts
    <3> QED BY <1>2, <1>5, <1>8, <1>10, <3>1
  <2>2. p \notin DataPages
    BY <2>1, Sizes DEF DataPages
  <2>3. \/ \E t \in T : p \in st[t]
        \/ \E m \in P : p \in PagesOf(m)
    <3>1. \/ \E t \in T : p \in stack'[t]
          \/ \E r \in R : p \in PagesOf(r)
      BY <1>10, <2>2, HeldIn
    <3> QED BY <1>4, <1>7, <3>1 DEF Drawn
  <2> QED BY <1>1, <1>2, <1>6, <1>8, <1>9, <1>10, <2>3, ApartIn
<1>11. \A p \in Pages : p \notin ExitPages => PT'[Entry(home, p)] = PT[Entry(home, p)]
  BY <1>2 DEF Left, GivenBack
<1>12. T \subseteq threads[home] /\ Drawn(R, regions[home]) /\ \A t \in T : stack'[t] = stack[t]
  BY <1>1, <1>4, <1>7
<1> QED BY <1>2, <1>3, <1>10, <1>11, <1>12, WholeGivenBack

\* The copies a child has.
LEMMA WholeCopied ==
    ASSUME Sane, current # Idle, NEW c \in FreeTasks, NEW i \in Dirs, Copied(c, i)
    PROVE  Whole(i)'
<1>1. PICK T, R, Q, st, st2 :
            /\ T = threads[home] /\ Q = regions[home] /\ st = stack /\ st2 = stack'
            /\ R = {[m EXCEPT !.num_pointing = 1] : m \in Q}
  OBVIOUS
<1>2. home \in Dirs /\ Whole(home) /\ T \subseteq Tasks /\ current \in T /\ c \in Tasks
      /\ current \in Tasks
  BY <1>1, HomeFacts, SpaceIs, SaneFacts DEF home, FreeTasks
<1>3. threads'[i] = {c} /\ regions'[i] = R /\ st2[c] = st[current]
  BY <1>1, <1>2, SaneFacts DEF Copied
<1>4. Q \subseteq Regions /\ \A t \in T : st[t] \subseteq FirstFree..(TOTAL_PAGES - 1)
  BY <1>1, <1>2, SaneFacts
<1>5. ApartBy(T, st, Q) /\ \A p \in HeldBy(T, st, Q) : PT[Entry(home, p)] # Absent
  BY <1>1, <1>2 DEF Whole
<1>6. ApartBy({current}, st, R) /\ \A p \in HeldBy({current}, st, R) : p \in HeldBy(T, st, Q)
  <2>1. Drawn(R, Q) /\ {current} \subseteq T
    BY <1>1, <1>2, <1>4, DrawnFacts
  <2> QED BY <1>5, <2>1, ApartFewer
<1>7. ApartBy({c}, st2, R)
  BY <1>3, <1>6 DEF ApartBy
<1>8. \A p \in HeldBy({c}, st2, R) : p \in HeldBy({current}, st, R)
  BY <1>3, HeldIn
<1>9. \A p \in HeldBy(T, st, Q) : p \in Pages /\ p \in FirstData..(TOTAL_PAGES - 1)
  BY <1>4, HeldPages
<1>10. \A p \in HeldBy({c}, st2, R) : p \in ForkPages
  BY <1>5, <1>6, <1>8, <1>9 DEF ForkPages, is_assigned
<1>11. \A p \in ForkPages : PT'[Entry(i, p)] # Absent
  BY DEF Copied
<1> QED BY <1>1, <1>3, <1>7, <1>10, <1>11 DEF Whole
-----------------------------------------------------------------------------
\* A region that loses one of several pointers is still a region.
LEMMA RegionCount ==
    ASSUME NEW m \in Regions, NEW k \in Nat
    PROVE  [m EXCEPT !.num_pointing = k] \in Regions /\ m.num_pointing \in Nat
BY DEF Regions

\* All variables but the counted chunks keep their types.
Typed ==
    /\ Owned(PT, used) /\ pointing_dir \in [Dirs -> 0..NR_TASKS]
    /\ threads \in [Dirs -> SUBSET Tasks] /\ regions \in [Dirs -> SUBSET Regions]
    /\ live \subseteq Tasks \ {Idle} /\ dir \in [Tasks -> Dirs] /\ PID \in [Tasks -> Int]
    /\ stack \in [Tasks -> SUBSET (FirstFree..(TOTAL_PAGES - 1))]
    /\ current \in live \cup {Idle} /\ cr3 \in Dirs

\* Types are kept by every call that works.
LEMMA TypesStay ==
    ASSUME Sane, Worked
    PROVE  Typed'
<1>1. /\ Typed /\ current \in Tasks /\ home \in Dirs /\ 1 \in 0..NR_TASKS /\ 0 \in Dirs
      /\ \A i \in Dirs : IsFiniteSet(threads[i])
  <2>1. Typed
    BY SaneFacts DEF Typed, Sane, MemInv, MemTypeOK
  <2>2. current \in Tasks /\ home \in Dirs /\ \A i \in Dirs : IsFiniteSet(threads[i])
    BY SaneFacts DEF home
  <2>3. 1 \in 0..NR_TASKS /\ 0 \in Dirs
    BY Sizes DEF Dirs
  <2> QED BY <2>1, <2>2, <2>3
<1>2. ASSUME current # Idle, NEW c \in FreeTasks, NEW i \in Dirs, Copied(c, i)
      PROVE  Typed'
  <2>1. c \in Tasks /\ c # Idle
    BY DEF FreeTasks
  <2>2. {[m EXCEPT !.num_pointing = 1] : m \in regions[home]} \subseteq Regions
    <3>1. \A m \in regions[home] : m \in Regions
      BY <1>1 DEF Typed
    <3> QED BY <3>1, RegionCount
  <2>3. PICK n \in Int : n = NewPID
    BY <1>1, NewPIDFacts DEF Typed
  <2>4. PID' \in [Tasks -> Int]
    BY <1>1, <1>2, <2>3 DEF Copied, Typed
  <2>5. regions' \in [Dirs -> SUBSET Regions]
    BY <1>1, <1>2, <2>2 DEF Copied, Typed
  <2>6. pointing_dir' \in [Dirs -> 0..NR_TASKS] /\ threads' \in [Dirs -> SUBSET Tasks]
    BY <1>1, <1>2, <2>1 DEF Copied, Typed
  <2>7. /\ dir' \in [Tasks -> Dirs] /\ live' \subseteq Tasks \ {Idle}
        /\ stack' \in [Tasks -> SUBSET (FirstFree..(TOTAL_PAGES - 1))]
    BY <1>1, <1>2, <2>1 DEF Copied, Typed
  <2>8. current' \in live' \cup {Idle} /\ cr3' \in Dirs /\ Owned(PT', used')
    BY <1>1, <1>2 DEF Copied, Typed
  <2> QED BY <2>4, <2>5, <2>6, <2>7, <2>8 DEF Typed
<1>3. ASSUME NEW i \in Dirs, CopyFailed(i) PROVE Typed'
  BY <1>1, <1>3 DEF CopyFailed, Typed
<1>4. ASSUME current # Idle, NEW c \in FreeTasks, NEW S, Threaded(c, S) PROVE Typed'
  <2>1. c \in Tasks /\ c # Idle /\ c \notin live
    BY DEF FreeTasks
  <2>2. /\ threads[home] \subseteq live /\ Cardinality(threads[home]) \in Nat
        /\ pointing_dir[home] = Cardinality(threads[home])
    BY <1>4, HomeFacts
  <2>3. pointing_dir[home] + 1 \in 0..NR_TASKS
    <3>1. Cardinality(threads[home] \cup {c}) = Cardinality(threads[home]) + 1
      BY <1>1, <2>1, <2>2, FS_AddElement
    <3>2. Cardinality(threads[home] \cup {c}) <= NR_TASKS
      <4>1. threads[home] \cup {c} \subseteq Tasks
        BY <1>1, <2>1 DEF Typed
      <4> QED BY <4>1, MemAssumption, FS_Subset DEF NR_TASKS
    <3> QED BY <2>2, <3>1, <3>2, Sizes
  <2>4. Pointed(regions[home]) \subseteq Regions
    <3>1. \A m \in regions[home] : m \in Regions
      BY <1>1 DEF Typed
    <3>2. \A m \in Regions : m.num_pointing + 1 \in Nat
      BY DEF Regions
    <3>3. \A m \in regions[home] : [m EXCEPT !.num_pointing = @ + 1] \in Regions
      BY <3>1, <3>2, RegionCount
    <3> QED BY <3>3 DEF Pointed
  <2>5. /\ pointing_dir' \in [Dirs -> 0..NR_TASKS] /\ threads' \in [Dirs -> SUBSET Tasks]
    BY <1>1, <1>4, <2>1, <2>3 DEF Threaded, Typed
  <2>6. regions' \in [Dirs -> SUBSET Regions]
    BY <1>1, <1>4, <2>4 DEF Threaded, Typed
  <2>7. /\ dir' \in [Tasks -> Dirs] /\ live' \subseteq Tasks \ {Idle}
        /\ stack' \in [Tasks -> SUBSET (FirstFree..(TOTAL_PAGES - 1))]
    BY <1>1, <1>4, <2>1 DEF Threaded, Typed, Stretch
  <2>8. current' \in live' \cup {Idle} /\ cr3' \in Dirs /\ Owned(PT', used')
        /\ PID' \in [Tasks -> Int]
    BY <1>1, <1>4 DEF Threaded, Typed, Taken
  <2> QED BY <2>5, <2>6, <2>7, <2>8 DEF Typed
<1>5. ASSUME NEW m \in Regions, Got(m) PROVE Typed'
  BY <1>1, <1>5 DEF Got, Taken, Typed
<1>6. ASSUME NEW m, Deleted(m) PROVE Typed'
  BY <1>1, <1>6 DEF Deleted, GivenBack, Typed
<1>7. ASSUME current # Idle, Left PROVE Typed'
  <2>1. pointing_dir[home] - 1 \in 0..NR_TASKS
    <3>1. pointing_dir[home] \in 0..NR_TASKS /\ pointing_dir[home] \in Nat \ {0}
      BY <1>1, <1>7, HomeFacts DEF Typed
    <3> QED BY <3>1, Sizes
  <2>2. {[m EXCEPT !.num_pointing = @ - 1] : m \in regions[home] \ Dead(regions[home])}
          \subseteq Regions
    <3>1. \A m \in regions[home] \ Dead(regions[home]) : m \in Regions /\ ~(m.num_pointing < 2)
      BY <1>1 DEF Typed, Dead
    <3>2. \A m \in Regions : ~(m.num_pointing < 2) => m.num_pointing - 1 \in Nat
      BY DEF Regions
    <3>3. \A m \in regions[home] \ Dead(regions[home]) : [m EXCEPT !.num_pointing = @ - 1] \in Regions
      BY <3>1, <3>2, RegionCount
    <3> QED BY <3>3
  <2>3. pointing_dir' \in [Dirs -> 0..NR_TASKS] /\ threads' \in [Dirs -> SUBSET Tasks]
    BY <1>1, <1>7, <2>1 DEF Left, Typed
  <2>4. regions' \in [Dirs -> SUBSET Regions]
    BY <1>1, <1>7, <2>2 DEF Left, Typed
  <2>5. /\ dir' \in [Tasks -> Dirs] /\ live' \subseteq Tasks \ {Idle} /\ PID' \in [Tasks -> Int]
        /\ stack' \in [Tasks -> SUBSET (FirstFree..(TOTAL_PAGES - 1))]
    BY <1>1, <1>7 DEF Left, Typed
  <2>6. current' \in live' \cup {Idle} /\ cr3' \in Dirs /\ Owned(PT', used')
    <3>1. current' \in live \cup {Idle}
      BY <1>7 DEF Left
    <3>2. current' \in Tasks
      BY <1>1, <3>1, SaneFacts
    <3> QED BY <1>1, <1>7, <3>2 DEF Left, GivenBack, Typed
  <2> QED BY <2>3, <2>4, <2>5, <2>6 DEF Typed
<1>8. ASSUME NEW t \in live \cup {Idle}, task_switch(t) PROVE Typed'
  <2>1. t \in Tasks
    BY SaneFacts
  <2> QED BY <1>1, <1>8, <2>1 DEF task_switch, set_cr3, Typed
<1> QED BY <1>2, <1>3, <1>4, <1>5, <1>6, <1>7, <1>8 DEF Worked
-----------------------------------------------------------------------------
\* So are the address spaces.
LEMMA SpaceStays ==
    ASSUME Sane, Worked
    PROVE  SpaceKept'
<1>1. /\ live \subseteq Tasks /\ dir \in [Tasks -> Dirs] /\ current \in Tasks
      /\ current # Idle => current \in live
      /\ home \in Dirs /\ threads \in [Dirs -> SUBSET Tasks]
      /\ regions \in [Dirs -> SUBSET Regions]
      /\ stack \in [Tasks -> SUBSET (FirstFree..(TOTAL_PAGES - 1))]
  BY SaneFacts DEF home
<1>2. \A t \in live : dir[t] \in Dirs /\ Whole(dir[t])
  BY <1>1, SpaceIs
<1>3. \A i \in Dirs : threads[i] = {u \in live : dir[u] = i}
  BY DEF Sane, MemInv, ThreadsTell
<1>4. SUFFICES ASSUME NEW d \in Dirs, NEW t \in live', dir'[t] = d
               PROVE  Whole(d)'
  <2>1. live' \subseteq Tasks /\ dir' \in [Tasks -> Dirs]
    BY TypesStay DEF Typed
  <2>2. ASSUME NEW d, Whole(d)'
        PROVE  /\ \A pag \in Held(d)' : PT'[Entry(d, pag)] # Absent
               /\ Apart(d)'
    BY <2>2 DEF Whole, HeldBy, ApartBy, Held, Apart
  <2>3. ASSUME NEW t \in live', NEW d, d = dir'[t]
        PROVE  (\A pag \in Held(d)' : PT'[Entry(d, pag)] # Absent) /\ Apart(d)'
    BY <2>1, <2>2, <2>3
  <2> QED BY <2>3 DEF SpaceKept, is_assigned, Held, Apart
<1>5. ASSUME current # Idle, NEW c \in FreeTasks, NEW i \in Dirs, i # home, Copied(c, i)
      PROVE  Whole(d)'
  <2>1. c \in Tasks /\ c \notin live
    BY DEF FreeTasks
  <2>2. /\ live' = live \cup {c} /\ dir' = [dir EXCEPT ![c] = i]
        /\ threads' = [threads EXCEPT ![i] = {c}] /\ Spared(i)
        /\ stack' = [stack EXCEPT ![c] = stack[current]]
    BY <1>5 DEF Copied
  <2>3. CASE d = i
    BY <1>5, <2>3, WholeCopied
  <2>4. CASE d # i
    <3>1. t \in live /\ dir[t] = d
      BY <1>1, <1>4, <2>1, <2>2, <2>4
    <3>2. threads'[d] = threads[d] /\ c \notin threads[d]
      BY <1>1, <1>3, <2>1, <2>2, <2>4
    <3>3. regions'[d] = regions[d]
      BY <1>1, <1>5, <2>4 DEF Copied
    <3>4. \A u \in threads[d] : stack'[u] = stack[u]
      BY <1>1, <2>2, <3>2
    <3>5. \A p \in Pages : PT'[Entry(d, p)] = PT[Entry(d, p)]
      BY <2>2, <2>4 DEF Spared
    <3> QED BY <1>2, <3>1, <3>2, <3>3, <3>4, <3>5, WholeStays
  <2> QED BY <2>3, <2>4
<1>6. ASSUME NEW i \in Dirs, FreeDirs # {}, i = Min(FreeDirs), CopyFailed(i)
      PROVE  Whole(d)'
  <2>1. t \in live /\ dir[t] = d /\ d # i
    BY <1>4, <1>6, FreeDirFacts DEF CopyFailed
  <2>2. UNCHANGED <<threads, regions, stack>> /\ Spared(i)
    BY <1>6 DEF CopyFailed
  <2>3. \A p \in Pages : PT'[Entry(d, p)] = PT[Entry(d, p)]
    BY <2>1, <2>2 DEF Spared
  <2> QED BY <1>2, <2>1, <2>2, <2>3, WholeStays
\* The directories of other processes.
<1>7. ASSUME NEW S, d # home, \A j \in Dirs, p \in Pages :
                ~(j = home /\ p \in S) => PT'[Entry(j, p)] = PT[Entry(j, p)],
             t \in live, dir[t] = d, threads'[d] = threads[d], regions'[d] = regions[d],
             \A u \in threads[d] : stack'[u] = stack[u]
      PROVE  Whole(d)'
  <2>1. \A p \in Pages : PT'[Entry(d, p)] = PT[Entry(d, p)]
    BY <1>7
  <2> QED BY <1>2, <1>7, <2>1, WholeStays
<1>8. ASSUME current # Idle, NEW c \in FreeTasks, NEW S, Threaded(c, S)
      PROVE  Whole(d)'
  <2>1. c \in Tasks /\ c \notin live
    BY DEF FreeTasks
  <2>2. CASE d = home
    BY <1>8, <2>2, WholeThreaded
  <2>3. CASE d # home
    <3>1. t \in live /\ dir[t] = d
      BY <1>1, <1>4, <1>8, <2>1, <2>3 DEF Threaded
    <3>2. threads'[d] = threads[d] /\ regions'[d] = regions[d] /\ c \notin threads[d]
      BY <1>1, <1>3, <1>8, <2>1, <2>3 DEF Threaded
    <3>3. \A u \in threads[d] : stack'[u] = stack[u]
      BY <1>1, <1>8, <3>2 DEF Threaded
    <3> QED BY <1>7, <1>8, <2>3, <3>1, <3>2, <3>3 DEF Threaded, Taken
  <2> QED BY <2>2, <2>3
<1>9. ASSUME current # Idle, NEW m \in Regions, Got(m) PROVE Whole(d)'
  <2>1. CASE d = home
    BY <1>9, <2>1, WholeGot
  <2>2. CASE d # home
    <3>1. t \in live /\ dir[t] = d /\ threads' = threads /\ stack' = stack
      BY <1>4, <1>9 DEF Got
    <3>2. regions'[d] = regions[d]
      BY <1>1, <1>9, <2>2 DEF Got
    <3> QED BY <1>7, <1>9, <2>2, <3>1, <3>2 DEF Got, Taken
  <2> QED BY <2>1, <2>2
<1>10. ASSUME current # Idle, NEW m \in regions[home], Deleted(m) PROVE Whole(d)'
  <2>1. CASE d = home
    BY <1>10, <2>1, WholeDeleted
  <2>2. CASE d # home
    <3>1. t \in live /\ dir[t] = d /\ threads' = threads /\ stack' = stack
      BY <1>4, <1>10 DEF Deleted
    <3>2. regions'[d] = regions[d]
      BY <1>1, <1>10, <2>2 DEF Deleted
    <3> QED BY <1>7, <1>10, <2>2, <3>1, <3>2 DEF Deleted, GivenBack
  <2> QED BY <2>1, <2>2
<1>11. ASSUME current # Idle, Left PROVE Whole(d)'
  <2>1. t \in live /\ dir[t] = d /\ t # current
    BY <1>1, <1>4, <1>11 DEF Left
  <2>2. CASE d = home
    <3>1. threads[home] # {current}
      BY <1>3, <2>1, <2>2
    <3> QED BY <1>11, <2>2, <3>1, WholeLeft
  <2>3. CASE d # home
    <3>1. threads'[d] = threads[d] /\ regions'[d] = regions[d] /\ current \notin threads[d]
      <4>1. threads'[d] = threads[d]
        BY <1>1, <1>11, <2>3 DEF Left
      <4>2. regions'[d] = regions[d]
        BY <1>1, <1>11, <2>3 DEF Left
      <4>3. current \notin threads[d]
        BY <1>3, <2>3 DEF home
      <4> QED BY <4>1, <4>2, <4>3
    <3>2. \A u \in threads[d] : stack'[u] = stack[u]
      BY <1>1, <1>11, <3>1 DEF Left
    <3> QED BY <1>7, <1>11, <2>1, <2>3, <3>1, <3>2 DEF Left, GivenBack
  <2> QED BY <2>2, <2>3
<1>12. ASSUME NEW u, task_switch(u) PROVE Whole(d)'
  <2>1. UNCHANGED <<threads, regions, stack, PT, live, dir>>
    BY <1>12 DEF task_switch
  <2> QED BY <1>2, <1>4, <2>1, WholeStays
<1> QED BY <1>5, <1>6, <1>8, <1>9, <1>10, <1>11, <1>12 DEF Worked
-----------------------------------------------------------------------------
(* Chunks that are in use, counted.                                         *)

ChunksOf(r) == UNION {{i} \X r[i] : i \in Dirs}

\* The chunks of all directories, told one by one.
LEMMA ChunksIn ==
    ASSUME NEW r
    PROVE  \A x : x \in ChunksOf(r) <=> \E i \in Dirs : x \in {i} \X r[i]
BY DEF ChunksOf

\* They are finitely many, so they can be counted.
LEMMA ChunksFinite ==
    ASSUME NEW r, \A i \in Dirs : IsFiniteSet(r[i])
    PROVE  IsFiniteSet(ChunksOf(r)) /\ Cardinality(ChunksOf(r)) \in Nat
<1>1. IsFiniteSet(Dirs)
  BY Sizes, FS_Interval DEF Dirs
<1>2. PICK C : C = {{i} \X r[i] : i \in Dirs}
  OBVIOUS
<1>3. IsFiniteSet(C)
  <2>1. PICK f : f = [i \in Dirs |-> {i} \X r[i]]
    OBVIOUS
  <2>2. f \in Surjection(Dirs, C)
    BY <1>2, <2>1 DEF Surjection
  <2> QED BY <1>1, <2>2, FS_Surjection
<1>4. \A i \in Dirs : IsFiniteSet({i} \X r[i])
  BY FS_Singleton, FS_Product
<1>5. \A x \in C : IsFiniteSet(x)
  BY <1>2, <1>4
<1>6. IsFiniteSet(UNION C)
  BY <1>3, <1>5, FS_UNION
<1> QED BY <1>2, <1>6, FS_CardinalityType DEF ChunksOf

\* The regions of one directory are replaced.
LEMMA ChunkCount ==
    ASSUME NEW r, \A i \in Dirs : IsFiniteSet(r[i]), NEW j \in Dirs,
           NEW q, \A i \in Dirs \ {j} : q[i] = r[i], IsFiniteSet(q[j])
    PROVE  /\ Cardinality(ChunksOf(q)) + Cardinality(r[j])
                = Cardinality(ChunksOf(r)) + Cardinality(q[j])
           /\ Cardinality(ChunksOf(q)) \in Nat /\ Cardinality(ChunksOf(r)) \in Nat
           /\ Cardinality(q[j]) \in Nat /\ Cardinality(r[j]) \in Nat
<1> DEFINE s == [i \in Dirs |-> IF i = j THEN {} ELSE r[i]]
<1>1. \A i \in Dirs : IsFiniteSet(s[i]) /\ IsFiniteSet(q[i])
  BY FS_EmptySet
<1>2. PICK Z : Z = ChunksOf(s)
  OBVIOUS
<1>3. IsFiniteSet(Z) /\ Cardinality(Z) \in Nat
  BY <1>1, <1>2, ChunksFinite
<1>4. s[j] = {} /\ \A i \in Dirs \ {j} : s[i] = r[i]
  OBVIOUS
<1> HIDE DEF s
<1>5. ASSUME NEW p, \A i \in Dirs \ {j} : p[i] = r[i], IsFiniteSet(p[j])
      PROVE  Cardinality(ChunksOf(p)) = Cardinality(Z) + Cardinality(p[j])
             /\ Cardinality(p[j]) \in Nat
  <2>1. PICK A : A = {j} \X p[j]
    OBVIOUS
  <2>2. IsFiniteSet(A) /\ Cardinality(A) = Cardinality(p[j]) /\ Cardinality(A) \in Nat
    <3>1. Cardinality({j}) = 1 /\ IsFiniteSet({j}) /\ Cardinality(p[j]) \in Nat
      BY <1>5, FS_Singleton, FS_CardinalityType
    <3>2. IsFiniteSet(A) /\ Cardinality(A) = Cardinality({j}) * Cardinality(p[j])
      BY <1>5, <2>1, <3>1, FS_Product
    <3> QED BY <3>1, <3>2
  <2>3. \A x : x \in ChunksOf(p) <=> x \in Z \/ x \in A
    BY <1>2, <1>4, <1>5, <2>1, ChunksIn
  <2>4. ChunksOf(p) = Z \cup A
    BY <2>3
  <2>5. Z \cap A = {}
    BY <1>2, <1>4, <2>1, ChunksIn
  <2>6. Cardinality(Z \cup A) = Cardinality(Z) + Cardinality(A) - Cardinality(Z \cap A)
    BY <1>3, <2>2, FS_Union
  <2>7. Cardinality(Z \cap A) = 0
    BY <2>5, FS_EmptySet
  <2> QED BY <1>3, <2>2, <2>4, <2>6, <2>7
<1>6. Cardinality(ChunksOf(q)) = Cardinality(Z) + Cardinality(q[j]) /\ Cardinality(q[j]) \in Nat
  BY <1>5
<1>7. Cardinality(ChunksOf(r)) = Cardinality(Z) + Cardinality(r[j]) /\ Cardinality(r[j]) \in Nat
  BY <1>5
<1> QED BY <1>3, <1>6, <1>7

\* A copy of regions with other counts is no larger.
LEMMA ImageCount ==
    ASSUME NEW Q, IsFiniteSet(Q), NEW R, NEW h,
           \A r : r \in R <=> \E m \in Q : r = h[m]
    PROVE  /\ IsFiniteSet(R) /\ Cardinality(R) \in Nat /\ Cardinality(R) <= Cardinality(Q)
           /\ (\A m, n \in Q : h[m] = h[n] => m = n) => Cardinality(R) = Cardinality(Q)
<1>1. PICK f : f = [m \in Q |-> h[m]]
  OBVIOUS
<1>2. f \in Surjection(Q, R)
  BY <1>1 DEF Surjection
<1>3. /\ IsFiniteSet(R) /\ Cardinality(R) <= Cardinality(Q)
      /\ Cardinality(R) = Cardinality(Q) <=> f \in Injection(Q, R)
  BY <1>2, FS_Surjection
<1>4. (\A m, n \in Q : h[m] = h[n] => m = n) => f \in Injection(Q, R)
  BY <1>1 DEF Injection, IsInjective
<1> QED BY <1>3, <1>4, FS_CardinalityType

\* Regions that differ still differ when their counts move together.
LEMMA CountsDiffer ==
    ASSUME NEW m \in Regions, NEW n \in Regions
    PROVE  /\ [m EXCEPT !.num_pointing = @ + 1] = [n EXCEPT !.num_pointing = @ + 1] => m = n
           /\ [m EXCEPT !.num_pointing = @ - 1] = [n EXCEPT !.num_pointing = @ - 1] => m = n
<1>1. /\ m \in [mem_page : FirstFree..(TOTAL_PAGES - 1), num_pages : 1..MaxPages, num_pointing : Nat]
      /\ n \in [mem_page : FirstFree..(TOTAL_PAGES - 1), num_pages : 1..MaxPages, num_pointing : Nat]
  BY DEF Regions
<1>2. m.num_pointing \in Nat /\ n.num_pointing \in Nat
  BY <1>1
<1>3. /\ m = [mem_page |-> m.mem_page, num_pages |-> m.num_pages, num_pointing |-> m.num_pointing]
      /\ n = [mem_page |-> n.mem_page, num_pages |-> n.num_pages, num_pointing |-> n.num_pointing]
  BY <1>1
<1>4. ASSUME NEW k \in Int, [m EXCEPT !.num_pointing = @ + k] = [n EXCEPT !.num_pointing = @ + k]
      PROVE  m = n
  <2>1. /\ [m EXCEPT !.num_pointing = @ + k].mem_page = m.mem_page
        /\ [m EXCEPT !.num_pointing = @ + k].num_pages = m.num_pages
        /\ [m EXCEPT !.num_pointing = @ + k].num_pointing = m.num_pointing + k
        /\ [n EXCEPT !.num_pointing = @ + k].mem_page = n.mem_page
        /\ [n EXCEPT !.num_pointing = @ + k].num_pages = n.num_pages
        /\ [n EXCEPT !.num_pointing = @ + k].num_pointing = n.num_pointing + k
    BY <1>1
  <2>2. m.mem_page = n.mem_page /\ m.num_pages = n.num_pages
        /\ m.num_pointing + k = n.num_pointing + k
    BY <1>4, <2>1
  <2>3. m.num_pointing = n.num_pointing
    BY <1>2, <2>2
  <2> QED BY <1>3, <2>2, <2>3
<1>5. /\ [m EXCEPT !.num_pointing = @ - 1] = [m EXCEPT !.num_pointing = @ + (-1)]
      /\ [n EXCEPT !.num_pointing = @ - 1] = [n EXCEPT !.num_pointing = @ + (-1)]
  BY <1>2
<1>6. [m EXCEPT !.num_pointing = @ + 1] = [n EXCEPT !.num_pointing = @ + 1] => m = n
  BY <1>4
<1>7. -1 \in Int
  OBVIOUS
<1>8. [m EXCEPT !.num_pointing = @ + (-1)] = [n EXCEPT !.num_pointing = @ + (-1)] => m = n
  BY ONLY <1>4, <1>7
<1> QED BY <1>5, <1>6, <1>8
-----------------------------------------------------------------------------
\* A directory's regions, and how many threads point to each.
PointedAt(i) == \A m \in regions[i] : m.num_pointing \in 1..Cardinality(threads[i])

\* The chunks stay counted by every call that works.
LEMMA ChunksStay ==
    ASSUME Sane, Worked
    PROVE  ChunksAccounted' /\ RegionsFinite' /\ freedinamic' \in 0..MAX_DIN
<1>1. /\ regions \in [Dirs -> SUBSET Regions] /\ threads \in [Dirs -> SUBSET Tasks]
      /\ freedinamic \in 0..MAX_DIN /\ MAX_DIN \in Nat /\ freedinamic \in Nat
      /\ \A i \in Dirs : IsFiniteSet(regions[i]) /\ IsFiniteSet(threads[i])
      /\ home \in Dirs
  BY SaneFacts, Sizes DEF home
<1>2. /\ freedinamic + Cardinality(ChunksOf(regions)) = MAX_DIN
      /\ \A i \in Dirs : PointedAt(i)
  <2>1. Chunks = ChunksOf(regions)
    BY DEF Chunks, ChunksOf
  <2> QED BY <2>1 DEF Sane, MemInv, ChunksAccounted, PointedAt
\* The regions of directory j become q[j]: what has to be shown.
<1>3. ASSUME NEW j \in Dirs, NEW q, q = regions', \A i \in Dirs \ {j} : q[i] = regions[i],
             IsFiniteSet(q[j]), freedinamic' \in Nat,
             freedinamic' + Cardinality(q[j]) = freedinamic + Cardinality(regions[j]),
             \A i \in Dirs : PointedAt(i)'
      PROVE  ChunksAccounted' /\ RegionsFinite' /\ freedinamic' \in 0..MAX_DIN
  <2>1. /\ Cardinality(ChunksOf(q)) + Cardinality(regions[j])
                = Cardinality(ChunksOf(regions)) + Cardinality(q[j])
        /\ Cardinality(ChunksOf(q)) \in Nat /\ Cardinality(ChunksOf(regions)) \in Nat
        /\ Cardinality(q[j]) \in Nat /\ Cardinality(regions[j]) \in Nat
    BY <1>1, <1>3, ChunkCount
  <2>2. PICK f \in Nat : f = freedinamic'
    BY <1>3
  <2>3. f + Cardinality(ChunksOf(q)) = MAX_DIN
    <3>1. PICK a \in Nat, b \in Nat, x \in Nat, y \in Nat :
                /\ a = Cardinality(ChunksOf(q)) /\ b = Cardinality(ChunksOf(regions))
                /\ x = Cardinality(q[j]) /\ y = Cardinality(regions[j])
      BY <2>1
    <3>2. a + y = b + x /\ f + x = freedinamic + y /\ freedinamic + b = MAX_DIN
      BY <1>2, <1>3, <2>1, <2>2, <3>1
    <3> QED BY <1>1, <3>1, <3>2
  <2>4. f \in 0..MAX_DIN
    BY <1>1, <2>1, <2>2, <2>3
  <2>5. \A i \in Dirs : IsFiniteSet(q[i])
    BY <1>1, <1>3
  <2>6. Chunks' = ChunksOf(q)
    BY <1>3 DEF Chunks, ChunksOf
  <2> QED BY <1>3, <2>2, <2>3, <2>4, <2>5, <2>6 DEF ChunksAccounted, RegionsFinite, PointedAt
\* Nothing becomes of the regions.
<1>4. ASSUME UNCHANGED <<regions, freedinamic, threads>>
      PROVE  ChunksAccounted' /\ RegionsFinite' /\ freedinamic' \in 0..MAX_DIN
  <2>1. \A i \in Dirs : PointedAt(i)'
    BY <1>2, <1>4 DEF PointedAt
  <2>2. PICK q : q = regions'
    OBVIOUS
  <2> QED BY <1>1, <1>3, <1>4, <2>1, <2>2
\* Of another directory nothing changes.
<1>5. ASSUME NEW i \in Dirs, regions'[i] = regions[i], threads'[i] = threads[i]
      PROVE  PointedAt(i)'
  BY <1>2, <1>5 DEF PointedAt
<1>6. ASSUME NEW c \in FreeTasks, NEW i \in Dirs, FreeDirs # {}, i = Min(FreeDirs), Copied(c, i)
      PROVE  ChunksAccounted' /\ RegionsFinite' /\ freedinamic' \in 0..MAX_DIN
  <2>1. PICK Q, R, h, q : /\ Q = regions[home] /\ h = [m \in Q |-> [m EXCEPT !.num_pointing = 1]]
                          /\ R = {h[m] : m \in Q} /\ q = regions'
    OBVIOUS
  <2>2. R = {[m EXCEPT !.num_pointing = 1] : m \in Q}
    BY <2>1
  <2>3. /\ regions' = [regions EXCEPT ![i] = R] /\ freedinamic' = freedinamic - Cardinality(R)
        /\ threads' = [threads EXCEPT ![i] = {c}] /\ Cardinality(Q) <= freedinamic
    BY <1>6, <2>1, <2>2 DEF Copied
  <2>4. IsFiniteSet(Q) /\ Cardinality(Q) \in Nat
    BY <1>1, <2>1, FS_CardinalityType
  <2>5. IsFiniteSet(R) /\ Cardinality(R) \in Nat /\ Cardinality(R) <= Cardinality(Q)
    <3>1. \A r : r \in R <=> \E m \in Q : r = h[m]
      BY <2>1
    <3> QED BY <2>4, <3>1, ImageCount
  <2>6. /\ q[i] = R /\ \A j \in Dirs \ {i} : q[j] = regions[j] /\ threads'[j] = threads[j]
        /\ threads'[i] = {c}
    BY <1>1, <2>1, <2>3
  <2>7. Cardinality(regions[i]) = 0
    BY <1>6, FreeDirFacts, FS_EmptySet
  <2>8. freedinamic' \in Nat /\ freedinamic' + Cardinality(R) = freedinamic + Cardinality(regions[i])
    <3>1. freedinamic - Cardinality(R) \in Nat
          /\ freedinamic - Cardinality(R) + Cardinality(R) = freedinamic + 0
      BY <1>1, <2>3, <2>4, <2>5
    <3> QED BY <2>3, <2>7, <3>1
  <2>9. PointedAt(i)'
    <3>1. \A r \in R : r.num_pointing = 1
      <4>1. \A m \in Q : m \in Regions
        BY <1>1, <2>1
      <4>2. \A m \in Regions : [m EXCEPT !.num_pointing = 1].num_pointing = 1
        BY DEF Regions
      <4> QED BY <2>1, <4>1, <4>2
    <3>2. Cardinality({c}) = 1
      BY FS_Singleton
    <3> QED BY <2>1, <2>6, <3>1, <3>2 DEF PointedAt
  <2>10. \A j \in Dirs : PointedAt(j)'
    BY <1>5, <2>1, <2>6, <2>9
  <2>11. q = regions' /\ IsFiniteSet(q[i]) /\ \A j \in Dirs \ {i} : q[j] = regions[j]
    BY <2>1, <2>5, <2>6
  <2>12. freedinamic' + Cardinality(q[i]) = freedinamic + Cardinality(regions[i])
    BY <2>6, <2>8
  <2> QED BY <1>3, <2>8, <2>10, <2>11, <2>12
<1>7. ASSUME NEW i, CopyFailed(i)
      PROVE  ChunksAccounted' /\ RegionsFinite' /\ freedinamic' \in 0..MAX_DIN
  BY <1>4, <1>7 DEF CopyFailed
<1>8. ASSUME current # Idle, NEW c \in FreeTasks, NEW S, Threaded(c, S)
      PROVE  ChunksAccounted' /\ RegionsFinite' /\ freedinamic' \in 0..MAX_DIN
  <2>1. PICK Q, R, h, q, j : /\ Q = regions[home] /\ j = home
                             /\ h = [m \in Q |-> [m EXCEPT !.num_pointing = @ + 1]]
                             /\ R = {h[m] : m \in Q} /\ q = regions'
    OBVIOUS
  <2>2. R = Pointed(Q)
    BY <2>1 DEF Pointed
  <2>3. /\ regions' = [regions EXCEPT ![home] = R] /\ freedinamic' = freedinamic
        /\ threads' = [threads EXCEPT ![home] = @ \cup {c}]
    BY <1>8, <2>1, <2>2 DEF Threaded
  <2>4. IsFiniteSet(Q) /\ Cardinality(Q) \in Nat /\ Q \subseteq Regions
    BY <1>1, <2>1, FS_CardinalityType
  <2>5. IsFiniteSet(R) /\ Cardinality(R) = Cardinality(Q)
    <3>1. \A m, n \in Q : h[m] = h[n] => m = n
      BY <2>1, <2>4, CountsDiffer
    <3>2. \A r : r \in R <=> \E m \in Q : r = h[m]
      BY <2>1
    <3> QED BY <2>4, <3>1, <3>2, ImageCount
  <2>6. /\ q[j] = R /\ \A i \in Dirs \ {j} : q[i] = regions[i] /\ threads'[i] = threads[i]
        /\ threads'[j] = threads[j] \cup {c} /\ j \in Dirs
    BY <1>1, <2>1, <2>3
  <2>7. Cardinality(threads[j] \cup {c}) = Cardinality(threads[j]) + 1
        /\ Cardinality(threads[j]) \in Nat
    <3>1. c \notin threads[j]
      BY <1>8, <2>1, HomeFacts DEF FreeTasks
    <3> QED BY <1>1, <2>1, <3>1, FS_AddElement, FS_CardinalityType
  <2>8. ASSUME NEW r \in R PROVE r.num_pointing \in 1..(Cardinality(threads[j]) + 1)
    <3>1. PICK m \in Q : r = [m EXCEPT !.num_pointing = @ + 1]
      BY <2>1
    <3>2. m.num_pointing \in 1..Cardinality(threads[j])
      BY <1>1, <1>2, <2>1 DEF PointedAt
    <3>3. r.num_pointing = m.num_pointing + 1
      BY <2>4, <3>1 DEF Regions
    <3> QED BY <2>7, <3>2, <3>3
  <2>9. PointedAt(j)'
    BY <2>1, <2>6, <2>7, <2>8 DEF PointedAt
  <2>10. \A i \in Dirs : PointedAt(i)'
    BY <1>5, <2>1, <2>6, <2>9
  <2>11. freedinamic' \in Nat /\ freedinamic' + Cardinality(q[j]) = freedinamic + Cardinality(regions[j])
    BY <1>1, <2>1, <2>3, <2>5, <2>6
  <2>12. q = regions' /\ IsFiniteSet(q[j]) /\ \A i \in Dirs \ {j} : q[i] = regions[i]
    BY <2>1, <2>5, <2>6
  <2> QED BY <1>3, <2>6, <2>10, <2>11, <2>12
<1>9. ASSUME current # Idle, NEW m \in Regions, Got(m)
      PROVE  ChunksAccounted' /\ RegionsFinite' /\ freedinamic' \in 0..MAX_DIN
  <2>1. PICK Q, q, j : Q = regions[home] /\ q = regions' /\ j = home
    OBVIOUS
  <2>2. /\ q[j] = Q \cup {m} /\ \A i \in Dirs \ {j} : q[i] = regions[i]
        /\ threads' = threads /\ j \in Dirs /\ freedinamic' = freedinamic - 1 /\ freedinamic > 0
        /\ m.num_pointing = 1
    BY <1>1, <1>9, <2>1 DEF Got
  <2>3. m \notin Q
    BY <1>9, <2>1, WholeGot
  <2>4. IsFiniteSet(Q \cup {m}) /\ Cardinality(Q \cup {m}) = Cardinality(Q) + 1
        /\ Cardinality(Q) \in Nat
    BY <1>1, <2>1, <2>3, FS_AddElement, FS_CardinalityType
  <2>5. Cardinality(threads[j]) \in Nat \ {0}
    BY <1>9, <2>1, HomeFacts
  <2>6. \A r \in q[j] : r.num_pointing \in 1..Cardinality(threads[j])
    BY <1>1, <1>2, <2>1, <2>2, <2>5 DEF PointedAt
  <2>7. \A i \in Dirs : PointedAt(i)'
    BY <1>5, <2>1, <2>2, <2>6 DEF PointedAt
  <2>8. freedinamic' \in Nat /\ freedinamic' + Cardinality(q[j]) = freedinamic + Cardinality(regions[j])
    BY <1>1, <2>1, <2>2, <2>4
  <2> QED BY <1>3, <2>1, <2>2, <2>4, <2>7, <2>8
<1>10. ASSUME current # Idle, NEW m \in regions[home], Deleted(m)
       PROVE  ChunksAccounted' /\ RegionsFinite' /\ freedinamic' \in 0..MAX_DIN
  <2>1. PICK Q, q, j : Q = regions[home] /\ q = regions' /\ j = home
    OBVIOUS
  <2>2. /\ q[j] = Q \ {m} /\ \A i \in Dirs \ {j} : q[i] = regions[i]
        /\ threads' = threads /\ j \in Dirs /\ freedinamic' = freedinamic + 1
    BY <1>1, <1>10, <2>1 DEF Deleted
  <2>3. IsFiniteSet(Q \ {m}) /\ Cardinality(Q \ {m}) = Cardinality(Q) - 1
        /\ Cardinality(Q) \in Nat
    BY <1>1, <2>1, FS_RemoveElement, FS_CardinalityType
  <2>4. \A r \in q[j] : r.num_pointing \in 1..Cardinality(threads[j])
    BY <1>1, <1>2, <2>1, <2>2 DEF PointedAt
  <2>5. \A i \in Dirs : PointedAt(i)'
    BY <1>5, <2>1, <2>2, <2>4 DEF PointedAt
  <2>6. freedinamic' \in Nat /\ freedinamic' + Cardinality(q[j]) = freedinamic + Cardinality(regions[j])
    BY <1>1, <2>1, <2>2, <2>3
  <2> QED BY <1>3, <2>1, <2>2, <2>3, <2>5, <2>6
<1>11. ASSUME current # Idle, Left
       PROVE  ChunksAccounted' /\ RegionsFinite' /\ freedinamic' \in 0..MAX_DIN
  <2>1. PICK Q, D, P, R, h, q, j :
            /\ Q = regions[home] /\ j = home /\ D = Dead(Q) /\ P = Q \ D
            /\ h = [m \in P |-> [m EXCEPT !.num_pointing = @ - 1]]
            /\ R = {h[m] : m \in P} /\ q = regions'
    OBVIOUS
  <2>2. R = {[m EXCEPT !.num_pointing = @ - 1] : m \in P}
    BY <2>1
  <2>3. /\ regions' = [regions EXCEPT ![home] = R] /\ freedinamic' = freedinamic + Cardinality(D)
        /\ threads' = [threads EXCEPT ![home] = @ \ {current}]
    <3>1. regions' = [regions EXCEPT ![home] =
            {[m EXCEPT !.num_pointing = @ - 1] : m \in regions[home] \ Dead(regions[home])}]
      BY <1>11 DEF Left
    <3>2. regions' = [regions EXCEPT ![home] = R]
      BY <2>1, <2>2, <3>1
    <3> QED BY <1>11, <2>1, <3>2 DEF Left
  <2>4. IsFiniteSet(Q) /\ Cardinality(Q) \in Nat /\ Q \subseteq Regions /\ D \subseteq Q
    BY <1>1, <2>1, FS_CardinalityType DEF Dead
  <2>5. /\ IsFiniteSet(P) /\ IsFiniteSet(D) /\ Cardinality(D) \in Nat /\ Cardinality(P) \in Nat
        /\ Cardinality(P) = Cardinality(Q) - Cardinality(D)
    <3>1. Q \cap D = D /\ P = Q \ D
      BY <2>1, <2>4
    <3>2. IsFiniteSet(Q \ D) /\ Cardinality(Q \ D) = Cardinality(Q) - Cardinality(Q \cap D)
      BY <2>4, FS_Difference
    <3>3. IsFiniteSet(D)
      BY <2>4, FS_Subset
    <3> QED BY <3>1, <3>2, <3>3, FS_CardinalityType
  <2>6. IsFiniteSet(R) /\ Cardinality(R) = Cardinality(P)
    <3>1. \A m, n \in P : h[m] = h[n] => m = n
      BY <2>1, <2>4, CountsDiffer
    <3>2. \A r : r \in R <=> \E m \in P : r = h[m]
      BY <2>1
    <3> QED BY <2>5, <3>1, <3>2, ImageCount
  <2>7. /\ q[j] = R /\ \A i \in Dirs \ {j} : q[i] = regions[i] /\ threads'[i] = threads[i]
        /\ threads'[j] = threads[j] \ {current} /\ j \in Dirs
    BY <1>1, <2>1, <2>3
  <2>8. Cardinality(threads[j] \ {current}) = Cardinality(threads[j]) - 1
        /\ Cardinality(threads[j]) \in Nat
    BY <1>1, <1>11, <2>1, HomeFacts, FS_RemoveElement
  <2>9. ASSUME NEW r \in R PROVE r.num_pointing \in 1..(Cardinality(threads[j]) - 1)
    <3>1. PICK m \in P : r = [m EXCEPT !.num_pointing = @ - 1]
      BY <2>1
    <3>2. m.num_pointing \in 1..Cardinality(threads[j]) /\ ~(m.num_pointing < 2)
      BY <1>1, <1>2, <2>1 DEF PointedAt, Dead
    <3>3. r.num_pointing = m.num_pointing - 1
      BY <2>1, <2>4, <3>1 DEF Regions
    <3> QED BY <2>8, <3>2, <3>3
  <2>10. PointedAt(j)'
    BY <2>1, <2>7, <2>8, <2>9 DEF PointedAt
  <2>11. \A i \in Dirs : PointedAt(i)'
    BY <1>5, <2>1, <2>7, <2>10
  <2>12. freedinamic' \in Nat /\ freedinamic' + Cardinality(q[j]) = freedinamic + Cardinality(regions[j])
    BY <1>1, <2>1, <2>3, <2>4, <2>5, <2>6, <2>7
  <2>13. q = regions' /\ IsFiniteSet(q[j]) /\ \A i \in Dirs \ {j} : q[i] = regions[i]
    BY <2>1, <2>6, <2>7
  <2> QED BY <1>3, <2>7, <2>11, <2>12, <2>13
<1>12. ASSUME NEW t, task_switch(t)
       PROVE  ChunksAccounted' /\ RegionsFinite' /\ freedinamic' \in 0..MAX_DIN
  BY <1>4, <1>12 DEF task_switch
<1> QED BY <1>6, <1>7, <1>8, <1>9, <1>10, <1>11, <1>12 DEF Worked
-----------------------------------------------------------------------------
(* The invariant holds at boot and is kept.                                 *)

Ranked(F, k) == CHOOSE f \in F : Below(F, f) = k

\* Task 1 gets frames in order: those of its code are what CodeFrames says.
BootEntries == EntriesOf(2, CodePages \cup DataPages)
CodeEntries == EntriesOf(2, CodePages)

\* The code frames of start-up.
LEMMA BootCode ==
    ASSUME NEW g, g = Granted({}, BootEntries), NEW E2, E2 = BootEntries, NEW E1, E1 = CodeEntries
    PROVE  /\ DOMAIN g = E2 /\ E1 \subseteq E2 /\ E2 \in SUBSET Entries
           /\ \A pag \in CodePages : g[Entry(2, pag)] = Code(pag)
           /\ \A f : f \in CodeFrames <=> \E e \in E1 : f = g[e]
<1>1. /\ CodePages = Boot(FirstData) /\ CodePages \cup DataPages = Boot(FirstFree)
      /\ CodePages \subseteq Boot(FirstFree)
  BY Sizes DEF Boot, CodePages, DataPages
<1>2. PICK F, h : F = FreeFrames({}) /\ h = Granted({}, E1)
  OBVIOUS
<1>3. /\ DOMAIN Granted({}, EntriesOf(2, Boot(FirstFree))) = EntriesOf(2, Boot(FirstFree))
      /\ Boot(FirstFree) \in SUBSET Pages
      /\ EntriesOf(2, Boot(FirstFree)) = Entry(2, NUM_PAG_KERNEL)..Entry(2, FirstFree - 1)
      /\ \A e \in EntriesOf(2, Boot(FirstFree)) :
            Granted({}, EntriesOf(2, Boot(FirstFree)))[e] =
                CHOOSE f \in FreeFrames({}) :
                    Below(FreeFrames({}), f) = Below(EntriesOf(2, Boot(FirstFree)), e)
  BY BootFrames
<1>4. /\ DOMAIN Granted({}, EntriesOf(2, Boot(FirstData))) = EntriesOf(2, Boot(FirstData))
      /\ EntriesOf(2, Boot(FirstData)) = Entry(2, NUM_PAG_KERNEL)..Entry(2, FirstData - 1)
      /\ \A e \in EntriesOf(2, Boot(FirstData)) :
            Granted({}, EntriesOf(2, Boot(FirstData)))[e] =
                CHOOSE f \in FreeFrames({}) :
                    Below(FreeFrames({}), f) = Below(EntriesOf(2, Boot(FirstData)), e)
  BY BootFrames
<1>5. E2 = EntriesOf(2, Boot(FirstFree)) /\ g = Granted({}, EntriesOf(2, Boot(FirstFree)))
      /\ E1 = EntriesOf(2, Boot(FirstData)) /\ h = Granted({}, EntriesOf(2, Boot(FirstData)))
  BY <1>1, <1>2 DEF BootEntries, CodeEntries
<1>6. /\ DOMAIN g = E2 /\ DOMAIN h = E1
      /\ \A e \in E2 : g[e] = Ranked(F, Below(E2, e))
  <2>1. \A e \in E2 : g[e] = CHOOSE f \in F : Below(F, f) = Below(E2, e)
    BY <1>2, <1>3, <1>5
  <2> QED BY <1>3, <1>4, <1>5, <2>1 DEF Ranked
<1>7. \A e \in E1 : h[e] = Ranked(F, Below(E1, e))
  <2>1. \A e \in E1 : h[e] = CHOOSE f \in F : Below(F, f) = Below(E1, e)
    BY <1>2, <1>4, <1>5
  <2> QED BY <2>1 DEF Ranked
<1>8. PICK lo \in Nat, mid \in Nat, hi \in Nat : E1 = lo..mid /\ E2 = lo..hi /\ mid <= hi
  <2>1. /\ FirstData - 1 \in Nat /\ FirstFree - 1 \in Nat /\ FirstData - 1 <= FirstFree - 1
        /\ 2 \in Dirs
    BY Sizes, CodeFacts
  <2>2. /\ Entry(2, NUM_PAG_KERNEL) = Entry(2, 0) + NUM_PAG_KERNEL /\ Entry(2, 0) \in Nat
        /\ Entry(2, FirstData - 1) = Entry(2, 0) + (FirstData - 1)
        /\ Entry(2, FirstFree - 1) = Entry(2, 0) + (FirstFree - 1)
    BY <2>1, Sizes, EntriesOfRun
  <2>3. E1 = Entry(2, NUM_PAG_KERNEL)..Entry(2, FirstData - 1)
        /\ E2 = Entry(2, NUM_PAG_KERNEL)..Entry(2, FirstFree - 1)
    BY <1>3, <1>4, <1>5
  <2> QED BY <2>1, <2>2, <2>3, Sizes
<1>9. \A e \in E1 : e \in E2 /\ Below(E1, e) = Below(E2, e)
  <2>1. ASSUME NEW e \in E1 PROVE e \in E2 /\ {y \in E1 : y < e} = {y \in E2 : y < e}
    <3>1. e \in Nat /\ e \in E2 /\ \A y : y \in E1 /\ y < e <=> y \in E2 /\ y < e
      BY ONLY <1>8, <2>1
    <3> QED BY ONLY <3>1
  <2> QED BY <2>1 DEF Below
<1>10. \A e \in E1 : g[e] = h[e]
  BY ONLY <1>6, <1>7, <1>9
<1>11. \A pag \in CodePages : Entry(2, pag) \in E1 /\ Code(pag) = h[Entry(2, pag)]
  BY <1>2 DEF EntriesOf, Code, CodeEntries
<1>12. \A f : f \in CodeFrames <=> \E e \in E1 : f = h[e]
  BY <1>2, <1>6 DEF CodeFrames, FramesOf, CodeEntries
<1>13. E2 \in SUBSET Entries
  BY <1>3, <1>5, CodeFacts, EntriesOfFacts
<1> QED BY <1>6, <1>9, <1>10, <1>11, <1>12, <1>13

\* Start-up gives each entry a frame of its own.
LEMMA BootOwned ==
    ASSUME Init
    PROVE  Owned(PT, used) /\ CodeFrames \subseteq used
           /\ (\A pag \in CodePages : PT[Entry(2, pag)] = Code(pag))
           /\ (\A pag \in DataPages : PT[Entry(2, pag)] # Absent)
<1>1. PICK E2, E1, g, rows :
            /\ E2 = BootEntries /\ E1 = CodeEntries /\ g = Granted({}, BootEntries)
            /\ rows = [e \in Entries |-> IF e % TOTAL_PAGES \in 1..(NUM_PAG_KERNEL - 1)
                                         THEN e % TOTAL_PAGES ELSE Absent]
  OBVIOUS
<1>2. PT = Mapped(rows, g) /\ used = FramesOf(g)
  BY <1>1 DEF Init, BootEntries
<1>0. E2 = BootEntries /\ E1 = CodeEntries /\ g = Granted({}, BootEntries) /\ g = Granted({}, E2)
  BY <1>1
<1>3. /\ DOMAIN g = E2 /\ E1 \subseteq E2 /\ E2 \in SUBSET Entries
      /\ \A pag \in CodePages : g[Entry(2, pag)] = Code(pag)
      /\ \A f : f \in CodeFrames <=> \E e \in E1 : f = g[e]
  BY ONLY <1>0, BootCode
<1>4. /\ \A e \in DOMAIN g : g[e] \in Frames
      /\ \A e, e2 \in DOMAIN g : g[e] = g[e2] => e = e2
  BY ONLY <1>0, <1>3, GrantedFacts
<1>5. \A e \in Entries : PT[e] = IF e \in E2 THEN g[e] ELSE rows[e]
  BY <1>2, <1>3 DEF Mapped
<1>6. \A f : f \in used <=> \E e \in E2 : f = g[e]
  BY <1>2, <1>3 DEF FramesOf
<1>7. ASSUME NEW e \in Entries
      PROVE  /\ rows[e] \in Pages \cup {Absent} /\ rows[e] \in LowValues
             /\ e \in UserPart => rows[e] = Absent
  <2>1. rows[e] = IF e % TOTAL_PAGES \in 1..(NUM_PAG_KERNEL - 1) THEN e % TOTAL_PAGES ELSE Absent
    BY <1>1
  <2>2. 1..(NUM_PAG_KERNEL - 1) \subseteq Pages /\ 1..(NUM_PAG_KERNEL - 1) \subseteq LowValues
        /\ Absent \in LowValues
    BY Sizes DEF Pages, LowValues, Absent
  <2>3. e \in UserPart => ~(e % TOTAL_PAGES \in 1..(NUM_PAG_KERNEL - 1))
    BY Sizes DEF UserPart
  <2> QED BY <2>1, <2>2, <2>3
<1>8. \A e \in E2 \ E1 : e \in UserPart
  <2>1. PICK D : D = EntriesOf(2, DataPages)
    OBVIOUS
  <2>2. DataPages \in SUBSET Pages /\ DataPages \subseteq FirstData..(TOTAL_PAGES - 1) /\ 2 \in Dirs
    BY Sizes, CodeFacts DEF DataPages, Pages
  <2>3. D \subseteq UserPart
    BY <2>1, <2>2, EntriesOfFacts
  <2>4. \A e \in E2 : e \in E1 \/ e \in D
    BY <1>0, <2>1 DEF EntriesOf, BootEntries, CodeEntries
  <2> QED BY <2>3, <2>4
<1>9. \A e \in E1 : e \notin UserPart
  <2>1. CodePages \in SUBSET Pages /\ CodePages \subseteq 0..(FirstData - 1) /\ 2 \in Dirs
    BY CodeIs, CodeFacts
  <2>2. E1 \cap UserPart = {}
    BY <1>0, <2>1, EntriesOfFacts DEF CodeEntries
  <2> QED BY <2>2
<1>10. Frames \subseteq Pages /\ \A f \in Frames : f # Absent
  BY FramesFinite, EntriesFinite
<1>11. PT \in [Entries -> Pages \cup {Absent}]
  <2>1. DOMAIN PT = Entries /\ PT = [e \in Entries |-> PT[e]]
    BY <1>2 DEF Mapped
  <2>2. \A e \in Entries : PT[e] \in Pages \cup {Absent}
    BY <1>3, <1>4, <1>5, <1>7, <1>10
  <2> QED BY <2>1, <2>2
<1>12. used \subseteq Frames
  BY <1>3, <1>4, <1>6
<1>13. \A e \in Entries \ UserPart : PT[e] \in LowValues
  <2>1. \A e \in E1 : g[e] \in LowValues
    BY <1>3 DEF LowValues
  <2> QED BY <1>5, <1>7, <1>8, <2>1
<1>14. ASSUME NEW e \in UserPart, PT[e] # Absent
       PROVE  /\ PT[e] \in used \ CodeFrames
              /\ \A e2 \in UserPart : PT[e2] = PT[e] => e2 = e
  <2>1. \A x \in UserPart : x \in Entries
    BY DEF UserPart
  <2>2. e \in E2 /\ PT[e] = g[e] /\ e \notin E1
    BY <1>5, <1>7, <1>9, <1>14, <2>1
  <2>3. PT[e] \in used \ CodeFrames
    BY <1>3, <1>4, <1>6, <2>2
  <2>4. ASSUME NEW e2 \in UserPart, PT[e2] = PT[e] PROVE e2 = e
    <3>1. e2 \in E2 /\ PT[e2] = g[e2]
      BY <1>5, <1>7, <1>14, <2>1, <2>4
    <3> QED BY <1>3, <1>4, <2>2, <2>4, <3>1
  <2> QED BY <2>3, <2>4
<1>15. Owned(PT, used)
  BY <1>11, <1>12, <1>13, <1>14 DEF Owned
<1>16. CodeFrames \subseteq used
  BY <1>3, <1>6
<1>17. \A pag \in CodePages \cup DataPages : Entry(2, pag) \in E2 /\ Entry(2, pag) \in Entries
  <2>1. \A pag \in CodePages \cup DataPages : Entry(2, pag) \in E2
    BY <1>0 DEF EntriesOf, BootEntries
  <2> QED BY <1>3, <2>1
<1>18. \A pag \in CodePages : PT[Entry(2, pag)] = Code(pag)
  BY <1>3, <1>5, <1>17
<1>19. \A pag \in DataPages : PT[Entry(2, pag)] # Absent
  BY <1>3, <1>4, <1>5, <1>10, <1>17
<1> QED BY <1>15, <1>16, <1>18, <1>19
-----------------------------------------------------------------------------
\* The invariant holds at start-up.
LEMMA InitMemInv == Init => MemInv
<1> SUFFICES ASSUME Init PROVE MemInv
  OBVIOUS
<1>1. /\ pointing_dir = [d \in Dirs |-> IF d <= 2 THEN 1 ELSE 0]
      /\ threads = [d \in Dirs |-> IF d = 2 THEN {Task1} ELSE {}]
      /\ regions = [d \in Dirs |-> {}] /\ freedinamic = MAX_DIN /\ live = {Task1}
      /\ dir = [t \in Tasks |-> IF t = Idle THEN 1 ELSE IF t = Task1 THEN 2 ELSE 0]
      /\ PID = [t \in Tasks |-> IF t = Idle THEN 0 ELSE IF t = Task1 THEN 1 ELSE -1]
      /\ stack = [t \in Tasks |-> {}]
      /\ current = Task1 /\ cr3 = 2 /\ broken = "no"
  BY DEF Init
<1>2. /\ Idle \in Tasks /\ Task1 \in Tasks /\ Idle # Task1
      /\ 0 \in Dirs /\ 1 \in Dirs /\ 2 \in Dirs /\ 0 \in 0..NR_TASKS /\ 1 \in 0..NR_TASKS
      /\ MAX_DIN \in Nat
  BY MemAssumption, Sizes DEF Dirs
<1>3. /\ Owned(PT, used) /\ CodeFrames \subseteq used
      /\ \A pag \in CodePages : PT[Entry(2, pag)] = Code(pag)
      /\ \A pag \in DataPages : PT[Entry(2, pag)] # Absent
  BY BootOwned
<1>4. /\ threads[2] = {Task1} /\ \A i \in Dirs \ {2} : threads[i] = {}
      /\ dir[Task1] = 2 /\ dir[Idle] = 1 /\ PID[Task1] = 1 /\ PID[Idle] = 0
      /\ \A i \in Dirs : regions[i] = {}
      /\ \A t \in Tasks : stack[t] = {}
      /\ pointing_dir[2] = 1
  BY <1>1, <1>2
<1>5. MemTypeOK /\ PID \in [Tasks -> Int]
  <2>1. used \subseteq Frames /\ PT \in [Entries -> Pages \cup {Absent}]
    BY <1>3 DEF Owned
  <2>2. pointing_dir \in [Dirs -> 0..NR_TASKS] /\ threads \in [Dirs -> SUBSET Tasks]
    BY <1>1, <1>2
  <2>3. regions \in [Dirs -> SUBSET Regions] /\ freedinamic \in 0..MAX_DIN
    BY <1>1, <1>2
  <2>4. /\ live \subseteq Tasks \ {Idle} /\ dir \in [Tasks -> Dirs]
        /\ stack \in [Tasks -> SUBSET (FirstFree..(TOTAL_PAGES - 1))]
        /\ current \in live \cup {Idle} /\ cr3 \in Dirs
    BY <1>1, <1>2
  <2>5. PID \in [Tasks -> Int]
    BY <1>1
  <2> QED BY <2>1, <2>2, <2>3, <2>4, <2>5 DEF MemTypeOK
<1>6. PidsTell
  BY <1>1, <1>4 DEF PidsTell
<1>7. ThreadsTell
  <2>1. Cardinality({Task1}) = 1
    BY FS_Singleton
  <2> QED BY <1>1, <1>4, <2>1 DEF ThreadsTell
<1>8. CodeThere
  BY <1>1, <1>3, <1>4 DEF CodeThere
<1>9. RegionsFinite
  BY <1>4, FS_EmptySet DEF RegionsFinite
<1>10. ChunksAccounted
  <2>1. Chunks = {}
    BY <1>4 DEF Chunks
  <2>2. Cardinality(Chunks) = 0
    BY <2>1, FS_EmptySet
  <2> QED BY <1>1, <1>2, <1>4, <2>2 DEF ChunksAccounted
<1>11. SpaceKept
  <2>1. PICK T, R, st : T = threads[2] /\ R = regions[2] /\ st = stack
    OBVIOUS
  <2>2. T = {Task1} /\ R = {} /\ st[Task1] = {}
    BY <1>2, <1>4, <2>1
  <2>3. \A p \in HeldBy(T, st, R) : p \in DataPages
    BY <2>2, HeldIn
  <2>4. ApartBy(T, st, R)
    BY <2>2 DEF ApartBy
  <2>5. Whole(2)
    BY <1>3, <2>1, <2>3, <2>4 DEF Whole
  <2>6. \A t \in live : Whole(dir[t])
    BY <1>1, <1>4, <2>5
  <2> QED BY <2>6, SpaceIs
<1>12. LoadedSpace
  BY <1>1, <1>4 DEF LoadedSpace
<1> QED BY <1>3, <1>5, <1>6, <1>7, <1>8, <1>9, <1>10, <1>11, <1>12 DEF MemInv

\* And every step keeps it.
LEMMA StepMemInv == MemInv /\ [Next]_vars => MemInv'
<1> SUFFICES ASSUME MemInv, [Next]_vars PROVE MemInv'
  OBVIOUS
<1>1. CASE UNCHANGED vars
  <2>1. /\ MemTypeOK' /\ PID' \in [Tasks -> Int] /\ Owned(PT', used') /\ broken' = broken
    BY <1>1 DEF MemInv, MemTypeOK, vars
  <2>2. broken = "no" => PidsTell' /\ ThreadsTell' /\ CodeThere' /\ RegionsFinite'
    BY <1>1 DEF MemInv, PidsTell, ThreadsTell, CodeThere, RegionsFinite, vars
  <2>3. ChunksAccounted' /\ LoadedSpace'
    BY <1>1 DEF MemInv, ChunksAccounted, Chunks, LoadedSpace, vars
  <2>4. SpaceKept'
    BY <1>1 DEF MemInv, SpaceKept, Held, Apart, is_assigned, vars
  <2> QED BY <2>1, <2>2, <2>3, <2>4 DEF MemInv
<1>2. CASE Broke
  BY <1>2 DEF Broke, MemInv, ChunksAccounted, SpaceKept, LoadedSpace
<1>3. CASE Sane /\ Worked
  <2>1. Typed' /\ PidsTell' /\ LoadedSpace' /\ ThreadsTell' /\ CodeThere' /\ SpaceKept'
    BY <1>3, TypesStay, PidsKept, ThreadsKept, CodeStays, SpaceStays
  <2>2. ChunksAccounted' /\ RegionsFinite' /\ freedinamic' \in 0..MAX_DIN
    BY <1>3, ChunksStay
  <2>3. MemTypeOK' /\ PID' \in [Tasks -> Int] /\ Owned(PT', used')
    BY <2>1, <2>2 DEF Typed, Owned, MemTypeOK
  <2> QED BY <2>1, <2>2, <2>3 DEF MemInv
<1>4. Next => UNCHANGED vars \/ Broke \/ (Sane /\ Worked)
  <2>1. CASE broken = "no"
    BY <2>1, Outcomes DEF Sane
  <2>2. CASE broken # "no"
    BY <2>2 DEF Next, Stopped
  <2> QED BY <2>1, <2>2
<1> QED BY <1>1, <1>2, <1>3, <1>4

\* The invariant of the specification.
THEOREM MemoryInvariant == Spec => []MemInv
BY InitMemInv, StepMemInv, PTL DEF Spec

\* Memory!FrameOwnership: a frame holds one page beyond the code, is marked
\* used, and holds no code, whatever alloc_frame and free_frame were asked.
THEOREM FramesStayOwned == Spec => []FrameOwnership
<1>1. MemInv => FrameOwnership
  BY OwnedIs DEF MemInv
<1> QED BY <1>1, MemoryInvariant, PTL

\* Memory!DirectoryUse: pointing_dir and threads_lists count the live tasks of
\* a directory, by which exit knows the last one.
THEOREM DirectoriesCounted == Spec => []DirectoryUse
<1>1. MemInv => DirectoryUse
  <2> SUFFICES ASSUME MemInv, broken = "no", NEW t \in live
               PROVE  /\ threads[dir[t]] = {u \in live : dir[u] = dir[t]}
                      /\ pointing_dir[dir[t]] = Cardinality({u \in live : dir[u] = dir[t]})
    BY DEF DirectoryUse
  <2>1. dir[t] \in Dirs
    BY DEF MemInv, MemTypeOK
  <2>2. PICK i \in Dirs : i = dir[t]
    BY <2>1
  <2>3. threads[i] = {u \in live : dir[u] = i}
        /\ (threads[i] # {} => pointing_dir[i] = Cardinality(threads[i]))
    BY DEF MemInv, ThreadsTell
  <2>4. t \in threads[i]
    BY <2>2, <2>3
  <2> QED BY <2>2, <2>3, <2>4
<1> QED BY <1>1, MemoryInvariant, PTL

\* Memory!ChunksAccounted: every mem_chunk is free or on one list, and
\* num_pointing lies between one and the number of threads.
THEOREM ChunksStayAccounted == Spec => []ChunksAccounted
<1>1. MemInv => ChunksAccounted
  BY DEF MemInv
<1> QED BY <1>1, MemoryInvariant, PTL

\* Memory!SpacesSound: a live process has its program and all it was given.
THEOREM SpacesStaySound == Spec => []SpacesSound
<1>1. MemInv => SpacesSound
  <2> SUFFICES ASSUME MemInv PROVE SpacesSound
    OBVIOUS
  <2>1. CodeKept
    <3> SUFFICES ASSUME broken = "no", NEW t \in live, NEW pag \in CodePages
                 PROVE  PT[Entry(dir[t], pag)] = PT[Entry(2, pag)] /\ PT[Entry(2, pag)] \in used
      BY DEF CodeKept
    <3>1. PT[Entry(2, pag)] = Code(pag) /\ PT[Entry(dir[t], pag)] = Code(pag)
          /\ CodeFrames \subseteq used
      BY DEF MemInv, CodeThere
    <3> QED BY <3>1, CodeIs
  <2> QED BY <2>1 DEF MemInv, SpacesSound
<1> QED BY <1>1, MemoryInvariant, PTL

\* Memory!LoadedSpace: cr3 holds the directory of the running task.
THEOREM OwnSpaceLoaded == Spec => []LoadedSpace
<1>1. MemInv => LoadedSpace
  BY DEF MemInv
<1> QED BY <1>1, MemoryInvariant, PTL
-----------------------------------------------------------------------------
(* What a step may never do.                                                *)

\* Memory!OnlyForkLosesDirectories: a directory that no task uses is free
\* again, unless a fork took it and ran out of frames.
THEOREM ForksLoseDirectories == Spec => OnlyForkLosesDirectories
<1>1. ASSUME MemInv, Next, ~ UNCHANGED vars, NEW d \in Dirs,
             broken' = "no", Unused(d)', ~ Unused(d)
      PROVE  \E c \in FreeTasks : sys_fork(c) /\ live' = live
  <2>1. Sane
    BY <1>1 DEF Sane, Next, Stopped
  <2>2. Worked
    BY <1>1, <2>1, Outcomes DEF Broke
  <2>3. d > 1 /\ pointing_dir'[d] # 0 /\ \A t \in live' : dir'[t] # d
    BY <1>1 DEF Unused
  <2>4. pointing_dir[d] = 0 \/ \E t \in live : dir[t] = d
    BY <1>1, <2>3 DEF Unused
  <2>5. /\ pointing_dir \in [Dirs -> 0..NR_TASKS] /\ live \subseteq Tasks \ {Idle}
        /\ dir \in [Tasks -> Dirs]
    BY <2>1, SaneFacts
  <2>6. ASSUME NEW c \in FreeTasks, NEW i \in Dirs, Copied(c, i) PROVE FALSE
    <3>1. c \in Tasks /\ c \notin live
      BY DEF FreeTasks
    <3>2. /\ pointing_dir' = [pointing_dir EXCEPT ![i] = 1] /\ live' = live \cup {c}
          /\ dir' = [dir EXCEPT ![c] = i]
      BY <2>6 DEF Copied
    <3>3. d # i
      BY <2>3, <2>5, <3>1, <3>2
    <3>4. pointing_dir'[d] = pointing_dir[d]
      BY <2>5, <3>2, <3>3
    <3>5. \A t \in live : t \in live' /\ dir'[t] = dir[t]
      BY <2>5, <3>1, <3>2
    <3> QED BY <2>3, <2>4, <3>4, <3>5
  <2>7. ASSUME current # Idle, NEW c \in FreeTasks, NEW S, Threaded(c, S) PROVE FALSE
    <3>1. c \in Tasks /\ c \notin live /\ current \in live /\ home \in Dirs
      BY <2>1, <2>7, HomeFacts DEF FreeTasks
    <3>2. /\ pointing_dir' = [pointing_dir EXCEPT ![home] = @ + 1] /\ live' = live \cup {c}
          /\ dir' = [dir EXCEPT ![c] = home]
      BY <2>7 DEF Threaded
    <3>3. \A t \in live : t \in live' /\ dir'[t] = dir[t]
      BY <2>5, <3>1, <3>2
    <3>4. d # home
      BY <2>3, <3>1, <3>3 DEF home
    <3>5. pointing_dir'[d] = pointing_dir[d]
      BY <2>5, <3>2, <3>4
    <3> QED BY <2>3, <2>4, <3>3, <3>5
  <2>8. ASSUME UNCHANGED <<pointing_dir, live, dir>> PROVE FALSE
    BY <2>3, <2>4, <2>8
  <2>9. ASSUME current # Idle, Left PROVE FALSE
    <3>1. /\ home \in Dirs /\ pointing_dir[home] = Cardinality(threads[home])
          /\ current \in Tasks
      BY <2>1, <2>9, HomeFacts
    <3>2. /\ pointing_dir' = [pointing_dir EXCEPT ![home] = @ - 1] /\ live' = live \ {current}
          /\ dir' = [dir EXCEPT ![current] = 0]
      BY <2>9 DEF Left
    <3>3. \A t \in live \ {current} : dir[t] # d
      BY <2>3, <2>5, <3>2
    <3>4. CASE d = home
      <4>1. threads[home] = {u \in live : dir[u] = home} /\ current \in threads[home]
        BY <2>1, <2>9, <3>1, HomeFacts DEF Sane, MemInv, ThreadsTell
      <4>2. threads[home] = {current}
        BY <3>3, <3>4, <4>1
      <4>3. pointing_dir[home] = 1
        BY <3>1, <4>2, FS_Singleton
      <4>4. pointing_dir'[d] = 0
        BY <2>5, <3>1, <3>2, <3>4, <4>3
      <4> QED BY <2>3, <4>4
    <3>5. CASE d # home
      <4>1. pointing_dir'[d] = pointing_dir[d]
        BY <2>5, <3>2, <3>5
      <4> QED BY <2>3, <2>4, <3>3, <3>5, <4>1 DEF home
    <3> QED BY <3>4, <3>5
  <2>10. ASSUME NEW i, CopyFailed(i) PROVE live' = live
    BY <2>10 DEF CopyFailed
  <2> QED BY <2>2, <2>6, <2>7, <2>8, <2>9, <2>10 DEF Worked, Got, Deleted, task_switch
<1>2. MemInv /\ [Next]_vars => [\A d \in Dirs : broken' = "no" /\ Unused(d)' /\ ~Unused(d)
             => \E c \in FreeTasks : sys_fork(c) /\ live' = live]_vars
  BY <1>1
<1> QED BY <1>2, MemoryInvariant, PTL DEF Spec, OnlyForkLosesDirectories

\* Memory!UndoSparesProgram: a create_thread that runs out of frames leaves the
\* program of its process, and all before it in the table, alone.
THEOREM UndoStaysBehindProgram == Spec => UndoSparesProgram
<1>1. ASSUME MemInv, Next, ~ UNCHANGED vars, NEW c \in FreeTasks, NEW n \in 1..MaxPages,
             create_thread(c, n), c \notin live', NEW e \in 0..(Entry(home, FirstFree) - 1)
      PROVE  PT'[e] = PT[e]
  <2>1. Sane
    BY <1>1 DEF Sane, Next, Stopped
  <2>2. home \in Dirs
    BY <2>1, SaneFacts DEF home
  <2>3. PICK pag, S, g : /\ pag = Min(Gaps(PT, home, n)) /\ S = pag..(pag + n - 1)
                         /\ g = Granted(used, EntriesOf(home, S))
    OBVIOUS
  <2>4. PICK i, clean : i = pag + Cardinality(DOMAIN g) /\ clean = Undone(pag, n, i)
    OBVIOUS
  <2>5. Gaps(PT, home, n) # {}
    BY <1>1 DEF create_thread
  <2>6. pag \in FirstFree..(TOTAL_PAGES - 1) /\ pag \in Nat /\ n \in Nat
    BY <2>1, <2>3, <2>5, GapFacts
  <2>7. PT' = del_ss_pag(Mapped(PT, g), clean)
    BY <1>1, <2>3, <2>4 DEF create_thread
  <2>8. PICK z \in Nat : z = Entry(home, 0)
    BY <2>2, Sizes, EntriesOfRun
  <2>9. Entry(home, pag) = z + pag /\ Entry(home, FirstFree) = z + FirstFree
    BY <2>2, <2>6, <2>8, Sizes, EntriesOfRun
  <2>10. e \in Nat /\ e < Entry(home, pag) /\ Entry(home, pag) \in Nat
    BY <2>6, <2>8, <2>9, Sizes
  <2>11. e \in Entries
    <3>1. Entry(home, pag) \in Entries
      BY <2>2, <2>6, EntryFacts, Sizes DEF Pages
    <3>2. NR_TASKS * TOTAL_PAGES \in Int
      BY Sizes
    <3> QED BY <2>10, <3>1, <3>2 DEF Entries
  <2>12. e \notin clean
    BY <2>4, <2>10 DEF Undone
  <2>13. e \notin DOMAIN g
    <3>1. pag + n - 1 \in Int
      BY <2>6
    <3>2. EntriesOf(home, S) = Entry(home, pag)..Entry(home, pag + n - 1)
      BY <2>2, <2>3, <2>6, <3>1, EntriesOfRun
    <3>3. DOMAIN g \subseteq EntriesOf(home, S)
      BY <2>3 DEF Granted
    <3> QED BY <2>10, <3>2, <3>3
  <2> QED BY <2>7, <2>11, <2>12, <2>13 DEF del_ss_pag, Mapped
<1>2. MemInv /\ [Next]_vars => [\A c \in FreeTasks, n \in 1..MaxPages :
         create_thread(c, n) /\ c \notin live'
           => \A e \in 0..(Entry(home, FirstFree) - 1) : PT'[e] = PT[e]]_vars
  BY <1>1
<1> QED BY <1>2, MemoryInvariant, PTL DEF Spec, UndoSparesProgram

\* Memory!DropsNoFrame: no call but fork leaves a frame marked that nothing
\* maps, whether the call succeeds or fails.
THEOREM OnlyForkDropsFrames == Spec => DropsNoFrame
<1>1. ASSUME MemInv, Next, ~ UNCHANGED vars, \A c \in FreeTasks : ~ sys_fork(c)
      PROVE  used' \ InUse(used', PT') \subseteq used \ InUse(used, PT)
  <2>1. Sane
    BY <1>1 DEF Sane, Next, Stopped
  <2>2. ASSUME current # Idle, NEW c \in FreeTasks, NEW n \in 1..MaxPages, create_thread(c, n)
        PROVE  NoneDropped
    BY <1>1, <2>1, <2>2, ThreadFacts DEF Threaded, Taken
  <2>3. ASSUME current # Idle, NEW n \in 1..MaxPages, memRegGet(n) PROVE NoneDropped
    BY <1>1, <2>1, <2>3, GetFacts DEF Got, Taken
  <2>4. ASSUME current # Idle, NEW m \in regions[home], memRegDel(m) PROVE NoneDropped
    BY <2>1, <2>4, DeleteFacts DEF Deleted, GivenBack
  <2>5. ASSUME current # Idle, sys_exit PROVE NoneDropped
    BY <2>1, <2>5, ExitFacts DEF Left, GivenBack
  <2>6. ASSUME NEW t, task_switch(t) PROVE NoneDropped
    BY <2>6 DEF task_switch, NoneDropped
  <2>7. NoneDropped
    BY <1>1, <2>1, <2>2, <2>3, <2>4, <2>5, <2>6 DEF Next, Syscall, Stopped, Sane
  <2> QED BY <2>7 DEF NoneDropped, Dropped
<1>2. MemInv /\ [Next]_vars => [(\A c \in FreeTasks : ~ sys_fork(c))
         => used' \ InUse(used', PT') \subseteq used \ InUse(used, PT)]_vars
  BY <1>1
<1> QED BY <1>2, MemoryInvariant, PTL DEF Spec, DropsNoFrame

\* Memory!LastExitFreesHoldings: after the exit of its last thread nothing
\* that a process held is mapped in its directory.
THEOREM LastExitFreesAll == Spec => LastExitFreesHoldings
<1>1. ASSUME MemInv, Next, ~ UNCHANGED vars, broken = "no", sys_exit, threads'[home] = {},
             NEW pag \in Held(home)
      PROVE  ~ is_assigned(PT', home, pag)
  <2>1. Sane
    BY <1>1 DEF Sane
  <2>2. current # Idle
    <3> SUFFICES ASSUME current = Idle PROVE FALSE
      OBVIOUS
    <3>1. PID' = [PID EXCEPT ![current] = -1] /\ current \in Tasks /\ PID \in [Tasks -> Int]
      BY <1>1, <2>1, SaneFacts DEF sys_exit
    <3>2. PID[Idle] \in Nat
      BY <2>1 DEF Sane, MemInv, PidsTell
    <3>3. PID' = PID
      BY <1>1, <2>1 DEF Next, Syscall, Stopped, Sane, task_switch
    <3> QED BY <3>1, <3>2, <3>3
  <2>3. Left
    BY <1>1, <2>1, <2>2, ExitFacts
  <2>4. /\ home \in Dirs /\ current \in threads[home] /\ threads \in [Dirs -> SUBSET Tasks]
        /\ regions[home] \subseteq Regions
    BY <2>1, <2>2, HomeFacts, SaneFacts
  <2>5. threads[home] = {current}
    <3>1. threads'[home] = threads[home] \ {current}
      BY <2>3, <2>4 DEF Left
    <3> QED BY <1>1, <2>4, <3>1
  <2>6. \A m \in regions[home] : m \in Dead(regions[home])
    <3>1. \A m \in regions[home] : m.num_pointing \in 1..1
      BY <2>1, <2>4, <2>5, FS_Singleton DEF Sane, MemInv, ChunksAccounted
    <3> QED BY <3>1 DEF Dead
  <2>7. pag \in ExitPages
    <3>1. pag \in HeldBy(threads[home], stack, regions[home])
      BY DEF Held, HeldBy
    <3>2. \/ pag \in DataPages \/ pag \in stack[current]
          \/ \E m \in regions[home] : pag \in PagesOf(m)
      BY <2>5, <3>1, HeldIn
    <3> QED BY <2>5, <2>6, <3>2 DEF ExitPages
  <2>8. PT'[Entry(home, pag)] = Absent
    BY <2>3, <2>7 DEF Left, GivenBack
  <2> QED BY <2>8 DEF is_assigned
<1>2. MemInv /\ [Next]_vars => [broken = "no" /\ sys_exit /\ threads'[home] = {}
         => \A pag \in Held(home) : ~ is_assigned(PT', home, pag)]_vars
  BY <1>1
<1> QED BY <1>2, MemoryInvariant, PTL DEF Spec, LastExitFreesHoldings
=============================================================================
