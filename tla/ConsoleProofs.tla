--------------------------- MODULE ConsoleProofs ---------------------------
(***************************************************************************)
(* Proofs about Console, for any screen, memory, text and buffer.          *)
(***************************************************************************)
EXTENDS Console, ListTheorems

-----------------------------------------------------------------------------
(* Arithmetic of pages and of the screen, with products.                    *)

\* Multiplying keeps the order.
LEMMA TimesGrows ==
    ASSUME NEW p \in Nat, NEW u \in Int, NEW v \in Int, u <= v
    PROVE  p * u <= p * v
<1>1. PICK k \in Nat : v = u + k
  <2>1. v - u \in Nat /\ v = u + (v - u)
    OBVIOUS
  <2> QED BY <2>1
<1>2. p * v = p * u + p * k /\ p * k >= 0
  BY <1>1
<1> QED BY <1>2

\* A number lies between the multiples that its quotient says.
LEMMA DivBounds ==
    ASSUME NEW p \in Nat \ {0}, NEW a \in Nat
    PROVE  /\ a \div p \in Nat
           /\ p * (a \div p) <= a /\ a < p * (a \div p) + p
OBVIOUS

\* What is between two multiples that follow each other has the quotient of
\* the first.
LEMMA DivUnique ==
    ASSUME NEW p \in Nat \ {0}, NEW a \in Nat, NEW q \in Nat,
           p * q <= a, a < p * q + p
    PROVE  a \div p = q
<1>1. PICK d \in Nat : d = a \div p
  BY DivBounds
<1>2. p * d <= a /\ a < p * d + p
  BY <1>1, DivBounds
<1>3. ASSUME d < q PROVE FALSE
  <2>1. p * (d + 1) <= p * q /\ p * (d + 1) = p * d + p
    BY <1>3, TimesGrows
  <2> QED BY <1>2, <2>1
<1>4. ASSUME q < d PROVE FALSE
  <2>1. p * (q + 1) <= p * d /\ p * (q + 1) = p * q + p
    BY <1>4, TimesGrows
  <2> QED BY <1>2, <2>1
<1> QED BY <1>1, <1>3, <1>4

\* Pages are in the order of their addresses.
LEMMA DivGrows ==
    ASSUME NEW p \in Nat \ {0}, NEW a \in Nat, NEW b \in Nat, a <= b
    PROVE  a \div p <= b \div p
<1>1. PICK d \in Nat, e \in Nat : d = a \div p /\ e = b \div p
  BY DivBounds
<1>2. p * d <= a /\ b < p * e + p
  BY <1>1, DivBounds
<1>3. ASSUME e < d PROVE FALSE
  <2>1. p * (e + 1) <= p * d /\ p * (e + 1) = p * e + p
    BY <1>3, TimesGrows
  <2> QED BY <1>2, <2>1
<1> QED BY <1>1, <1>3

\* An address that is a page or more below another is on a page below.
LEMMA DivShrinks ==
    ASSUME NEW p \in Nat \ {0}, NEW a \in Nat, NEW b \in Nat, a + p <= b
    PROVE  a \div p < b \div p
<1>1. PICK d \in Nat, e \in Nat : d = a \div p /\ e = b \div p
  BY DivBounds
<1>2. p * d <= a /\ b < p * e + p
  BY <1>1, DivBounds
<1>3. ASSUME e <= d PROVE FALSE
  <2>1. p * e <= p * d
    BY <1>3, TimesGrows
  <2> QED BY <1>2, <2>1
<1> QED BY <1>1, <1>3

\* Addresses and coordinates go round at most once.
LEMMA Wrap ==
    ASSUME NEW n \in Nat \ {0}, NEW i \in 0..(2 * n - 1)
    PROVE  i % n = IF i < n THEN i ELSE i - n
<1>1. CASE i < n
  BY <1>1
<1>2. CASE i >= n
  BY <1>2
<1> QED BY <1>1, <1>2

\* The successor, round the end.
LEMMA WrapNext ==
    ASSUME NEW n \in Nat \ {0}, NEW i \in 0..(n - 1)
    PROVE  (i + 1) % n = IF i + 1 < n THEN i + 1 ELSE 0
<1>1. n \in Nat /\ n # 0 /\ i \in Nat /\ i < n
  OBVIOUS
<1>2. PICK j : j = i + 1
  OBVIOUS
<1>3. j \in 0..(2 * n - 1)
  BY <1>1, <1>2
<1>4. j % n = IF j < n THEN j ELSE j - n
  BY <1>3, Wrap
<1> QED BY <1>1, <1>2, <1>4
-----------------------------------------------------------------------------
(* sys_write_console, one character after the other.                        *)

\* The greatest of a set of numbers.
LEMMA MaxIs ==
    ASSUME NEW S \in SUBSET Nat, NEW m \in S, \A z \in S : m >= z
    PROVE  Max(S) = m
<1>1. Max(S) \in S /\ \A z \in S : Max(S) >= z
  <2> DEFINE P(k) == \A z \in S : k >= z
  <2>1. \E k \in S : P(k)
    OBVIOUS
  <2>2. Max(S) = CHOOSE k \in S : P(k)
    BY DEF Max
  <2> HIDE DEF P
  <2>3. Max(S) \in S /\ P(Max(S))
    BY <2>1, <2>2
  <2> QED BY <2>3 DEF P
<1>2. PICK k : k = Max(S)
  OBVIOUS
<1>3. k \in Nat /\ m \in Nat /\ k >= m /\ m >= k
  BY <1>1, <1>2
<1> QED BY ONLY <1>2, <1>3

\* The cursor and the words after i characters of text.
IsRun(f, s, text, n) ==
    /\ f[0] = s
    /\ \A i \in 1..n : f[i] = printc(f[i - 1], text[i])

\* What MapThenFoldSet computes for the prefixes of text.
FoldStep(s, text, f, S) ==
    IF S = {} THEN s ELSE printc(f[S \ {Max(S)}], text[Max(S)])

\* The fold over the subsets of DOMAIN text is well defined.
LEMMA FoldExists ==
    ASSUME NEW s, NEW text
    PROVE  \A n \in Nat : \E f : f = [S \in SUBSET (1..n) |-> FoldStep(s, text, f, S)]
<1> DEFINE Rec(f, n) == f = [S \in SUBSET (1..n) |-> FoldStep(s, text, f, S)]
           H == {n \in Nat : \E f : Rec(f, n)}
<1>1. 0 \in H
  <2> DEFINE g == [S \in SUBSET (1..0) |-> s]
  <2>1. \A S \in SUBSET (1..0) : S = {}
    OBVIOUS
  <2>2. Rec(g, 0)
    BY <2>1 DEF FoldStep
  <2> QED BY <2>2
<1>2. ASSUME NEW n \in Nat, n \in H
      PROVE  n + 1 \in H
  <2>1. PICK f : Rec(f, n)
    BY <1>2
  <2> DEFINE g == [S \in SUBSET (1..(n + 1)) |->
                     IF n + 1 \in S THEN printc(f[S \ {n + 1}], text[n + 1]) ELSE f[S]]
  <2>2. ASSUME NEW S \in SUBSET (1..(n + 1))
        PROVE  g[S] = FoldStep(s, text, g, S)
    <3>1. CASE n + 1 \in S
      <4>1. Max(S) = n + 1
        BY <3>1, MaxIs
      <4>2. S \ {n + 1} \in SUBSET (1..n) /\ n + 1 \notin S \ {n + 1}
            /\ S \ {n + 1} \in SUBSET (1..(n + 1))
        OBVIOUS
      <4>3. g[S \ {n + 1}] = f[S \ {n + 1}]
        BY <4>2
      <4> QED BY <3>1, <4>1, <4>3 DEF FoldStep
    <3>2. CASE n + 1 \notin S
      <4>1. S \in SUBSET (1..n) /\ g[S] = f[S]
        BY <3>2
      <4>2. f[S] = FoldStep(s, text, f, S)
        BY <2>1, <4>1
      <4>3. ASSUME S # {} PROVE g[S \ {Max(S)}] = f[S \ {Max(S)}]
        BY <3>2
      <4> QED BY <4>1, <4>2, <4>3 DEF FoldStep
    <3> QED BY <3>1, <3>2
  <2>3. Rec(g, n + 1)
    <3>1. g = [S \in SUBSET (1..(n + 1)) |-> g[S]]
      OBVIOUS
    <3> HIDE DEF g
    <3> QED BY <2>2, <3>1
  <2> HIDE DEF g
  <2>4. n + 1 \in Nat /\ \E h : Rec(h, n + 1)
    BY <1>2, <2>3
  <2> QED BY <2>4
<1> HIDE DEF H
<1>3. \A n \in Nat : n \in H
  BY <1>1, <1>2, NatSetInduction
<1> QED BY <1>3 DEF H

\* So sys_write_console is the end of a run of printc over the text.
LEMMA WriteConsoleDef ==
    ASSUME NEW s, NEW T, NEW text \in Seq(T)
    PROVE  \E f : IsRun(f, s, text, Len(text)) /\ sys_write_console(s, text) = f[Len(text)]
<1> DEFINE D == 1..Len(text)
           c == CHOOSE f : f = [S \in SUBSET D |->
                                  IF S = {} THEN s ELSE printc(f[S \ {Max(S)}], text[Max(S)])]
           g == [i \in 0..Len(text) |-> c[1..i]]
<1>1. Len(text) \in Nat /\ DOMAIN text = D
  BY LenProperties
<1>2. \E f : f = [S \in SUBSET D |-> FoldStep(s, text, f, S)]
  BY <1>1, FoldExists
<1>3. c = [S \in SUBSET D |-> FoldStep(s, text, c, S)]
  BY <1>2 DEF FoldStep
<1>4. sys_write_console(s, text) = c[D]
  BY <1>1 DEF sys_write_console, FoldLeft, MapThenFoldSet
<1> HIDE DEF c
<1>5. g[0] = s
  BY <1>1, <1>3 DEF FoldStep
<1>6. ASSUME NEW i \in 1..Len(text)
      PROVE  g[i] = printc(g[i - 1], text[i])
  <2>1. /\ 1..i \in SUBSET D /\ i \in 1..i
        /\ i \in 0..Len(text) /\ i - 1 \in 0..Len(text)
    BY <1>1
  <2>4. (1..i) \ {i} = 1..(i - 1)
    BY <1>1
  <2>2. Max(1..i) = i
    BY <1>1, MaxIs
  <2>3. c[1..i] = printc(c[1..(i - 1)], text[i])
    BY <1>3, <2>1, <2>2, <2>4 DEF FoldStep
  <2> QED BY <2>1, <2>3
<1>7. g[Len(text)] = c[D]
  BY <1>1
<1> QED BY <1>4, <1>5, <1>6, <1>7 DEF IsRun
-----------------------------------------------------------------------------
(* What the loops of copy_from_user and of sys_write carry over.            *)

\* The layout in numbers, without its products.
LEMMA SpaceFacts ==
    /\ PAGE_SIZE \in Nat \ {0} /\ Space \in Nat \ {0}
    /\ 2 * PAGE_SIZE <= Space
    /\ USER_FIRST_PAGE \in Nat \ {0} /\ LastUser \in Nat
<1>1. /\ PAGE_SIZE \in Nat \ {0} /\ TOTAL_PAGES \in Nat \ {0} /\ 4 <= TOTAL_PAGES
      /\ USER_FIRST_PAGE \in Nat \ {0} /\ LastUser \in Nat
  BY LayoutAssumption DEF LastUser, FirstData
<1>2. PAGE_SIZE * 4 <= PAGE_SIZE * TOTAL_PAGES /\ PAGE_SIZE * TOTAL_PAGES \in Nat
  BY <1>1, TimesGrows
<1> QED BY <1>1, <1>2 DEF Space

\* The bytes of user memory, and those of a range, in order.
UserBytes == {Mem[a] : a \in Addresses}
TextAt(buffer, nbytes) == [i \in 1..nbytes |-> Mem[(buffer + i - 1) % Space]]

\* A text is a sequence of the user's bytes.
LEMMA TextFacts ==
    ASSUME NEW b \in Nat, NEW n \in Nat
    PROVE  TextAt(b, n) \in Seq(UserBytes) /\ Len(TextAt(b, n)) = n
<1>1. ASSUME NEW i \in 1..n PROVE Mem[(b + i - 1) % Space] \in UserBytes
  <2>1. PICK s : s = Space
    OBVIOUS
  <2>2. s \in Nat \ {0} /\ b + i - 1 \in Nat
    BY <2>1, SpaceFacts
  <2>3. (b + i - 1) % s \in 0..(s - 1)
    BY <2>2
  <2> QED BY <2>1, <2>3 DEF UserBytes, Addresses
<1>2. TextAt(b, n) \in [1..n -> UserBytes]
  BY <1>1 DEF TextAt
<1>3. TextAt(b, n) \in Seq(UserBytes)
  BY <1>2, SeqDef
<1> QED BY <1>2, <1>3, LenProperties

\* The number of words is a number: the recursion of Words ends.
LEMMA WordsNat == \A n \in Nat : Words[n] \in Nat
<1> DEFINE w == [size \in Nat |-> IF size > 4 THEN (size - 1) \div 4 ELSE 0]
           c == CHOOSE f : f = [size \in Nat |-> IF size > 4 THEN 1 + f[size - 4] ELSE 0]
<1>1. ASSUME NEW size \in Nat PROVE w[size] = IF size > 4 THEN 1 + w[size - 4] ELSE 0
  <2>1. CASE size > 8
    BY <2>1
  <2>2. CASE size \in 5..8
    BY <2>2
  <2>3. CASE size \in 0..4
    BY <2>3
  <2> QED BY <2>1, <2>2, <2>3
<1>2. w = [size \in Nat |-> IF size > 4 THEN 1 + w[size - 4] ELSE 0]
  <2>1. w = [size \in Nat |-> w[size]]
    OBVIOUS
  <2> HIDE DEF w
  <2> QED BY <1>1, <2>1
<1>3. Words = c
  BY DEF Words
<1> HIDE DEF w
<1>4. \E f : f = [size \in Nat |-> IF size > 4 THEN 1 + f[size - 4] ELSE 0]
  BY <1>2
<1>5. c = [size \in Nat |-> IF size > 4 THEN 1 + c[size - 4] ELSE 0]
  BY <1>4
<1> HIDE DEF c
<1>6. \A size \in Nat : c[size] = IF size > 4 THEN 1 + c[size - 4] ELSE 0
  BY <1>5
<1> DEFINE H == {n \in Nat : \A k \in 0..n : c[k] \in Nat}
<1>7. 0 \in H
  BY <1>6
<1>8. ASSUME NEW n \in Nat, n \in H PROVE n + 1 \in H
  <2>1. ASSUME n + 1 > 4 PROVE c[n + 1] \in Nat
    <3>1. (n + 1) - 4 \in 0..n /\ c[(n + 1) - 4] \in Nat
      BY <1>8, <2>1
    <3> QED BY <1>6, <2>1, <3>1
  <2>2. c[n + 1] \in Nat
    BY <1>6, <2>1
  <2>3. \A k \in 0..(n + 1) : k \in 0..n \/ k = n + 1
    OBVIOUS
  <2> QED BY <1>8, <2>2, <2>3
<1> HIDE DEF H
<1>9. \A n \in Nat : n \in H
  BY <1>7, <1>8, NatSetInduction
<1> QED BY <1>3, <1>9 DEF H

\* copy_from_user delivers the bytes of the range, in order, whatever part of
\* them goes by words.
LEMMA CopyIs ==
    ASSUME NEW start \in Nat, NEW size \in Nat
    PROVE  copy_from_user(Mem, start, size) = TextAt(start, size)
<1>1. PICK w \in Nat : w = Words[size]
  BY WordsNat
<1>2. \A i \in 1..size : start + Source(w, i) = start + i - 1
  BY <1>1 DEF Source
<1> QED BY <1>1, <1>2 DEF copy_from_user, TextAt

\* One piece and the rest make the text from there on.
LEMMA PieceIs ==
    ASSUME NEW b \in Nat, NEW n \in Nat, NEW left \in 0..n
    PROVE  TextAt(b + n - left, left) =
             IF left > TAM_BUFFER
             THEN Chunk(b, n, left, TAM_BUFFER)
                    \o TextAt(b + n - (left - TAM_BUFFER), left - TAM_BUFFER)
             ELSE Chunk(b, n, left, left)
<1>1. TAM_BUFFER \in Nat \ {0} /\ b + n - left \in Nat
  BY ScreenAssumption
<1>2. CASE left <= TAM_BUFFER
  BY <1>1, <1>2, CopyIs DEF Chunk
<1>3. CASE left > TAM_BUFFER
  <2> DEFINE f == b + n - left
             p == TextAt(f, TAM_BUFFER)
             q == TextAt(f + TAM_BUFFER, left - TAM_BUFFER)
  <2>1. f \in Nat /\ f + TAM_BUFFER \in Nat /\ left - TAM_BUFFER \in Nat
        /\ b + n - (left - TAM_BUFFER) = f + TAM_BUFFER /\ left \in Nat
    BY <1>1, <1>3
  <2> HIDE DEF f
  <2>2. Chunk(b, n, left, TAM_BUFFER) = p
    BY <1>1, <2>1, CopyIs DEF Chunk, f
  <2>3. /\ p \in Seq(UserBytes) /\ Len(p) = TAM_BUFFER
        /\ q \in Seq(UserBytes) /\ Len(q) = left - TAM_BUFFER
        /\ TextAt(f, left) \in Seq(UserBytes) /\ Len(TextAt(f, left)) = left
    BY <1>1, <2>1, TextFacts
  <2>7. /\ \A i \in 1..TAM_BUFFER : p[i] = Mem[(f + i - 1) % Space]
        /\ \A i \in 1..(left - TAM_BUFFER) : q[i] = Mem[(f + TAM_BUFFER + i - 1) % Space]
        /\ \A i \in 1..left : TextAt(f, left)[i] = Mem[(f + i - 1) % Space]
    BY DEF TextAt
  <2> HIDE DEF p, q
  <2>4. /\ p \o q \in Seq(UserBytes) /\ Len(p \o q) = left
        /\ \A i \in 1..left : (p \o q)[i] = IF i <= TAM_BUFFER THEN p[i] ELSE q[i - TAM_BUFFER]
    BY <1>1, <2>1, <2>3, ConcatProperties
  <2>5. ASSUME NEW i \in 1..left
        PROVE  (p \o q)[i] = TextAt(f, left)[i]
    <3>1. CASE i <= TAM_BUFFER
      <4>1. i \in 1..TAM_BUFFER
        BY <1>1, <2>1, <3>1
      <4> QED BY <2>4, <2>7, <3>1, <4>1
    <3>2. CASE ~(i <= TAM_BUFFER)
      <4>1. i - TAM_BUFFER \in 1..(left - TAM_BUFFER)
            /\ f + TAM_BUFFER + (i - TAM_BUFFER) - 1 = f + i - 1
        BY <1>1, <2>1, <3>2
      <4> QED BY <2>4, <2>7, <3>2, <4>1
    <3> QED BY <3>1, <3>2
  <2>6. p \o q = TextAt(f, left)
    BY <2>3, <2>4, <2>5, SeqEqual
  <2> QED BY <1>3, <2>1, <2>2, <2>6 DEF f, q
<1> QED BY <1>1, <1>2, <1>3

\* The pieces that sys_write prints are the user's text, once and in order.
LEMMA WrittenIs ==
    ASSUME NEW b \in Nat, NEW n \in Nat
    PROVE  Written(b, n) = TextAt(b, n)
<1> DEFINE Step(f, left) == IF left > TAM_BUFFER
                            THEN Chunk(b, n, left, TAM_BUFFER) \o f[left - TAM_BUFFER]
                            ELSE Chunk(b, n, left, left)
           G(left) == TextAt(b + n - left, left)
           g == [left \in 0..n |-> G(left)]
           c == CHOOSE f : f = [left \in 0..n |-> Step(f, left)]
<1>1. TAM_BUFFER \in Nat \ {0}
  BY ScreenAssumption
<1>2. \A left \in 0..n : G(left) = IF left > TAM_BUFFER
                                   THEN Chunk(b, n, left, TAM_BUFFER) \o G(left - TAM_BUFFER)
                                   ELSE Chunk(b, n, left, left)
  BY PieceIs
<1>3. Written(b, n) = c[n]
  BY DEF Written
<1> HIDE DEF G
<1>4. ASSUME NEW left \in 0..n PROVE g[left] = Step(g, left)
  <2>1. left > TAM_BUFFER => left - TAM_BUFFER \in 0..n
    BY <1>1
  <2> QED BY <1>2, <2>1
<1>5. g = [left \in 0..n |-> Step(g, left)]
  <2>1. g = [left \in 0..n |-> g[left]]
    OBVIOUS
  <2> HIDE DEF g, Step
  <2> QED BY <1>4, <2>1
<1>6. c = [left \in 0..n |-> Step(c, left)]
  <2> HIDE DEF g, Step
  <2>1. \E f : f = [left \in 0..n |-> Step(f, left)]
    BY <1>5
  <2> QED BY <2>1
<1> HIDE DEF c
<1>7. \A left \in 0..n : c[left] = Step(c, left)
  <2> HIDE DEF Step
  <2> QED BY <1>6
<1> DEFINE H == {k \in Nat : \A left \in 0..n : left <= k => c[left] = G(left)}
<1>8. 0 \in H
  <2>1. ASSUME NEW left \in 0..n, left <= 0 PROVE c[left] = G(left)
    <3>1. ~(left > TAM_BUFFER)
      BY <1>1, <2>1
    <3> QED BY <1>2, <1>7, <3>1
  <2> QED BY <2>1
<1>9. ASSUME NEW k \in Nat, k \in H PROVE k + 1 \in H
  <2>1. ASSUME NEW left \in 0..n, left <= k + 1 PROVE c[left] = G(left)
    <3>1. CASE left > TAM_BUFFER
      <4>1. left - TAM_BUFFER \in 0..n /\ left - TAM_BUFFER <= k
        BY <1>1, <2>1, <3>1
      <4>2. c[left - TAM_BUFFER] = G(left - TAM_BUFFER)
        BY <1>9, <4>1
      <4> QED BY <1>2, <1>7, <3>1, <4>2
    <3>2. CASE ~(left > TAM_BUFFER)
      BY <1>2, <1>7, <3>2
    <3> QED BY <3>1, <3>2
  <2> QED BY <2>1
<1> HIDE DEF H
<1>10. \A k \in Nat : k \in H
  BY <1>8, <1>9, NatSetInduction
<1>11. c[n] = G(n)
  BY <1>10 DEF H
<1>12. G(n) = TextAt(b, n)
  <2>1. b + n - n = b
    OBVIOUS
  <2> QED BY <2>1 DEF G
<1> QED BY <1>3, <1>11, <1>12
-----------------------------------------------------------------------------
(* One character, and then a text, on the screen and on the line that       *)
(* Terminal makes of it.                                                    *)

WordsOut == Seq(Nat \X UserBytes \X Colors)
Cursors == [x : 0..(BYTE - 1), y : 0..(BYTE - 1), out : WordsOut]
Cell(s) == s.y * NUM_COLUMNS + s.x
Placed(s) == s.x < NUM_COLUMNS /\ s.y < NUM_ROWS

\* The numbers of the screen.
LEMMA ScreenFacts ==
    /\ NUM_COLUMNS \in Nat \ {0} /\ NUM_ROWS \in Nat \ {0} /\ BYTE \in Nat \ {0}
    /\ NUM_COLUMNS < BYTE /\ NUM_ROWS <= BYTE
    /\ NUM_COLUMNS * NUM_ROWS \in Nat \ {0}
<1>1. /\ NUM_COLUMNS \in Nat \ {0} /\ NUM_ROWS \in Nat \ {0} /\ BYTE \in Nat \ {0}
      /\ NUM_COLUMNS < BYTE /\ NUM_ROWS <= BYTE
  BY ScreenAssumption
<1>2. NUM_COLUMNS * 1 <= NUM_COLUMNS * NUM_ROWS /\ NUM_COLUMNS * NUM_ROWS \in Nat
  BY <1>1, TimesGrows
<1> QED BY <1>1, <1>2

\* A place on the screen is a cell of the line, and the next one is where the
\* code goes.
LEMMA CellFacts ==
    ASSUME NEW u \in 0..(NUM_COLUMNS - 1), NEW v \in 0..(NUM_ROWS - 1)
    PROVE  LET p == v * NUM_COLUMNS + u
               size == NUM_COLUMNS * NUM_ROWS
           IN  /\ p \in 0..(size - 1)
               /\ ((p \div NUM_COLUMNS + 1) * NUM_COLUMNS) % size = NextRow(v) * NUM_COLUMNS
               /\ (p + 1) % size = IF u + 1 < NUM_COLUMNS THEN p + 1
                                   ELSE NextRow(v) * NUM_COLUMNS
               /\ NextRow(v) \in 0..(NUM_ROWS - 1)
<1> DEFINE p == v * NUM_COLUMNS + u
           size == NUM_COLUMNS * NUM_ROWS
<1>1. NUM_COLUMNS \in Nat \ {0} /\ NUM_ROWS \in Nat \ {0} /\ size \in Nat \ {0}
  BY ScreenFacts
<1>2. NUM_COLUMNS * (v + 1) <= NUM_COLUMNS * NUM_ROWS
  BY <1>1, TimesGrows
<1>3. NUM_COLUMNS * v \in Nat /\ NUM_COLUMNS * (v + 1) = NUM_COLUMNS * v + NUM_COLUMNS
      /\ v * NUM_COLUMNS = NUM_COLUMNS * v
      /\ (v + 1) * NUM_COLUMNS = NUM_COLUMNS * v + NUM_COLUMNS
  BY <1>1
<1>4. p \in Nat /\ NUM_COLUMNS * v <= p /\ p < NUM_COLUMNS * v + NUM_COLUMNS /\ p < size
  BY <1>1, <1>2, <1>3
<1>5. p \div NUM_COLUMNS = v
  BY <1>1, <1>4, DivUnique
<1>6. NextRow(v) = IF v + 1 < NUM_ROWS THEN v + 1 ELSE 0
  BY <1>1, WrapNext DEF NextRow
<1>7. (NUM_COLUMNS * v + NUM_COLUMNS) % size = NextRow(v) * NUM_COLUMNS
  <2> DEFINE e == NUM_COLUMNS * v + NUM_COLUMNS
  <2>1. CASE v + 1 < NUM_ROWS
    <3>1. NUM_COLUMNS * (v + 2) <= size /\ NUM_COLUMNS * (v + 2) = e + NUM_COLUMNS
      BY <1>1, <2>1, TimesGrows
    <3>2. e \in Nat /\ e < size
      BY <1>1, <1>3, <3>1
    <3>3. e % size = e
      <4> HIDE DEF e, size
      <4> QED BY <1>1, <3>2, Wrap
    <3> QED BY <1>3, <1>6, <2>1, <3>3
  <2>2. CASE v + 1 = NUM_ROWS
    <3>1. e = size
      BY <1>3, <2>2
    <3>2. e % size = 0
      <4> HIDE DEF e, size
      <4> QED BY <1>1, <3>1, Wrap
    <3> QED BY <1>1, <1>6, <2>2, <3>2
  <2> QED BY <1>1, <2>1, <2>2
<1>8. (p + 1) % size = IF u + 1 < NUM_COLUMNS THEN p + 1 ELSE NextRow(v) * NUM_COLUMNS
  <2>1. CASE u + 1 < NUM_COLUMNS
    <3>1. p + 1 \in Nat /\ p + 1 < size
      BY <1>1, <1>2, <1>3, <2>1
    <3> HIDE DEF p, size
    <3>2. (p + 1) % size = p + 1
      BY <1>1, <3>1, Wrap
    <3> QED BY <2>1, <3>2
  <2>2. CASE u + 1 = NUM_COLUMNS
    <3>1. p + 1 = NUM_COLUMNS * v + NUM_COLUMNS
      BY <1>1, <1>3, <2>2
    <3> HIDE DEF p, size
    <3> QED BY <1>1, <1>7, <2>2, <3>1
  <2> QED BY <1>1, <2>1, <2>2
<1>9. p \in 0..(size - 1) /\ NextRow(v) \in 0..(NUM_ROWS - 1)
  BY <1>1, <1>4, <1>6
<1>10. ((p \div NUM_COLUMNS + 1) * NUM_COLUMNS) % size = NextRow(v) * NUM_COLUMNS
  <2>1. (p \div NUM_COLUMNS + 1) * NUM_COLUMNS = NUM_COLUMNS * v + NUM_COLUMNS
    BY <1>3, <1>5
  <2> QED BY <1>7, <2>1
<1> QED BY <1>8, <1>9, <1>10

\* printc keeps a cursor of two bytes, and one on the screen on the screen; it
\* goes where Terminal goes, and adds the character unless it is a newline.
LEMMA PrintcFacts ==
    ASSUME color \in Colors, NEW s \in Cursors, NEW c \in UserBytes
    PROVE  /\ printc(s, c) \in Cursors
           /\ printc(s, c).out = IF c = NewLine THEN s.out
                                 ELSE Append(s.out, <<Cell(s), c, color>>)
           /\ Placed(s) => /\ Placed(printc(s, c))
                           /\ Cell(printc(s, c)) = Linear!After(Cell(s), c)
                           /\ Cell(s) \in 0..(NUM_COLUMNS * NUM_ROWS - 1)
<1> DEFINE right == AsByte(s.x + 1)
           out == Append(s.out, <<Cell(s), c, color>>)
           row == NextRow(s.y)
<1>1. s.x \in 0..(BYTE - 1) /\ s.y \in 0..(BYTE - 1) /\ s.out \in WordsOut
  BY DEF Cursors
<1>2. /\ NUM_COLUMNS \in Nat \ {0} /\ NUM_ROWS \in Nat \ {0} /\ BYTE \in Nat \ {0}
      /\ NUM_COLUMNS < BYTE /\ NUM_ROWS <= BYTE
  BY ScreenFacts
<1>3. Cell(s) \in Nat
  BY <1>1, <1>2 DEF Cell
<1>4. out \in WordsOut
  <2>1. <<Cell(s), c, color>> \in Nat \X UserBytes \X Colors
    BY <1>3
  <2> QED BY <1>1, <2>1, AppendProperties DEF WordsOut
<1>5. right = IF s.x + 1 < BYTE THEN s.x + 1 ELSE 0
  BY <1>1, <1>2, WrapNext DEF AsByte
<1>6. row \in 0..(BYTE - 1)
  <2>1. (s.y + 1) % NUM_ROWS \in 0..(NUM_ROWS - 1)
    BY <1>1, <1>2
  <2> QED BY <1>2, <2>1 DEF NextRow
<1>7. printc(s, c) = IF c = NewLine THEN [x |-> 0, y |-> row, out |-> s.out]
                     ELSE IF right >= NUM_COLUMNS THEN [x |-> 0, y |-> row, out |-> out]
                     ELSE [x |-> right, y |-> s.y, out |-> out]
  <2>1. [s EXCEPT !.x = 0, !.y = NextRow(s.y)] = [x |-> 0, y |-> NextRow(s.y), out |-> s.out]
    <3>1. PICK a \in 0..(BYTE - 1), b \in 0..(BYTE - 1), o \in WordsOut :
            s = [x |-> a, y |-> b, out |-> o]
      BY DEF Cursors
    <3>2. [s EXCEPT !.x = 0] = [x |-> 0, y |-> b, out |-> o]
      BY <3>1
    <3>3. PICK r : r = NextRow(s.y)
      OBVIOUS
    <3>4. [[x |-> 0, y |-> b, out |-> o] EXCEPT !.y = r] = [x |-> 0, y |-> r, out |-> o]
      OBVIOUS
    <3>5. s.out = o
      BY <3>1
    <3> QED BY ONLY <3>2, <3>3, <3>4, <3>5, Zenon
  <2> QED BY <2>1 DEF printc, Cell, LineFull
<1> HIDE DEF right, out, row
<1>8. printc(s, c) \in Cursors
  BY <1>1, <1>2, <1>4, <1>5, <1>6, <1>7 DEF Cursors
<1>9. printc(s, c).out = IF c = NewLine THEN s.out ELSE out
  BY <1>7
<1>10. ASSUME Placed(s)
       PROVE  /\ Placed(printc(s, c))
              /\ Cell(printc(s, c)) = Linear!After(Cell(s), c)
              /\ Cell(s) \in 0..(NUM_COLUMNS * NUM_ROWS - 1)
  <2>1. s.x \in 0..(NUM_COLUMNS - 1) /\ s.y \in 0..(NUM_ROWS - 1)
    BY <1>1, <1>2, <1>10 DEF Placed
  <2>2. right = s.x + 1
    BY <1>2, <1>5, <2>1
  <2>3. /\ Cell(s) \in 0..(NUM_COLUMNS * NUM_ROWS - 1)
        /\ ((Cell(s) \div NUM_COLUMNS + 1) * NUM_COLUMNS) % (NUM_COLUMNS * NUM_ROWS)
             = row * NUM_COLUMNS
        /\ (Cell(s) + 1) % (NUM_COLUMNS * NUM_ROWS)
             = IF s.x + 1 < NUM_COLUMNS THEN Cell(s) + 1 ELSE row * NUM_COLUMNS
        /\ row \in 0..(NUM_ROWS - 1)
    BY <2>1, CellFacts DEF Cell, row
  <2>4. CASE c = NewLine
    <3>1. printc(s, c).x = 0 /\ printc(s, c).y = row
      BY <1>7, <2>4
    <3>2. Linear!After(Cell(s), c) = row * NUM_COLUMNS
      BY <2>3, <2>4 DEF Linear!After, Linear!Size
    <3>3. Cell(printc(s, c)) = row * NUM_COLUMNS
      BY <1>2, <2>3, <3>1 DEF Cell
    <3> QED BY <1>2, <2>3, <3>1, <3>2, <3>3 DEF Placed
  <2>5. CASE c # NewLine /\ right >= NUM_COLUMNS
    <3>1. printc(s, c).x = 0 /\ printc(s, c).y = row
      BY <1>7, <2>5
    <3>2. Linear!After(Cell(s), c) = row * NUM_COLUMNS
      <4>1. ~(s.x + 1 < NUM_COLUMNS)
        BY <1>2, <2>1, <2>2, <2>5
      <4> QED BY <2>3, <2>5, <4>1 DEF Linear!After, Linear!Size
    <3>3. Cell(printc(s, c)) = row * NUM_COLUMNS
      BY <1>2, <2>3, <3>1 DEF Cell
    <3> QED BY <1>2, <2>3, <3>1, <3>2, <3>3 DEF Placed
  <2>6. CASE c # NewLine /\ ~(right >= NUM_COLUMNS)
    <3>1. printc(s, c).x = s.x + 1 /\ printc(s, c).y = s.y
      BY <1>7, <2>2, <2>6
    <3>2. s.x + 1 < NUM_COLUMNS
      BY <1>2, <2>1, <2>2, <2>6
    <3>3. Linear!After(Cell(s), c) = Cell(s) + 1
      BY <2>3, <2>6, <3>2 DEF Linear!After, Linear!Size
    <3>4. Cell(printc(s, c)) = Cell(s) + 1
      BY <1>2, <2>1, <3>1 DEF Cell
    <3> QED BY <1>2, <2>1, <2>3, <3>1, <3>2, <3>3, <3>4 DEF Placed
  <2> QED BY <2>4, <2>5, <2>6
<1> QED BY <1>8, <1>9, <1>10 DEF out
-----------------------------------------------------------------------------
(* A text, one character after the other.                                   *)

\* Joining one part after the other ends with FlattenSeq.
LEMMA FlattenIsRun ==
    ASSUME NEW T, NEW seqs \in Seq(Seq(T)), NEW g, g[0] = << >>,
           \A i \in 1..Len(seqs) : g[i] = g[i - 1] \o seqs[i]
    PROVE  FlattenSeq(seqs) = g[Len(seqs)]
<1>1. Len(seqs) \in Nat /\ \A i \in 1..Len(seqs) : seqs[i] \in Seq(T)
  BY LenProperties, ElementOfSeq
<1>2. CASE Len(seqs) = 0
  <2>1. seqs = << >>
    BY <1>2, EmptySeq
  <2> QED BY <1>2, <2>1 DEF FlattenSeq
<1>3. CASE Len(seqs) # 0
  <2>1. PICK f : /\ f = [i \in 1..Len(seqs) |-> FlattenStep(seqs, f, i)]
                 /\ FlattenSeq(seqs) = f[Len(seqs)]
    BY <1>1, <1>3, FlattenDef
  <2>2. \A i \in 1..Len(seqs) : f[i] = IF i = 1 THEN seqs[i] ELSE f[i - 1] \o seqs[i]
    BY <2>1 DEF FlattenStep
  <2> DEFINE H == {k \in Nat : k \in 1..Len(seqs) => f[k] = g[k]}
  <2>3. 0 \in H
    OBVIOUS
  <2>4. ASSUME NEW k \in Nat, k \in H PROVE k + 1 \in H
    <3> SUFFICES ASSUME k + 1 \in 1..Len(seqs) PROVE f[k + 1] = g[k + 1]
      OBVIOUS
    <3>1. (k + 1) - 1 = k /\ g[k + 1] = g[k] \o seqs[k + 1] /\ seqs[k + 1] \in Seq(T)
      <4>1. (k + 1) - 1 = k
        OBVIOUS
      <4>2. g[k + 1] = g[(k + 1) - 1] \o seqs[k + 1] /\ seqs[k + 1] \in Seq(T)
        BY <1>1
      <4> QED BY <4>1, <4>2
    <3>2. CASE k = 0
      <4>1. f[k + 1] = seqs[k + 1] /\ << >> \o seqs[k + 1] = seqs[k + 1]
        BY <2>2, <3>1, <3>2, ConcatEmptySeq
      <4> QED BY <3>1, <3>2, <4>1
    <3>3. CASE k # 0
      <4>1. k \in 1..Len(seqs) /\ k + 1 # 1
        BY <1>1, <3>3
      <4>2. f[k] = g[k] /\ f[k + 1] = f[k] \o seqs[k + 1]
        BY <2>2, <2>4, <3>1, <4>1
      <4> QED BY <3>1, <4>2
    <3> QED BY <3>2, <3>3
  <2> HIDE DEF H
  <2>5. \A k \in Nat : k \in H
    BY <2>3, <2>4, NatSetInduction
  <2>6. Len(seqs) \in Nat /\ Len(seqs) \in 1..Len(seqs)
    BY <1>1, <1>3
  <2>7. f[Len(seqs)] = g[Len(seqs)]
    BY <2>5, <2>6 DEF H
  <2> QED BY <2>1, <2>7
<1> QED BY <1>2, <1>3

\* What was printed is inside video memory.
Inside(out) == \A i \in DOMAIN out : out[i][1] \in 0..(NUM_COLUMNS * NUM_ROWS - 1)

\* One more character that is printed from a place on the screen.
LEMMA PrintcInside ==
    ASSUME color \in Colors, NEW s \in Cursors, NEW c \in UserBytes,
           Placed(s), Inside(s.out)
    PROVE  Placed(printc(s, c)) /\ Inside(printc(s, c).out)
<1> DEFINE e == <<Cell(s), c, color>>
<1>1. /\ Placed(printc(s, c)) /\ Cell(s) \in 0..(NUM_COLUMNS * NUM_ROWS - 1)
      /\ printc(s, c).out = IF c = NewLine THEN s.out ELSE Append(s.out, e)
  BY PrintcFacts
<1>2. s.out \in WordsOut /\ e \in Nat \X UserBytes \X Colors
  <2>1. Cell(s) \in Nat
    BY <1>1, ScreenFacts
  <2> QED BY <2>1 DEF Cursors
<1>3. e[1] = Cell(s)
  OBVIOUS
<1> HIDE DEF e
<1>4. /\ DOMAIN s.out = 1..Len(s.out) /\ Len(s.out) \in Nat
      /\ Len(Append(s.out, e)) = Len(s.out) + 1
      /\ DOMAIN Append(s.out, e) = 1..(Len(s.out) + 1)
      /\ \A i \in 1..Len(s.out) : Append(s.out, e)[i] = s.out[i]
      /\ Append(s.out, e)[Len(s.out) + 1] = e
  <2>1. Append(s.out, e) \in WordsOut
    BY <1>2, AppendProperties DEF WordsOut
  <2>2. DOMAIN Append(s.out, e) = 1..Len(Append(s.out, e))
    BY <2>1, LenProperties DEF WordsOut
  <2>3. DOMAIN s.out = 1..Len(s.out) /\ Len(s.out) \in Nat
    BY <1>2, LenProperties DEF WordsOut
  <2>4. /\ Len(Append(s.out, e)) = Len(s.out) + 1
        /\ \A i \in 1..Len(s.out) : Append(s.out, e)[i] = s.out[i]
        /\ Append(s.out, e)[Len(s.out) + 1] = e
    BY <1>2, AppendProperties DEF WordsOut
  <2> QED BY <2>2, <2>3, <2>4
<1>5. Inside(Append(s.out, e))
  BY <1>1, <1>3, <1>4 DEF Inside
<1> QED BY <1>1, <1>5

\* Every cursor of a run is one of two bytes; from a place on the screen it
\* stays there and prints inside video memory.
LEMMA RunFacts ==
    ASSUME color \in Colors, NEW s \in Cursors, NEW text \in Seq(UserBytes), NEW f,
           IsRun(f, s, text, Len(text))
    PROVE  \A i \in 0..Len(text) :
             /\ f[i] \in Cursors
             /\ Placed(s) /\ Inside(s.out) => Placed(f[i]) /\ Inside(f[i].out)
<1>1. Len(text) \in Nat /\ \A i \in 1..Len(text) : text[i] \in UserBytes
  BY LenProperties, ElementOfSeq
<1>2. f[0] = s /\ \A i \in 1..Len(text) : f[i] = printc(f[i - 1], text[i])
  BY DEF IsRun
<1> DEFINE Good(i) == /\ f[i] \in Cursors
                      /\ Placed(s) /\ Inside(s.out) => Placed(f[i]) /\ Inside(f[i].out)
           H == {k \in Nat : k <= Len(text) => Good(k)}
<1>3. 0 \in H
  BY <1>2
<1>4. ASSUME NEW k \in Nat, k \in H PROVE k + 1 \in H
  <2> SUFFICES ASSUME k + 1 <= Len(text) PROVE Good(k + 1)
    BY <1>4
  <2>1. k + 1 \in 1..Len(text) /\ (k + 1) - 1 = k /\ k <= Len(text)
    BY <1>1
  <2>2. Good(k)
    BY <1>4, <2>1
  <2>3. f[k + 1] = printc(f[k], text[k + 1]) /\ text[k + 1] \in UserBytes
    BY <1>1, <1>2, <2>1
  <2>4. f[k + 1] \in Cursors
    BY <2>2, <2>3, PrintcFacts
  <2>5. Placed(f[k]) /\ Inside(f[k].out) => Placed(f[k + 1]) /\ Inside(f[k + 1].out)
    BY <2>2, <2>3, PrintcInside
  <2> QED BY <2>2, <2>4, <2>5
<1> HIDE DEF H, Good
<1>5. \A k \in Nat : k \in H
  BY <1>3, <1>4, NatSetInduction
<1>6. ASSUME NEW i \in 0..Len(text) PROVE Good(i)
  BY <1>1, <1>5 DEF H
<1> QED BY <1>6 DEF Good

\* The run of a text from a place on the screen is what Terminal promises.
LEMMA RunPrints ==
    ASSUME color \in Colors, NEW s \in Cursors, NEW text \in Seq(UserBytes), NEW f,
           IsRun(f, s, text, Len(text)), Placed(s), s.out = << >>
    PROVE  LET at == Linear!At(Cell(s), text)
           IN  /\ at[Len(text) + 1] = Cell(f[Len(text)])
               /\ f[Len(text)].out = FlattenSeq([i \in DOMAIN text |->
                    IF text[i] = NewLine THEN << >> ELSE <<(<<at[i], text[i], color>>)>>])
<1>1. /\ Len(text) \in Nat /\ DOMAIN text = 1..Len(text)
      /\ \A i \in 1..Len(text) : text[i] \in UserBytes
  BY LenProperties, ElementOfSeq
<1>2. f[0] = s /\ \A i \in 1..Len(text) : f[i] = printc(f[i - 1], text[i])
  BY DEF IsRun
<1>3. \A i \in 0..Len(text) : f[i] \in Cursors /\ Placed(f[i])
  <2>1. Inside(s.out)
    BY DEF Inside
  <2> QED BY <2>1, RunFacts
<1>4. ASSUME NEW i \in 1..Len(text)
      PROVE  /\ Cell(f[i]) = Linear!After(Cell(f[i - 1]), text[i])
             /\ f[i].out = IF text[i] = NewLine THEN f[i - 1].out
                           ELSE Append(f[i - 1].out, <<Cell(f[i - 1]), text[i], color>>)
             /\ f[i - 1].out \in WordsOut
             /\ Cell(f[i - 1]) \in Nat
  <2>1. i - 1 \in 0..Len(text)
    BY <1>1
  <2>2. f[i - 1] \in Cursors /\ Placed(f[i - 1])
    BY <1>3, <2>1
  <2>3. f[i - 1].out \in WordsOut /\ Cell(f[i - 1]) \in Nat
    <3>1. f[i - 1].out \in WordsOut
      BY <2>2 DEF Cursors
    <3>2. Cell(f[i - 1]) \in 0..(NUM_COLUMNS * NUM_ROWS - 1)
      BY <1>1, <2>2, PrintcFacts
    <3> QED BY <3>1, <3>2
  <2> QED BY <1>1, <1>2, <2>2, <2>3, PrintcFacts
<1> DEFINE Step(h, i) == IF i = 1 THEN Cell(s) ELSE Linear!After(h[i - 1], text[i - 1])
           c == CHOOSE h : h = [i \in 1..(Len(text) + 1) |-> Step(h, i)]
           g == [i \in 1..(Len(text) + 1) |-> Cell(f[i - 1])]
<1>5. Linear!At(Cell(s), text) = c
  BY DEF Linear!At
<1>6. ASSUME NEW i \in 1..(Len(text) + 1) PROVE g[i] = Step(g, i)
  <2>1. CASE i = 1
    BY <1>2, <2>1
  <2>2. CASE i # 1
    <3>1. i - 1 \in 1..Len(text) /\ i - 1 \in 1..(Len(text) + 1)
      BY <1>1, <2>2
    <3>2. Cell(f[i - 1]) = Linear!After(Cell(f[(i - 1) - 1]), text[i - 1])
      BY <1>4, <3>1
    <3> QED BY <2>2, <3>1, <3>2
  <2> QED BY <2>1, <2>2
<1>7. c = [i \in 1..(Len(text) + 1) |-> Step(c, i)]
  <2>1. g = [i \in 1..(Len(text) + 1) |-> g[i]]
    OBVIOUS
  <2> HIDE DEF g, Step
  <2>2. g = [i \in 1..(Len(text) + 1) |-> Step(g, i)]
    BY <1>6, <2>1
  <2>3. \E h : h = [i \in 1..(Len(text) + 1) |-> Step(h, i)]
    BY <2>2
  <2> QED BY <2>3
<1> HIDE DEF c
<1>8. \A i \in 1..(Len(text) + 1) : c[i] = Step(c, i)
  <2> HIDE DEF Step
  <2> QED BY <1>7
<1> DEFINE H == {k \in Nat : k <= Len(text) => c[k + 1] = Cell(f[k])}
<1>9. 0 \in H
  <2>1. 1 \in 1..(Len(text) + 1) /\ 0 + 1 = 1
    BY <1>1
  <2> QED BY <1>2, <1>8, <2>1
<1>10. ASSUME NEW k \in Nat, k \in H PROVE k + 1 \in H
  <2> SUFFICES ASSUME k + 1 <= Len(text) PROVE c[k + 2] = Cell(f[k + 1])
    BY <1>10
  <2>1. /\ k + 2 \in 1..(Len(text) + 1) /\ k + 2 # 1 /\ (k + 2) - 1 = k + 1
        /\ k + 1 \in 1..Len(text) /\ (k + 1) - 1 = k
    BY <1>1
  <2>2. c[k + 1] = Cell(f[k])
    BY <1>1, <1>10
  <2>3. c[k + 2] = Linear!After(c[k + 1], text[k + 1])
    BY <1>8, <2>1
  <2>4. Cell(f[k + 1]) = Linear!After(Cell(f[k]), text[k + 1])
    BY <1>4, <2>1
  <2> QED BY <2>2, <2>3, <2>4
<1> HIDE DEF H
<1>11. \A k \in Nat : k \in H
  BY <1>9, <1>10, NatSetInduction
<1>12. \A k \in 0..Len(text) : c[k + 1] = Cell(f[k])
  BY <1>1, <1>11 DEF H
<1> DEFINE part == [i \in DOMAIN text |->
                      IF text[i] = NewLine THEN << >> ELSE <<(<<c[i], text[i], color>>)>>]
           out == [i \in 0..Len(text) |-> f[i].out]
           Word == Nat \X UserBytes \X Colors
<1>13. ASSUME NEW i \in 1..Len(text)
       PROVE  part[i] \in Seq(Word) /\ out[i] = out[i - 1] \o part[i]
  <2> DEFINE e == <<Cell(f[i - 1]), text[i], color>>
  <2>1. i - 1 \in 0..Len(text) /\ (i - 1) + 1 = i /\ i \in 0..Len(text)
    BY <1>1
  <2>2. c[i] = Cell(f[i - 1])
    BY <1>12, <2>1
  <2>3. part[i] = IF text[i] = NewLine THEN << >> ELSE <<e>>
    BY <1>1, <2>2
  <2>4. e \in Word
    BY <1>1, <1>4
  <2>5. out[i] = f[i].out /\ out[i - 1] = f[i - 1].out
    BY <2>1
  <2>6. /\ f[i].out = IF text[i] = NewLine THEN f[i - 1].out ELSE Append(f[i - 1].out, e)
        /\ f[i - 1].out \in Seq(Word)
    BY <1>4 DEF WordsOut
  <2> HIDE DEF part, out, e, Word
  <2>7. <<e>> \in Seq(Word) /\ << >> \in Seq(Word)
    BY <2>4, EmptySeq
  <2>8. f[i - 1].out \o << >> = f[i - 1].out
    BY <2>6, ConcatEmptySeq
  <2>9. Append(f[i - 1].out, e) = f[i - 1].out \o <<e>>
    BY <2>4, <2>6, AppendIsConcat
  <2> QED BY <2>3, <2>5, <2>6, <2>7, <2>8, <2>9
<1>14. part \in Seq(Seq(Word)) /\ Len(part) = Len(text)
  <2>1. part \in [1..Len(text) -> Seq(Word)]
    <3>1. part = [i \in 1..Len(text) |-> part[i]]
      BY <1>1
    <3> HIDE DEF part
    <3> QED BY <1>13, <3>1
  <2> HIDE DEF part
  <2>2. part \in Seq(Seq(Word))
    BY <1>1, <2>1, SeqDef
  <2> QED BY <1>1, <2>1, <2>2, LenProperties
<1>15. out[0] = << >> /\ out[Len(text)] = f[Len(text)].out
  BY <1>1, <1>2
<1> HIDE DEF part, out, Word
<1>16. FlattenSeq(part) = out[Len(text)]
  BY <1>13, <1>14, <1>15, FlattenIsRun
<1>17. f[Len(text)].out = FlattenSeq(part) /\ c[Len(text) + 1] = Cell(f[Len(text)])
  BY <1>1, <1>12, <1>15, <1>16
<1> QED BY <1>5, <1>17 DEF part
-----------------------------------------------------------------------------
(* The cursor and what is printed.                                          *)

\* The types in sets: what the cursor is to printc.
LEMMA Kept ==
    ASSUME TypeOK
    PROVE  /\ Cursor(x, y) \in Cursors /\ Cursor(0, 0) \in Cursors
           /\ Placed(Cursor(x, y)) <=> OnScreen
           /\ Placed(Cursor(0, 0))
           /\ Inside(Cursor(x, y).out) /\ Inside(Cursor(0, 0).out)
           /\ color \in Colors
<1>1. << >> \in WordsOut
  BY EmptySeq DEF WordsOut
<1> QED BY <1>1, ScreenFacts DEF TypeOK, Cursor, Cursors, Placed, OnScreen, Inside

\* The words that printc hands over have a colour and, from a place on the
\* screen, are inside video memory.
LEMMA OutFacts ==
    ASSUME NEW s \in Cursors
    PROVE  \A i \in DOMAIN s.out : s.out[i][3] \in Colors
<1>1. s.out \in WordsOut
  BY DEF Cursors
<1>2. \A i \in DOMAIN s.out : s.out[i] \in Nat \X UserBytes \X Colors
  BY <1>1, LenProperties, ElementOfSeq DEF WordsOut
<1> QED BY <1>2

\* A text of the user is printed by a run of printc from the cursor.
LEMMA WriteIsRun ==
    ASSUME TypeOK, NEW r \in Ranges, sys_write(r[1], r[2])
    PROVE  \E f : LET text == TextAt(r[1], r[2])
                      s == f[Len(text)]
                  IN  /\ text \in Seq(UserBytes) /\ Len(text) = r[2]
                      /\ IsRun(f, Cursor(x, y), text, Len(text))
                      /\ s \in Cursors
                      /\ OnScreen => Placed(s) /\ Inside(s.out)
                      /\ x' = s.x /\ y' = s.y /\ printed' = s.out
<1> DEFINE text == TextAt(r[1], r[2])
<1>1. r[1] \in Nat /\ r[2] \in Nat
  BY UserAssumption, SpaceFacts DEF Addresses
<1>2. Written(r[1], r[2]) = text /\ text \in Seq(UserBytes) /\ Len(text) = r[2]
  BY <1>1, WrittenIs, TextFacts
<1> HIDE DEF text
<1>3. PICK f : /\ IsRun(f, Cursor(x, y), text, Len(text))
               /\ sys_write_console(Cursor(x, y), text) = f[Len(text)]
  BY <1>2, WriteConsoleDef
<1>4. /\ x' = f[Len(text)].x /\ y' = f[Len(text)].y /\ printed' = f[Len(text)].out
  BY <1>2, <1>3 DEF sys_write
<1>5. Len(text) \in 0..Len(text)
  BY <1>1, <1>2
<1>6. /\ f[Len(text)] \in Cursors
      /\ OnScreen => Placed(f[Len(text)]) /\ Inside(f[Len(text)].out)
  BY <1>2, <1>3, <1>5, Kept, RunFacts
<1> QED BY <1>2, <1>3, <1>4, <1>6 DEF text

\* A key that is echoed is printed in the first cell, or is a newline.
LEMMA EchoFacts ==
    ASSUME TypeOK, NEW c \in UserBytes, echo(c)
    PROVE  /\ UNCHANGED <<x, y, color, careful>> /\ read' = {}
           /\ printed' = IF c = NewLine THEN << >> ELSE <<(<<0, c, color>>)>>
           /\ Inside(printed') /\ \A i \in DOMAIN printed' : printed'[i][3] \in Colors
<1> DEFINE s == printc(Cursor(0, 0), c)
<1>1. /\ UNCHANGED <<x, y, color, careful>> /\ read' = {}
      /\ printed' = s.out
  BY DEF echo, Restored
<1>2. /\ s \in Cursors /\ Inside(s.out)
      /\ s.out = IF c = NewLine THEN Cursor(0, 0).out
                 ELSE Append(Cursor(0, 0).out, <<Cell(Cursor(0, 0)), c, color>>)
  BY Kept, PrintcFacts, PrintcInside
<1>3. Cursor(0, 0).out = << >> /\ Cell(Cursor(0, 0)) = 0
  BY ScreenFacts DEF Cursor, Cell
<1> HIDE DEF s
<1>4. s.out = IF c = NewLine THEN << >> ELSE Append(<< >>, <<0, c, color>>)
  BY <1>2, <1>3
<1>5. Append(<< >>, <<0, c, color>>) = <<(<<0, c, color>>)>>
  OBVIOUS
<1> QED BY <1>1, <1>2, <1>4, <1>5, OutFacts

\* What the invariant says of printed, of the cursor, and of a careful program.
LEMMA InitSound == Init => CursorSound
<1> SUFFICES ASSUME Init PROVE CursorSound
  OBVIOUS
<1>1. /\ x = 0 /\ y = START_ROW /\ color \in Colors /\ printed = << >> /\ careful = TRUE
      /\ START_ROW \in 0..(NUM_ROWS - 1) /\ DOMAIN printed = {}
  BY ScreenAssumption DEF Init, Colors
<1> QED BY <1>1, ScreenFacts DEF CursorSound, TypeOK, CarefulStays, OnScreen

\* Every call, and every key between calls, keeps the cursor sound.
LEMMA NextSound == CursorSound /\ [Next]_vars => CursorSound'
<1> SUFFICES ASSUME CursorSound, [Next]_vars PROVE CursorSound'
  OBVIOUS
<1>1. TypeOK /\ CarefulStays /\ color \in Colors
  BY DEF CursorSound, TypeOK
<1>2. ASSUME NEW r \in Ranges, sys_write(r[1], r[2]) PROVE CursorSound'
  <2>1. PICK f : LET s == f[Len(TextAt(r[1], r[2]))]
                 IN  /\ s \in Cursors
                     /\ OnScreen => Placed(s) /\ Inside(s.out)
                     /\ x' = s.x /\ y' = s.y /\ printed' = s.out
    BY <1>1, <1>2, WriteIsRun
  <2>2. PICK s \in Cursors : /\ OnScreen => Placed(s) /\ Inside(s.out)
                             /\ x' = s.x /\ y' = s.y /\ printed' = s.out
    BY <2>1
  <2>3. color' = color /\ careful' = careful
    BY <1>2 DEF sys_write
  <2>4. TypeOK'
    BY <1>1, <2>2, <2>3, OutFacts DEF TypeOK, Cursors
  <2>5. CarefulStays'
    BY <1>1, <2>2, <2>3 DEF CarefulStays, OnScreen, Placed, Inside
  <2> QED BY <2>4, <2>5 DEF CursorSound
<1>3. ASSUME NEW new_x \in Coordinates, NEW new_y \in Coordinates, sys_gotoXY(new_x, new_y)
      PROVE  CursorSound'
  <2>1. /\ x' = new_x % BYTE /\ y' = new_y % BYTE /\ printed' = << >>
        /\ color' = color
        /\ careful' = (careful /\ new_x \in 0..(NUM_COLUMNS - 1)
                               /\ new_y \in 0..(NUM_ROWS - 1))
    BY <1>3 DEF sys_gotoXY, AsByte
  <2>2. new_x \in Int /\ new_y \in Int /\ DOMAIN printed' = {}
    BY <2>1, UserAssumption
  <2>3. x' \in 0..(BYTE - 1) /\ y' \in 0..(BYTE - 1)
    BY <2>1, <2>2, ScreenFacts
  <2>4. TypeOK'
    BY <1>1, <2>1, <2>2, <2>3 DEF TypeOK
  <2>5. ASSUME careful' PROVE x' = new_x /\ y' = new_y
                              /\ new_x < NUM_COLUMNS /\ new_y < NUM_ROWS
    <3>1. new_x \in 0..(BYTE - 1) /\ new_y \in 0..(BYTE - 1)
          /\ new_x < NUM_COLUMNS /\ new_y < NUM_ROWS
      <4>1. new_x \in 0..(NUM_COLUMNS - 1) /\ new_y \in 0..(NUM_ROWS - 1)
        BY <2>1, <2>5, Zenon
      <4> QED BY <4>1, ScreenFacts
    <3> QED BY <2>1, <3>1, ScreenFacts
  <2>6. CarefulStays'
    BY <2>2, <2>5 DEF CarefulStays, OnScreen
  <2> QED BY <2>4, <2>6 DEF CursorSound
<1>4. ASSUME NEW c \in Paints, sys_changeColor(c) PROVE CursorSound'
  <2>1. /\ color' = c /\ c \in Colors /\ printed' = << >> /\ DOMAIN printed' = {}
        /\ x' = x /\ y' = y /\ careful' = careful
    BY <1>4 DEF sys_changeColor
  <2> QED BY <1>1, <2>1 DEF CursorSound, TypeOK, CarefulStays, OnScreen
<1>5. ASSUME NEW b \in Pictures, sys_clrscr(b) PROVE CursorSound'
  <2>1. /\ color' = color /\ printed' = << >> /\ DOMAIN printed' = {}
        /\ x' = 0 /\ y' = 0 /\ careful' = careful
    BY <1>5 DEF sys_clrscr
  <2> QED BY <1>1, <2>1, ScreenFacts DEF CursorSound, TypeOK, CarefulStays, OnScreen
<1>6. ASSUME NEW a \in Addresses, echo(Mem[a]) PROVE CursorSound'
  <2>1. Mem[a] \in UserBytes
    BY DEF UserBytes
  <2>2. /\ UNCHANGED <<x, y, color, careful>> /\ Inside(printed')
        /\ \A i \in DOMAIN printed' : printed'[i][3] \in Colors
    BY <1>1, <1>6, <2>1, EchoFacts
  <2>3. TypeOK'
    BY <1>1, <2>2 DEF TypeOK
  <2>4. CarefulStays'
    BY <1>1, <2>2 DEF CarefulStays, OnScreen, Inside
  <2> QED BY <2>3, <2>4 DEF CursorSound
<1>7. ASSUME UNCHANGED vars PROVE CursorSound'
  BY <1>7 DEF vars, CursorSound, TypeOK, CarefulStays, OnScreen
<1> QED BY <1>2, <1>3, <1>4, <1>5, <1>6, <1>7 DEF Next

\* The cursor is two bytes at any time, and a program that calls gotoXY with
\* places on the screen never prints beside it.
THEOREM CursorStaysSound == Spec => []CursorSound
BY InitSound, NextSound, PTL DEF Spec
-----------------------------------------------------------------------------
(* What the kernel reads for a program.                                     *)

\* A range shorter than half of the memory that access_ok accepts does not go
\* round its end, so all of it is on the pages between its ends.
LEMMA RangeFacts ==
    ASSUME NEW start \in Addresses, NEW size \in 0..(Space \div 2 - 1),
           access_ok("VERIFY_READ", start, size), NEW a \in Bytes(start, size)
    PROVE  page(a) \in USER_FIRST_PAGE..LastUser
<1>1. PICK m : m = Space
  OBVIOUS
<1>2. /\ PAGE_SIZE \in Nat \ {0} /\ m \in Nat \ {0} /\ 2 * PAGE_SIZE <= m
      /\ start \in 0..(m - 1) /\ size \in Nat /\ 2 * size < m
      /\ USER_FIRST_PAGE \in Nat \ {0} /\ LastUser \in Nat
  <2>1. size \in 0..(m \div 2 - 1) /\ m \in Nat \ {0}
    BY <1>1, SpaceFacts
  <2>2. size \in Nat /\ 2 * size < m
    BY <2>1
  <2> QED BY <1>1, <2>1, <2>2, SpaceFacts DEF Addresses
<1>3. PICK e : e = (start + size) % m
  OBVIOUS
<1>4. /\ start \div PAGE_SIZE <= e \div PAGE_SIZE
      /\ start \div PAGE_SIZE >= USER_FIRST_PAGE /\ e \div PAGE_SIZE <= LastUser
  BY <1>1, <1>3 DEF access_ok, NoOverflow, page
<1>5. e = IF start + size < m THEN start + size ELSE start + size - m
  <2>1. PICK j : j = start + size
    OBVIOUS
  <2>2. j \in 0..(2 * m - 1)
    BY <1>2, <2>1
  <2>3. j % m = IF j < m THEN j ELSE j - m
    BY <1>2, <2>2, Wrap
  <2>4. e = j % m
    BY ONLY <1>3, <2>1, Zenon
  <2> QED BY <1>2, <2>1, <2>3, <2>4
<1>6. start + size < m
  <2>1. ASSUME start + size >= m PROVE FALSE
    <3>1. e \in Nat /\ e + PAGE_SIZE <= start /\ start \in Nat
      BY <1>2, <1>5, <2>1
    <3>2. e \div PAGE_SIZE < start \div PAGE_SIZE
      BY <1>2, <3>1, DivShrinks
    <3>3. e \div PAGE_SIZE \in Nat /\ start \div PAGE_SIZE \in Nat
      BY <1>2, <3>1, DivBounds
    <3> QED BY <1>4, <3>2, <3>3
  <2> QED BY <1>2, <2>1
<1>7. PICK i \in 0..(size - 1) : a = (start + i) % m
  BY <1>1 DEF Bytes
<1>8. a = start + i
  <2>1. PICK j : j = start + i
    OBVIOUS
  <2>2. j \in 0..(2 * m - 1) /\ j < m
    BY <1>2, <1>6, <1>7, <2>1
  <2> QED BY <1>2, <1>7, <2>1, <2>2, Wrap
<1>9. start \in Nat /\ a \in Nat /\ e \in Nat /\ start <= a /\ a <= e
  BY <1>2, <1>5, <1>6, <1>7, <1>8
<1>10. /\ start \div PAGE_SIZE <= a \div PAGE_SIZE
       /\ a \div PAGE_SIZE <= e \div PAGE_SIZE
  BY <1>2, <1>9, DivGrows
<1>11. /\ start \div PAGE_SIZE \in Nat /\ a \div PAGE_SIZE \in Nat /\ e \div PAGE_SIZE \in Nat
  BY <1>2, <1>9, DivBounds
<1> QED BY <1>2, <1>4, <1>10, <1>11 DEF page

\* Every call reads only what access_ok has accepted.
LEMMA NextReads == KernelKept /\ [Next]_vars => KernelKept'
<1> SUFFICES ASSUME KernelKept, [Next]_vars PROVE KernelKept'
  OBVIOUS
<1>1. ASSUME NEW r \in Ranges, sys_write(r[1], r[2]) PROVE KernelKept'
  <2>1. /\ access_ok("VERIFY_READ", r[1], r[2]) /\ read' = Bytes(r[1], r[2])
        /\ r[1] \in Addresses /\ r[2] \in 0..(Space \div 2 - 1)
    BY <1>1, UserAssumption DEF sys_write
  <2> QED BY <2>1, RangeFacts DEF KernelKept
<1>2. ASSUME NEW b \in Pictures, sys_clrscr(b) PROVE KernelKept'
  <2>1. b \in Addresses /\ PictureSize \in 0..(Space \div 2 - 1)
    <3>1. PICK k : k = Space \div 2
      OBVIOUS
    <3>2. k \in Nat
      BY <3>1, SpaceFacts
    <3>3. PictureSize \in Nat /\ PictureSize < k
      BY <3>1, ScreenFacts, UserAssumption DEF PictureSize
    <3> QED BY <3>1, <3>2, <3>3, UserAssumption
  <2>2. read' = {} \/ /\ access_ok("VERIFY_READ", b, PictureSize)
                      /\ read' = Bytes(b, PictureSize)
    BY <1>2 DEF sys_clrscr
  <2>3. CASE read' = {}
    BY <2>3 DEF KernelKept
  <2>4. CASE /\ access_ok("VERIFY_READ", b, PictureSize)
             /\ read' = Bytes(b, PictureSize)
    BY <2>1, <2>4, RangeFacts DEF KernelKept
  <2> QED BY <2>2, <2>3, <2>4
<1>3. ASSUME read' = {} PROVE KernelKept'
  BY <1>3 DEF KernelKept
<1>4. ASSUME UNCHANGED vars PROVE KernelKept'
  BY <1>4 DEF vars, KernelKept
<1> QED BY <1>1, <1>2, <1>3, <1>4 DEF Next, sys_gotoXY, sys_changeColor, echo

\* Whatever ranges and pictures a program passes, the kernel reads nothing but
\* the pages of the user and the one behind them.
THEOREM KernelStaysKept == Spec => []KernelKept
<1>1. Init => KernelKept
  BY DEF Init, KernelKept
<1> QED BY <1>1, NextReads, PTL DEF Spec
-----------------------------------------------------------------------------
(* Refinement of Terminal.                                                  *)

\* A cursor on the screen is a cell of the line.
LEMMA CaretFacts ==
    ASSUME NEW u \in 0..(BYTE - 1), NEW v \in 0..(BYTE - 1), u < NUM_COLUMNS, v < NUM_ROWS
    PROVE  v * NUM_COLUMNS + u \in Linear!Cells
<1>1. u \in 0..(NUM_COLUMNS - 1) /\ v \in 0..(NUM_ROWS - 1)
  BY ScreenFacts
<1> QED BY <1>1, CellFacts DEF Linear!Cells, Linear!Size

\* The boot leaves the cursor in a cell.
LEMMA LinearInit == Init => Linear!Init
<1> SUFFICES ASSUME Init PROVE Linear!Init
  OBVIOUS
<1>1. /\ x = 0 /\ y = START_ROW /\ color \in Colors /\ printed = << >>
      /\ START_ROW \in 0..(BYTE - 1) /\ 0 \in 0..(BYTE - 1)
      /\ x < NUM_COLUMNS /\ y < NUM_ROWS
  BY ScreenAssumption, ScreenFacts DEF Init, Colors
<1>2. y * NUM_COLUMNS + x \in Linear!Cells
  BY <1>1, CaretFacts
<1> QED BY <1>1, <1>2 DEF Linear!Init, OnScreen

\* Terminal joins sequences as Console does.
LEMMA SameFlatten ==
    ASSUME NEW q
    PROVE  Linear!FlattenSeq(q) = FlattenSeq(q)
BY DEF Linear!FlattenSeq, FlattenSeq

\* Every call does to the line what Terminal allows.
LEMMA LinearNext ==
    CursorSound /\ CursorSound' /\ [Next]_vars
      => [Linear!Next]_<<IF OnScreen THEN y * NUM_COLUMNS + x ELSE -1, color, printed>>
<1> DEFINE caret == IF OnScreen THEN y * NUM_COLUMNS + x ELSE -1
<1> SUFFICES ASSUME CursorSound, CursorSound', [Next]_vars
             PROVE  Linear!Next \/ UNCHANGED <<caret, color, printed>>
  OBVIOUS
<1>1. TypeOK /\ color \in Colors /\ TypeOK'
  BY DEF CursorSound, TypeOK
<1>2. /\ OnScreen => caret \in Linear!Cells /\ caret # -1 /\ caret = Cell(Cursor(x, y))
      /\ ~OnScreen => caret = -1
  <2>1. ASSUME OnScreen PROVE caret \in Linear!Cells /\ caret # -1
    <3>1. caret \in Linear!Cells
      BY <1>1, <2>1, CaretFacts DEF TypeOK, OnScreen
    <3> QED BY <3>1, ScreenFacts DEF Linear!Cells, Linear!Size
  <2> QED BY <2>1 DEF Cell, Cursor
<1>3. caret' \in Linear!Cells \cup {-1}
  BY <1>1, CaretFacts DEF TypeOK, OnScreen
<1>4. ASSUME NEW r \in Ranges, sys_write(r[1], r[2]) PROVE Linear!Next
  <2>1. color' = color
    BY <1>4 DEF sys_write
  <2>2. CASE ~OnScreen
    <3>1. Linear!Drift
      BY <1>2, <2>1, <2>2 DEF Linear!Drift, Linear!Adrift
    <3> QED BY <3>1 DEF Linear!Next
  <2>3. CASE OnScreen
    <3> DEFINE text == TextAt(r[1], r[2])
    <3>1. PICK f : LET s == f[Len(text)]
                   IN  /\ text \in Seq(UserBytes) /\ Len(text) = r[2]
                       /\ IsRun(f, Cursor(x, y), text, Len(text))
                       /\ s \in Cursors
                       /\ OnScreen => Placed(s) /\ Inside(s.out)
                       /\ x' = s.x /\ y' = s.y /\ printed' = s.out
      BY <1>1, <1>4, WriteIsRun
    <3>2. text \in {[i \in 1..q[2] |-> Mem[(q[1] + i - 1) % Space]] : q \in Ranges}
      BY DEF TextAt
    <3> HIDE DEF text
    <3>3. OnScreen' /\ caret' = Cell(f[Len(text)])
      BY <2>3, <3>1 DEF Placed, OnScreen, Cell
    <3>4. LET at == Linear!At(Cell(Cursor(x, y)), text)
          IN  /\ at[Len(text) + 1] = Cell(f[Len(text)])
              /\ f[Len(text)].out = FlattenSeq([i \in DOMAIN text |->
                   IF text[i] = NewLine THEN << >> ELSE <<(<<at[i], text[i], color>>)>>])
      <4>1. Cursor(x, y) \in Cursors /\ Placed(Cursor(x, y)) /\ Cursor(x, y).out = << >>
        BY <1>1, <2>3, Kept DEF Cursor
      <4> QED BY <1>1, <3>1, <4>1, RunPrints
    <3>5. Linear!PrintText(text)
      <4>1. PICK p : p = Cell(Cursor(x, y))
        OBVIOUS
      <4>2. /\ Linear!At(p, text)[Len(text) + 1] = Cell(f[Len(text)])
            /\ f[Len(text)].out = FlattenSeq([i \in DOMAIN text |->
                 IF text[i] = NewLine THEN << >>
                 ELSE <<(<<Linear!At(p, text)[i], text[i], color>>)>>])
        BY ONLY <3>4, <4>1, Zenon
      <4>3. caret = p /\ caret # -1
        BY <1>2, <2>3, <4>1
      <4> HIDE DEF caret
      <4>4. /\ caret # -1 /\ caret' = Linear!At(caret, text)[Len(text) + 1]
            /\ printed' = FlattenSeq([i \in DOMAIN text |->
                 IF text[i] = NewLine THEN << >>
                 ELSE <<(<<Linear!At(caret, text)[i], text[i], color>>)>>])
        BY ONLY <3>1, <3>3, <4>2, <4>3, Zenon
      <4>5. /\ caret # -1 /\ caret' = Linear!At(caret, text)[Len(text) + 1]
            /\ printed' = Linear!FlattenSeq([i \in DOMAIN text |->
                 IF text[i] = NewLine THEN << >>
                 ELSE <<(<<Linear!At(caret, text)[i], text[i], color>>)>>])
        BY <4>4, SameFlatten, Zenon
      <4> QED BY <2>1, <4>5, Zenon DEF Linear!PrintText, Linear!Adrift, caret
    <3> QED BY <3>2, <3>5 DEF Linear!Next
  <2> QED BY <2>2, <2>3
<1>5. ASSUME NEW new_x \in Coordinates, NEW new_y \in Coordinates, sys_gotoXY(new_x, new_y)
      PROVE  Linear!Next
  <2>1. OnScreen /\ printed' = << >> /\ color' = color
    BY <1>5 DEF sys_gotoXY
  <2>2. Linear!Place(caret')
    BY <1>2, <2>1 DEF Linear!Place, Linear!Adrift
  <2> QED BY <1>3, <2>2 DEF Linear!Next, Linear!Adrift
<1>6. ASSUME NEW c \in Paints, sys_changeColor(c) PROVE Linear!Next
  <2>1. c \in Colors /\ color' = c /\ printed' = << >> /\ x' = x /\ y' = y
    BY <1>6 DEF sys_changeColor
  <2>2. Linear!Paint(c)
    BY <2>1 DEF Linear!Paint, OnScreen
  <2> QED BY <2>1, <2>2 DEF Linear!Next
<1>7. ASSUME NEW b \in Pictures, sys_clrscr(b) PROVE Linear!Next
  <2>1. color' = color /\ printed' = << >> /\ x' = 0 /\ y' = 0
    BY <1>7 DEF sys_clrscr
  <2>2. caret' = 0
    BY <2>1, ScreenFacts DEF OnScreen
  <2>3. Linear!Clear
    BY <2>1, <2>2 DEF Linear!Clear
  <2> QED BY <2>3 DEF Linear!Next
<1>8. ASSUME NEW a \in Addresses, echo(Mem[a]) PROVE Linear!Next
  <2>1. Mem[a] \in UserBytes
    BY DEF UserBytes
  <2>2. /\ UNCHANGED <<x, y, color>>
        /\ printed' = IF Mem[a] = NewLine THEN << >> ELSE <<(<<0, Mem[a], color>>)>>
    BY <1>1, <1>8, <2>1, EchoFacts
  <2>3. Linear!Echo(Mem[a])
    BY <2>2 DEF Linear!Echo, OnScreen
  <2> QED BY <2>3 DEF Linear!Next
<1>9. ASSUME UNCHANGED vars PROVE UNCHANGED <<caret, color, printed>>
  BY <1>9 DEF vars, OnScreen
<1> QED BY <1>4, <1>5, <1>6, <1>7, <1>8, <1>9 DEF Next

\* write, gotoXY, changeColor, clrscr and the echo of keys implement the
\* linear terminal, in whatever pieces and words a text is copied.
THEOREM ConsoleIsTerminal == Spec => TerminalSpec
BY InitSound, NextSound, LinearInit, LinearNext, PTL DEF Spec, TerminalSpec, Linear!Spec
=============================================================================
