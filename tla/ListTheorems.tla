---------------------------- MODULE ListTheorems ----------------------------
(***************************************************************************)
(* Facts about the lists of module Lists, for every list.                  *)
(***************************************************************************)
EXTENDS Lists, Integers, SequenceTheorems, FunctionTheorems, FiniteSetTheorems,
        WellFoundedInduction, TLAPS

(* Induction over Nat, stated with a set instead of a predicate.            *)
LEMMA NatSetInduction ==
    ASSUME NEW S, 0 \in S, \A n \in Nat : n \in S => n + 1 \in S
    PROVE  \A n \in Nat : n \in S
<1> DEFINE B == {n \in Nat : n \notin S}
<1> SUFFICES ASSUME B # {} PROVE FALSE
  OBVIOUS
<1>1. IsWellFoundedOn(OpToRel(<, Nat), Nat)
  BY NatLessThanWellFounded
<1>2. \E x \in B : \A y \in B : ~(<<y, x>> \in OpToRel(<, Nat))
  BY <1>1, WFMin
<1>3. PICK x \in B : \A y \in B : ~(<<y, x>> \in OpToRel(<, Nat))
  BY <1>2
<1>4. x \in Nat /\ x \notin S
  OBVIOUS
<1>5. \A y \in B : ~(y < x)
  BY <1>3 DEF OpToRel
<1>6. x # 0
  BY <1>4
<1>7. x - 1 \in Nat /\ x - 1 < x
  BY <1>4, <1>6
<1>8. x - 1 \in S
  BY <1>5, <1>7
<1>9. (x - 1) + 1 \in S
  BY <1>7, <1>8
<1>10. (x - 1) + 1 = x
  BY <1>4
<1> QED BY <1>4, <1>9, <1>10

-----------------------------------------------------------------------------
(* Appending, taking the head, joining: what they do to members and to      *)
(* duplicates.                                                              *)

\* INIT_LIST_HEAD leaves a list without members.
LEMMA RangeOfEmpty == Range(<< >>) = {} /\ IsInjective(<< >>)
BY DEF Range, IsInjective

\* A list is empty when nobody is on it.
LEMMA EmptyFacts ==
    ASSUME NEW T, NEW q \in Seq(T)
    PROVE  q = << >> <=> Range(q) = {}
<1>1. Len(q) \in Nat /\ DOMAIN q = 1..Len(q)
  BY LenProperties
<1>2. ASSUME q # << >> PROVE q[1] \in Range(q)
  BY <1>1, <1>2, EmptySeq DEF Range
<1> QED BY <1>2, RangeOfEmpty

\* A list on which nobody is twice has as many entries as there are on it.
LEMMA InjectiveLen ==
    ASSUME NEW T, NEW q \in Seq(T), IsInjective(q)
    PROVE  IsFiniteSet(Range(q)) /\ Cardinality(Range(q)) = Len(q)
<1>1. Len(q) \in Nat /\ DOMAIN q = 1..Len(q) /\ q \in [1..Len(q) -> Range(q)]
  BY LenProperties DEF Range
<1>2. \A x \in Range(q) : \E i \in 1..Len(q) : q[i] = x
  BY <1>1 DEF Range
<1>3. q \in Bijection(1..Len(q), Range(q))
  BY <1>1, <1>2, Fun_IsBij DEF IsInjective
<1> QED BY <1>1, <1>3, FS_CountingElements, FS_NatBijection DEF ExistsBijection

\* list_add_tail.
LEMMA AppendFacts ==
    ASSUME NEW T, NEW q \in Seq(T), NEW t \in T
    PROVE  /\ Append(q, t) \in Seq(T)
           /\ Range(Append(q, t)) = Range(q) \cup {t}
           /\ IsInjective(q) /\ t \notin Range(q) => IsInjective(Append(q, t))
<1>1. /\ Append(q, t) \in Seq(T)
      /\ DOMAIN Append(q, t) = 1..(Len(q) + 1)
      /\ DOMAIN q = 1..Len(q) /\ Len(q) \in Nat
      /\ \A i \in 1..Len(q) : Append(q, t)[i] = q[i]
      /\ Append(q, t)[Len(q) + 1] = t
  BY AppendProperties, LenProperties
<1>2. Range(Append(q, t)) = Range(q) \cup {t}
  BY <1>1 DEF Range
<1>3. ASSUME IsInjective(q), t \notin Range(q)
      PROVE  IsInjective(Append(q, t))
  <2> SUFFICES ASSUME NEW i \in 1..(Len(q) + 1), NEW j \in 1..(Len(q) + 1),
                      Append(q, t)[i] = Append(q, t)[j]
               PROVE  i = j
    BY <1>1 DEF IsInjective
  <2>1. CASE i \in 1..Len(q) /\ j \in 1..Len(q)
    BY <1>1, <1>3, <2>1 DEF IsInjective
  <2>2. CASE i = Len(q) + 1 /\ j \in 1..Len(q)
    BY <1>1, <1>3, <2>2 DEF Range
  <2>3. CASE j = Len(q) + 1 /\ i \in 1..Len(q)
    BY <1>1, <1>3, <2>3 DEF Range
  <2> QED BY <1>1, <2>1, <2>2, <2>3
<1> QED BY <1>1, <1>2, <1>3

\* list_first, and list_del of what it returns.
LEMMA HeadTailFacts ==
    ASSUME NEW T, NEW q \in Seq(T), q # << >>
    PROVE  /\ Head(q) \in T /\ Tail(q) \in Seq(T)
           /\ Head(q) \in Range(q)
           /\ Range(q) = Range(Tail(q)) \cup {Head(q)}
           /\ IsInjective(q) => /\ IsInjective(Tail(q))
                                /\ Head(q) \notin Range(Tail(q))
<1>1. /\ Head(q) \in T /\ Tail(q) \in Seq(T)
      /\ DOMAIN q = 1..Len(q) /\ Len(q) \in Nat /\ Len(q) # 0
      /\ DOMAIN Tail(q) = 1..(Len(q) - 1)
      /\ \A i \in 1..(Len(q) - 1) : Tail(q)[i] = q[i + 1]
      /\ Head(q) = q[1]
  BY HeadTailProperties, LenProperties, EmptySeq
<1>2. Head(q) \in Range(q)
  BY <1>1 DEF Range
<1>3. Range(q) = Range(Tail(q)) \cup {Head(q)}
  <2>1. ASSUME NEW i \in 1..Len(q), i # 1
        PROVE  i - 1 \in 1..(Len(q) - 1) /\ q[i] = Tail(q)[i - 1]
    BY <1>1, <2>1
  <2>2. ASSUME NEW i \in 1..(Len(q) - 1)
        PROVE  i + 1 \in 1..Len(q) /\ Tail(q)[i] = q[i + 1]
    BY <1>1
  <2>3. ASSUME NEW x \in Range(q), x # Head(q)
        PROVE  x \in Range(Tail(q))
    <3>1. PICK i \in 1..Len(q) : x = q[i]
      BY <1>1 DEF Range
    <3>2. i # 1
      BY <1>1, <2>3, <3>1
    <3> QED BY <1>1, <2>1, <3>1, <3>2 DEF Range
  <2>4. ASSUME NEW x \in Range(Tail(q))
        PROVE  x \in Range(q)
    <3>1. PICK i \in 1..(Len(q) - 1) : x = Tail(q)[i]
      BY <1>1 DEF Range
    <3> QED BY <1>1, <2>2, <3>1 DEF Range
  <2> QED BY <1>2, <2>3, <2>4
<1>4. ASSUME IsInjective(q)
      PROVE  IsInjective(Tail(q)) /\ Head(q) \notin Range(Tail(q))
  <2>1. \A i, j \in 1..Len(q) : q[i] = q[j] => i = j
    BY <1>1, <1>4 DEF IsInjective
  <2>2. ASSUME NEW i \in 1..(Len(q) - 1), NEW j \in 1..(Len(q) - 1),
               Tail(q)[i] = Tail(q)[j]
        PROVE  i = j
    <3>1. i + 1 \in 1..Len(q) /\ j + 1 \in 1..Len(q) /\ q[i + 1] = q[j + 1]
      BY <1>1, <2>2
    <3> QED BY <2>1, <3>1
  <2>3. ASSUME NEW i \in 1..(Len(q) - 1), Tail(q)[i] = Head(q)
        PROVE  FALSE
    <3>1. i + 1 \in 1..Len(q) /\ 1 \in 1..Len(q) /\ q[i + 1] = q[1]
      BY <1>1, <2>3
    <3>2. i + 1 = 1
      BY <2>1, <3>1
    <3> QED BY <3>2
  <2> QED BY <1>1, <2>2, <2>3 DEF IsInjective, Range
<1> QED BY <1>1, <1>2, <1>3, <1>4

\* One list joined to the tail of another.
LEMMA ConcatFacts ==
    ASSUME NEW T, NEW p \in Seq(T), NEW q \in Seq(T)
    PROVE  /\ p \o q \in Seq(T)
           /\ Range(p \o q) = Range(p) \cup Range(q)
           /\ IsInjective(p) /\ IsInjective(q) /\ Range(p) \cap Range(q) = {}
                => IsInjective(p \o q)
<1> DEFINE r == p \o q
<1>1. /\ r \in Seq(T)
      /\ Len(p) \in Nat /\ Len(q) \in Nat
      /\ DOMAIN p = 1..Len(p) /\ DOMAIN q = 1..Len(q)
      /\ DOMAIN r = 1..(Len(p) + Len(q))
      /\ \A i \in 1..(Len(p) + Len(q)) :
           r[i] = IF i <= Len(p) THEN p[i] ELSE q[i - Len(p)]
  BY ConcatProperties, LenProperties
<1> HIDE DEF r
<1>2. \A i \in 1..Len(p) : i \in DOMAIN r /\ r[i] = p[i]
  BY <1>1
<1>3. \A i \in DOMAIN r :
        \/ i \in 1..Len(p)
        \/ i - Len(p) \in 1..Len(q) /\ r[i] = q[i - Len(p)]
  BY <1>1
<1>4. ASSUME IsInjective(p), IsInjective(q), Range(p) \cap Range(q) = {}
      PROVE  IsInjective(r)
  <2> SUFFICES ASSUME NEW i \in DOMAIN r, NEW j \in DOMAIN r, r[i] = r[j]
               PROVE  i = j
    BY DEF IsInjective
  <2>0. i \in Nat /\ j \in Nat
    BY <1>1
  <2>1. CASE i \in 1..Len(p) /\ j \in 1..Len(p)
    BY <1>1, <1>2, <1>4, <2>1 DEF IsInjective
  <2>2. CASE i - Len(p) \in 1..Len(q) /\ j - Len(p) \in 1..Len(q)
    <3>1. q[i - Len(p)] = q[j - Len(p)]
      BY <1>1, <2>2, <2>0
    <3>2. i - Len(p) = j - Len(p)
      BY <1>1, <1>4, <2>2, <3>1 DEF IsInjective
    <3> QED BY <3>2, <2>0, <1>1
  <2>3. CASE i \in 1..Len(p) /\ j - Len(p) \in 1..Len(q)
    <3>1. r[i] \in Range(p) /\ r[j] \in Range(q)
      BY <1>1, <2>3, <2>0 DEF Range
    <3> QED BY <1>4, <3>1
  <2>4. CASE j \in 1..Len(p) /\ i - Len(p) \in 1..Len(q)
    <3>1. r[j] \in Range(p) /\ r[i] \in Range(q)
      BY <1>1, <2>4, <2>0 DEF Range
    <3> QED BY <1>4, <3>1
  <2> QED BY <1>3, <2>1, <2>2, <2>3, <2>4
<1>5. Range(p \o q) = Range(p) \cup Range(q)
  BY RangeConcatenation
<1> QED BY <1>1, <1>4, <1>5 DEF r
-----------------------------------------------------------------------------
(* FlattenSeq.  Its recursive function exists on every prefix, so the       *)
(* CHOOSE that defines it picks it.                                         *)

FlattenStep(seqs, f, i) == IF i = 1 THEN seqs[i] ELSE f[i - 1] \o seqs[i]

\* FlattenSeq is defined with a recursive function: it exists.
LEMMA FlattenFunctionExists ==
    ASSUME NEW seqs
    PROVE  \A n \in Nat : \E f : f = [i \in 1..n |-> FlattenStep(seqs, f, i)]
<1> DEFINE Rec(f, n) == f = [i \in 1..n |-> FlattenStep(seqs, f, i)]
           H == {n \in Nat : \E f : Rec(f, n)}
<1>1. 0 \in H
  <2> DEFINE g == [i \in 1..0 |-> << >>]
  <2>1. Rec(g, 0)
    OBVIOUS
  <2> QED BY <2>1
<1>2. ASSUME NEW n \in Nat, n \in H
      PROVE  n + 1 \in H
  <2>1. PICK f : Rec(f, n)
    BY <1>2
  <2> DEFINE g == [i \in 1..(n + 1) |->
                     IF i = n + 1 THEN FlattenStep(seqs, f, n + 1) ELSE f[i]]
  <2>2. ASSUME NEW i \in 1..(n + 1)
        PROVE  g[i] = FlattenStep(seqs, g, i)
    <3>1. CASE i = 1
      BY <1>2, <2>1, <3>1 DEF FlattenStep
    <3>2. CASE i # 1 /\ i = n + 1
      <4>1. i - 1 \in 1..n /\ g[i - 1] = f[i - 1]
        BY <1>2, <3>2
      <4> QED BY <3>2, <4>1 DEF FlattenStep
    <3>3. CASE i # 1 /\ i # n + 1
      <4>1. i \in 1..n /\ i - 1 \in 1..n
        BY <1>2, <3>3
      <4>2. g[i - 1] = f[i - 1] /\ g[i] = f[i]
        BY <1>2, <4>1
      <4>3. f[i] = FlattenStep(seqs, f, i)
        BY <2>1, <4>1
      <4> QED BY <3>3, <4>2, <4>3 DEF FlattenStep
    <3> QED BY <3>1, <3>2, <3>3
  <2>3. Rec(g, n + 1)
    <3>1. g = [i \in 1..(n + 1) |-> g[i]]
      OBVIOUS
    <3> HIDE DEF g
    <3> QED BY <2>2, <3>1
  <2> HIDE DEF g
  <2>4. n + 1 \in Nat /\ \E h : Rec(h, n + 1)
    BY <1>2, <2>3
  <2> QED BY <2>4
<1> HIDE DEF H
<1>3. \A n \in Nat : n \in H
  BY <1>1, <1>2, NatSetInduction
<1> QED BY <1>3 DEF H

\* So FlattenSeq is the last value of such a function.
LEMMA FlattenDef ==
    ASSUME NEW seqs, Len(seqs) \in Nat, Len(seqs) # 0
    PROVE  \E f : /\ f = [i \in 1..Len(seqs) |-> FlattenStep(seqs, f, i)]
                  /\ FlattenSeq(seqs) = f[Len(seqs)]
<1> DEFINE c == CHOOSE f : f = [i \in 1..Len(seqs) |->
                             IF i = 1 THEN seqs[i] ELSE f[i - 1] \o seqs[i]]
<1>1. \E f : f = [i \in 1..Len(seqs) |-> FlattenStep(seqs, f, i)]
  BY FlattenFunctionExists
<1>2. c = [i \in 1..Len(seqs) |-> FlattenStep(seqs, c, i)]
  BY <1>1 DEF FlattenStep
<1>3. FlattenSeq(seqs) = c[Len(seqs)]
  BY DEF FlattenSeq
<1> QED BY <1>2, <1>3

\* A concatenation has the members of its parts, and no duplicate if the
\* parts have none and share none.
LEMMA FlattenFacts ==
    ASSUME NEW T, NEW seqs \in Seq(Seq(T))
    PROVE  /\ FlattenSeq(seqs) \in Seq(T)
           /\ Range(FlattenSeq(seqs)) = UNION {Range(seqs[i]) : i \in DOMAIN seqs}
           /\ (/\ \A i \in DOMAIN seqs : IsInjective(seqs[i])
               /\ \A i, j \in DOMAIN seqs :
                    i # j => Range(seqs[i]) \cap Range(seqs[j]) = {})
                => IsInjective(FlattenSeq(seqs))
<1>1. Len(seqs) \in Nat /\ DOMAIN seqs = 1..Len(seqs)
      /\ \A i \in 1..Len(seqs) : seqs[i] \in Seq(T)
  BY LenProperties, ElementOfSeq
<1>2. CASE Len(seqs) = 0
  <2>1. seqs = << >> /\ FlattenSeq(seqs) = << >>
    BY <1>2, EmptySeq DEF FlattenSeq
  <2>2. DOMAIN seqs = {}
    BY <1>1, <1>2
  <2> QED BY <2>1, <2>2, RangeOfEmpty, EmptySeq
<1>3. CASE Len(seqs) # 0
  <2>1. PICK f : /\ f = [i \in 1..Len(seqs) |-> FlattenStep(seqs, f, i)]
                 /\ FlattenSeq(seqs) = f[Len(seqs)]
    BY <1>1, <1>3, FlattenDef
  <2> DEFINE Apart == /\ \A i \in DOMAIN seqs : IsInjective(seqs[i])
                      /\ \A i, j \in DOMAIN seqs :
                           i # j => Range(seqs[i]) \cap Range(seqs[j]) = {}
             Good(n) == /\ f[n] \in Seq(T)
                        /\ Range(f[n]) = UNION {Range(seqs[i]) : i \in 1..n}
                        /\ Apart => IsInjective(f[n])
             H == {n \in Nat : n + 1 <= Len(seqs) => Good(n + 1)}
  <2>2. 0 \in H
    <3>1. f[1] = seqs[1]
      BY <1>1, <1>3, <2>1 DEF FlattenStep
    <3>2. 1 \in 1..Len(seqs) /\ 1..1 = {1}
      BY <1>1, <1>3
    <3>3. Good(1)
      <4>1. f[1] \in Seq(T)
        BY <3>1, <3>2, <1>1
      <4>2. Range(f[1]) = UNION {Range(seqs[i]) : i \in 1..1}
        BY <3>1, <3>2
      <4>3. Apart => IsInjective(f[1])
        BY <3>1, <3>2, <1>1
      <4> QED BY <4>1, <4>2, <4>3
    <3> HIDE DEF Good
    <3> QED BY <3>3
  <2>3. ASSUME NEW n \in Nat, n \in H
        PROVE  n + 1 \in H
    <3> SUFFICES ASSUME n + 2 <= Len(seqs)
                 PROVE  Good(n + 2)
      <4> HIDE DEF Good
      <4>1. (n + 1) + 1 = n + 2 /\ n + 1 \in Nat
        BY <2>3
      <4> QED BY <4>1
    <3>1. n + 1 \in 1..Len(seqs) /\ n + 2 \in 1..Len(seqs) /\ n + 2 # 1
      BY <1>1, <2>3
    <3>2. Good(n + 1)
      <4> HIDE DEF Good
      <4> QED BY <1>1, <2>3
    <3>3. f[n + 2] = f[n + 1] \o seqs[n + 2]
      <4>1. (n + 2) - 1 = n + 1
        BY <2>3
      <4> QED BY <2>1, <3>1, <4>1 DEF FlattenStep
    <3>4. seqs[n + 2] \in Seq(T)
      BY <1>1, <3>1
    <3>5. UNION {Range(seqs[i]) : i \in 1..(n + 2)}
            = (UNION {Range(seqs[i]) : i \in 1..(n + 1)}) \cup Range(seqs[n + 2])
      <4>1. \A i : i \in 1..(n + 2) <=> i \in 1..(n + 1) \/ i = n + 2
        BY <2>3
      <4> QED BY <4>1
    <3>6. ASSUME Apart
          PROVE  Range(f[n + 1]) \cap Range(seqs[n + 2]) = {}
      <4>1. \A i \in 1..(n + 1) : i \in DOMAIN seqs /\ i # n + 2
        BY <1>1, <2>3, <3>1
      <4>2. \A i \in 1..(n + 1) : Range(seqs[i]) \cap Range(seqs[n + 2]) = {}
        BY <1>1, <3>1, <3>6, <4>1
      <4> QED BY <3>2, <4>2
    <3>7. Apart => IsInjective(f[n + 2])
      BY <1>1, <3>1, <3>2, <3>3, <3>4, <3>6, ConcatFacts
    <3>8. f[n + 2] \in Seq(T)
          /\ Range(f[n + 2]) = UNION {Range(seqs[i]) : i \in 1..(n + 2)}
      <4>1. f[n + 1] \in Seq(T)
            /\ Range(f[n + 1]) = UNION {Range(seqs[i]) : i \in 1..(n + 1)}
        BY <3>2
      <4>2. /\ f[n + 1] \o seqs[n + 2] \in Seq(T)
            /\ Range(f[n + 1] \o seqs[n + 2])
                 = Range(f[n + 1]) \cup Range(seqs[n + 2])
        BY <3>4, <4>1, ConcatFacts
      <4> HIDE DEF Good, H, Apart
      <4> QED BY ONLY <3>3, <3>5, <4>1, <4>2, Zenon
    <3> QED BY <3>7, <3>8
  <2> HIDE DEF H
  <2>4. \A n \in Nat : n \in H
    BY <2>2, <2>3, NatSetInduction
  <2>5. Good(Len(seqs))
    <3>1. Len(seqs) - 1 \in Nat /\ (Len(seqs) - 1) + 1 = Len(seqs)
      BY <1>1, <1>3
    <3> HIDE DEF Good
    <3>2. Len(seqs) - 1 \in H
      BY <2>4, <3>1
    <3> QED BY <1>1, <3>1, <3>2 DEF H
  <2> QED BY <1>1, <2>1, <2>5
<1> QED BY <1>2, <1>3
-----------------------------------------------------------------------------
(* The operators of module Lists.                                           *)

\* What Keep leaves is what q and S share, each once if it was once in q.
THEOREM KeepFacts ==
    ASSUME NEW T, NEW q \in Seq(T), NEW S
    PROVE  /\ Keep(q, S) \in Seq(T)
           /\ Range(Keep(q, S)) = Range(q) \cap S
           /\ IsInjective(q) => IsInjective(Keep(q, S))
<1> DEFINE part == [i \in DOMAIN q |-> IF q[i] \in S THEN <<q[i]>> ELSE << >>]
<1>1. DOMAIN q = 1..Len(q) /\ Len(q) \in Nat /\ \A i \in DOMAIN q : q[i] \in T
  BY LenProperties, ElementOfSeq
<1>2. \A i \in DOMAIN q : part[i] \in Seq(T)
  BY <1>1
<1>3. part \in Seq(Seq(T)) /\ DOMAIN part = DOMAIN q
  BY <1>1, <1>2, SeqDef
<1>4. \A i \in DOMAIN q : Range(part[i]) = {q[i]} \cap S /\ IsInjective(part[i])
  <2> SUFFICES ASSUME NEW i \in DOMAIN q
               PROVE  Range(part[i]) = {q[i]} \cap S /\ IsInjective(part[i])
    OBVIOUS
  <2>1. CASE q[i] \in S
    <3>1. part[i] = <<q[i]>> /\ DOMAIN <<q[i]>> = {1}
      BY <2>1
    <3> QED BY <2>1, <3>1 DEF Range, IsInjective
  <2>2. CASE q[i] \notin S
    <3>1. part[i] = << >>
      BY <2>2
    <3> QED BY <2>2, <3>1, RangeOfEmpty
  <2> QED BY <2>1, <2>2
<1>5. Keep(q, S) = FlattenSeq(part)
  BY DEF Keep
<1> HIDE DEF part
<1>6. Range(Keep(q, S)) = Range(q) \cap S
  <2>1. Range(Keep(q, S)) = UNION {Range(part[i]) : i \in DOMAIN q}
    BY <1>3, <1>5, FlattenFacts
  <2>2. UNION {Range(part[i]) : i \in DOMAIN q}
          = UNION {{q[i]} \cap S : i \in DOMAIN q}
    BY <1>4, Zenon
  <2>3. UNION {{q[i]} \cap S : i \in DOMAIN q} = Range(q) \cap S
    BY DEF Range
  <2> QED BY <2>1, <2>2, <2>3
<1>7. ASSUME IsInjective(q)
      PROVE  IsInjective(Keep(q, S))
  <2>1. \A i, j \in DOMAIN q : i # j => q[i] # q[j]
    BY <1>7 DEF IsInjective
  <2>2. \A i, j \in DOMAIN q : i # j => Range(part[i]) \cap Range(part[j]) = {}
    BY <1>4, <2>1
  <2> QED BY <1>3, <1>4, <1>5, <2>2, FlattenFacts
<1>8. Keep(q, S) \in Seq(T)
  BY <1>3, <1>5, FlattenFacts
<1> QED BY <1>6, <1>7, <1>8

\* When only the first k entries of q are not in S, and k is at most one,
\* Keep drops those and leaves the others as they are.
LEMMA KeepSuffix ==
    ASSUME NEW T, NEW q \in Seq(T), NEW S, NEW k \in {0, 1},
           \A i \in DOMAIN q : q[i] \in S <=> i > k
    PROVE  Keep(q, S) = SubSeq(q, k + 1, Len(q))
<1> DEFINE part == [i \in DOMAIN q |-> IF q[i] \in S THEN <<q[i]>> ELSE << >>]
<1>1. DOMAIN q = 1..Len(q) /\ Len(q) \in Nat /\ \A i \in DOMAIN q : q[i] \in T
  BY LenProperties, ElementOfSeq
<1>2. Keep(q, S) = FlattenSeq(part)
  BY DEF Keep
<1>3. \A i \in 1..Len(q) : part[i] = IF i > k THEN <<q[i]>> ELSE << >>
  BY <1>1
<1>4. Len(part) = Len(q)
  <2>1. part \in Seq(Seq(T)) /\ DOMAIN part = 1..Len(q)
    BY <1>1, SeqDef
  <2> QED BY <1>1, <2>1, LenProperties
<1> HIDE DEF part
<1>5. CASE Len(q) = 0
  <2>1. part = << >> \/ Len(part) = 0
    BY <1>4, <1>5
  <2>2. FlattenSeq(part) = << >>
    BY <1>4, <1>5 DEF FlattenSeq
  <2>3. SubSeq(q, k + 1, Len(q)) = << >>
    BY <1>1, <1>5, SubSeqEmpty
  <2> QED BY <1>2, <2>2, <2>3
<1>6. CASE Len(q) # 0
  <2>1. PICK f : /\ f = [i \in 1..Len(q) |-> FlattenStep(part, f, i)]
                 /\ FlattenSeq(part) = f[Len(q)]
    BY <1>1, <1>4, <1>6, FlattenDef
  <2> DEFINE Good(n) == f[n] = SubSeq(q, k + 1, n)
             H == {n \in Nat : n + 1 <= Len(q) => Good(n + 1)}
  <2>2. 0 \in H
    <3>1. 1 \in 1..Len(q)
      BY <1>1, <1>6
    <3>2. f[1] = IF 1 > k THEN <<q[1]>> ELSE << >>
      BY <1>3, <2>1, <3>1 DEF FlattenStep
    <3>3. Good(1)
      <4>1. CASE k = 0
        <5>1. SubSeq(q, 1, 1) = SubSeq(q, 1, 1 - 1) \o <<q[1]>>
          BY <1>1, <3>1, SubSeqRecursiveSecond
        <5>2. SubSeq(q, 1, 1 - 1) = << >>
          BY SubSeqEmpty
        <5>3. << >> \o <<q[1]>> = <<q[1]>>
          BY <1>1, <3>1, ConcatEmptySeq
        <5> QED BY <3>2, <4>1, <5>1, <5>2, <5>3
      <4>2. CASE k = 1
        <5>1. SubSeq(q, 2, 1) = << >>
          BY SubSeqEmpty
        <5> QED BY <3>2, <4>2, <5>1
      <4> QED BY <4>1, <4>2
    <3> HIDE DEF Good
    <3> QED BY <3>3
  <2>3. ASSUME NEW n \in Nat, n \in H
        PROVE  n + 1 \in H
    <3> SUFFICES ASSUME n + 2 <= Len(q)
                 PROVE  Good(n + 2)
      BY <2>3
    <3>1. n + 1 \in 1..Len(q) /\ n + 2 \in 1..Len(q) /\ n + 2 # 1 /\ n + 2 > k
      BY <1>1, <2>3
    <3>2. f[n + 1] = SubSeq(q, k + 1, n + 1)
      BY <1>1, <2>3
    <3>3. f[n + 2] = f[n + 1] \o <<q[n + 2]>>
      <4>1. (n + 2) - 1 = n + 1
        BY <2>3
      <4> QED BY <1>3, <2>1, <3>1, <4>1 DEF FlattenStep
    <3>4. SubSeq(q, k + 1, n + 2) = SubSeq(q, k + 1, (n + 2) - 1) \o <<q[n + 2]>>
      <4>1. k + 1 \in 1..Len(q) /\ n + 2 \in (k + 1)..Len(q)
        BY <1>1, <2>3, <3>1
      <4> QED BY <4>1, SubSeqRecursiveSecond
    <3>5. (n + 2) - 1 = n + 1
      BY <2>3
    <3> QED BY <3>2, <3>3, <3>4, <3>5
  <2> HIDE DEF H
  <2>4. \A n \in Nat : n \in H
    BY <2>2, <2>3, NatSetInduction
  <2>5. Good(Len(q))
    <3>1. Len(q) - 1 \in Nat /\ (Len(q) - 1) + 1 = Len(q)
      BY <1>1, <1>6
    <3> HIDE DEF Good
    <3>2. Len(q) - 1 \in H
      BY <2>4, <3>1
    <3> QED BY <1>1, <3>1, <3>2 DEF H
  <2> QED BY <1>2, <2>1, <2>5
<1> QED BY <1>5, <1>6

\* list_del of an entry that is not linked on q, and of the first entry of q.
THEOREM KeepAllAndTail ==
    ASSUME NEW T, NEW q \in Seq(T)
    PROVE  /\ \A S : Range(q) \subseteq S => Keep(q, S) = q
           /\ q # << >> /\ IsInjective(q) => Keep(q, Range(q) \ {Head(q)}) = Tail(q)
<1>1. DOMAIN q = 1..Len(q) /\ Len(q) \in Nat /\ \A i \in DOMAIN q : q[i] \in T
  BY LenProperties, ElementOfSeq
<1>2. ASSUME NEW S, Range(q) \subseteq S
      PROVE  Keep(q, S) = q
  <2>1. \A i \in DOMAIN q : q[i] \in S <=> i > 0
    BY <1>1, <1>2 DEF Range
  <2>2. Keep(q, S) = SubSeq(q, 0 + 1, Len(q))
    BY <2>1, KeepSuffix
  <2>3. SubSeq(q, 1, Len(q)) = q
    BY SubSeqFull
  <2> QED BY <2>2, <2>3
<1>3. ASSUME q # << >>, IsInjective(q)
      PROVE  Keep(q, Range(q) \ {Head(q)}) = Tail(q)
  <2>1. Head(q) = q[1] /\ Len(q) # 0 /\ 1 \in DOMAIN q
    BY <1>1, <1>3, EmptySeq, HeadTailProperties
  <2>2. \A i \in DOMAIN q : q[i] \in Range(q) \ {Head(q)} <=> i > 1
    BY <1>1, <1>3, <2>1 DEF Range, IsInjective
  <2>3. Keep(q, Range(q) \ {Head(q)}) = SubSeq(q, 1 + 1, Len(q))
    BY <2>2, KeepSuffix
  <2>4. SubSeq(q, 2, Len(q)) = Tail(q)
    BY <1>3, TailIsSubSeq
  <2>5. 1 + 1 = 2
    OBVIOUS
  <2> QED BY <2>3, <2>4, <2>5
<1> QED BY <1>2, <1>3

\* q without its entry j.
Without(q, j) == [i \in 1..(Len(q) - 1) |-> IF i < j THEN q[i] ELSE q[i + 1]]

\* list_del of one entry of q leaves the others in their order.
THEOREM KeepWithout ==
    ASSUME NEW T, NEW q \in Seq(T), NEW S, NEW j \in DOMAIN q,
           \A i \in DOMAIN q : q[i] \in S <=> i # j
    PROVE  Keep(q, S) = Without(q, j)
<1> DEFINE part == [i \in DOMAIN q |-> IF q[i] \in S THEN <<q[i]>> ELSE << >>]
           Count(n) == IF n < j THEN n ELSE n - 1
<1>1. DOMAIN q = 1..Len(q) /\ Len(q) \in Nat /\ \A i \in DOMAIN q : q[i] \in T
  BY LenProperties, ElementOfSeq
<1>2. Keep(q, S) = FlattenSeq(part)
  BY DEF Keep
<1>3. \A i \in 1..Len(q) : part[i] = IF i # j THEN <<q[i]>> ELSE << >>
  BY <1>1
<1>4. Len(part) = Len(q)
  <2>1. part \in Seq(Seq(T)) /\ DOMAIN part = 1..Len(q)
    BY <1>1, SeqDef
  <2> QED BY <1>1, <2>1, LenProperties
<1> HIDE DEF part
<1>5. Len(q) # 0 /\ j \in 1..Len(q)
  BY <1>1
<1>6. PICK f : /\ f = [i \in 1..Len(q) |-> FlattenStep(part, f, i)]
               /\ FlattenSeq(part) = f[Len(q)]
  BY <1>1, <1>4, <1>5, FlattenDef
<1> DEFINE Good(n) == /\ f[n] \in Seq(T) /\ Len(f[n]) = Count(n)
                      /\ \A i \in 1..Count(n) :
                           f[n][i] = IF i < j THEN q[i] ELSE q[i + 1]
           H == {n \in Nat : n + 1 <= Len(q) => Good(n + 1)}
<1>7. 0 \in H
  <2>1. 1 \in 1..Len(q)
    BY <1>1, <1>5
  <2>2. f[1] = IF 1 # j THEN <<q[1]>> ELSE << >>
    BY <1>3, <1>6, <2>1 DEF FlattenStep
  <2>3. Good(1)
    <3>1. CASE j = 1
      <4>1. Count(1) = 0 /\ f[1] = << >>
        BY <2>2, <3>1
      <4> QED BY <4>1, EmptySeq
    <3>2. CASE j # 1
      <4>1. Count(1) = 1 /\ f[1] = <<q[1]>> /\ 1 < j
        BY <1>5, <2>2, <3>2
      <4>2. q[1] \in T
        BY <1>1, <2>1
      <4>3. <<q[1]>> \in Seq(T) /\ Len(<<q[1]>>) = 1 /\ <<q[1]>>[1] = q[1]
        BY <4>2
      <4> QED BY <4>1, <4>3
    <3> QED BY <3>1, <3>2
  <2> HIDE DEF Good
  <2> QED BY <2>3
<1>8. ASSUME NEW n \in Nat, n \in H
      PROVE  n + 1 \in H
  <2> SUFFICES ASSUME n + 2 <= Len(q)
               PROVE  Good(n + 2)
    BY <1>8
  <2>1. n + 1 \in 1..Len(q) /\ n + 2 \in 1..Len(q) /\ n + 2 # 1 /\ (n + 2) - 1 = n + 1
    BY <1>1, <1>8
  <2>2. Good(n + 1)
    BY <1>1, <1>8
  <2>3. f[n + 2] = f[n + 1] \o part[n + 2]
    BY <1>6, <2>1 DEF FlattenStep
  <2>4. CASE n + 2 = j
    <3>1. part[n + 2] = << >> /\ f[n + 2] = f[n + 1]
      BY <1>3, <2>1, <2>2, <2>3, <2>4, ConcatEmptySeq
    <3>2. Count(n + 2) = n + 1 /\ Count(n + 1) = n + 1
      BY <1>1, <1>8, <2>4
    <3> QED BY <2>2, <3>1, <3>2
  <2>5. CASE n + 2 # j
    <3>1. part[n + 2] = <<q[n + 2]>> /\ q[n + 2] \in T
      BY <1>1, <1>3, <2>1, <2>5
    <3>2. Count(n + 2) = Count(n + 1) + 1 /\ Count(n + 1) \in Nat
      BY <1>1, <1>5, <1>8, <2>5
    <3>3. f[n + 2] = Append(f[n + 1], q[n + 2])
      BY <2>2, <2>3, <3>1, AppendIsConcat
    <3> DEFINE a == f[n + 1]
               b == f[n + 2]
               c == Count(n + 1)
    <3>4. /\ b \in Seq(T) /\ Len(b) = c + 1
          /\ \A i \in 1..c : b[i] = a[i]
          /\ b[c + 1] = q[n + 2]
      BY <2>2, <3>1, <3>3, AppendProperties
    <3>5. q[n + 2] = IF c + 1 < j THEN q[c + 1] ELSE q[(c + 1) + 1]
      <4>1. CASE n + 2 < j
        <5>1. c + 1 = n + 2
          BY <1>1, <1>5, <1>8, <4>1
        <5> QED BY <4>1, <5>1
      <4>2. CASE n + 2 > j
        <5>1. c + 1 = n + 1 /\ (c + 1) + 1 = n + 2 /\ ~(c + 1 < j)
          BY <1>1, <1>5, <1>8, <4>2
        <5> QED BY <5>1
      <4> QED BY <1>1, <1>5, <1>8, <2>5, <4>1, <4>2
    <3>6. \A i \in 1..c : a[i] = IF i < j THEN q[i] ELSE q[i + 1]
      BY <2>2
    <3>7. Count(n + 2) = c + 1 /\ c \in Nat
      BY <3>2
    <3> HIDE DEF a, c, Count
    <3>8. ASSUME NEW i \in 1..(c + 1)
          PROVE  b[i] = IF i < j THEN q[i] ELSE q[i + 1]
      <4>1. CASE i = c + 1
        BY <3>4, <3>5, <4>1
      <4>2. CASE i # c + 1
        <5>1. i \in 1..c
          BY <3>7, <4>2
        <5> QED BY <3>4, <3>6, <5>1
      <4> QED BY <4>1, <4>2
    <3> QED BY <3>4, <3>7, <3>8
  <2> QED BY <2>4, <2>5
<1> HIDE DEF H
<1>9. \A n \in Nat : n \in H
  BY <1>7, <1>8, NatSetInduction
<1>10. Good(Len(q))
  <2>1. Len(q) - 1 \in Nat /\ (Len(q) - 1) + 1 = Len(q)
    BY <1>1, <1>5
  <2> HIDE DEF Good
  <2>2. Len(q) - 1 \in H
    BY <1>9, <2>1
  <2> QED BY <1>1, <2>1, <2>2 DEF H
<1>11. Count(Len(q)) = Len(q) - 1 /\ Len(q) - 1 \in Nat
  <2>1. ~(Len(q) < j)
    BY <1>1, <1>5
  <2>2. Len(q) - 1 \in Nat
    BY <1>1, <1>5
  <2> QED BY <2>1, <2>2
<1> DEFINE k == f[Len(q)]
<1>12. /\ k \in Seq(T) /\ Len(k) = Len(q) - 1
       /\ \A i \in 1..(Len(q) - 1) : k[i] = IF i < j THEN q[i] ELSE q[i + 1]
  BY <1>10, <1>11
<1> HIDE DEF k
<1>13. k = [i \in 1..(Len(q) - 1) |-> k[i]]
  BY <1>11, <1>12, SeqDef
<1>14. k = Without(q, j)
  BY <1>12, <1>13 DEF Without
<1> QED BY <1>2, <1>6, <1>14 DEF k

\* A chain of distinct lists that share no member has the members of all of
\* them, each once.
THEOREM ChainFacts ==
    ASSUME NEW T, NEW Q, NEW l \in [Q -> Seq(T)], NEW qs \in Seq(Q)
    PROVE  /\ Chain(l, qs) \in Seq(T)
           /\ \A t : t \in Range(Chain(l, qs))
                      <=> \E q \in Range(qs) : t \in Range(l[q])
           /\ (/\ IsInjective(qs)
               /\ \A q \in Q : IsInjective(l[q])
               /\ \A q, r \in Q : q # r => Range(l[q]) \cap Range(l[r]) = {})
                => IsInjective(Chain(l, qs))
<1> DEFINE part == [i \in DOMAIN qs |-> l[qs[i]]]
<1>1. DOMAIN qs = 1..Len(qs) /\ Len(qs) \in Nat /\ \A i \in DOMAIN qs : qs[i] \in Q
  BY LenProperties, ElementOfSeq
<1>2. part \in Seq(Seq(T)) /\ DOMAIN part = DOMAIN qs
  BY <1>1, SeqDef
<1>3. \A i \in DOMAIN qs : part[i] = l[qs[i]]
  OBVIOUS
<1>4. Chain(l, qs) = FlattenSeq(part)
  BY DEF Chain
<1> HIDE DEF part
<1>5. \A t : t \in Range(Chain(l, qs)) <=> \E q \in Range(qs) : t \in Range(l[q])
  <2>1. Range(Chain(l, qs)) = UNION {Range(part[i]) : i \in DOMAIN qs}
    BY <1>2, <1>4, FlattenFacts
  <2>2. Range(qs) = {qs[i] : i \in DOMAIN qs}
    BY DEF Range
  <2> HIDE DEF Range
  <2> QED BY <1>3, <2>1, <2>2
<1>6. ASSUME IsInjective(qs), \A q \in Q : IsInjective(l[q]),
             \A q, r \in Q : q # r => Range(l[q]) \cap Range(l[r]) = {}
      PROVE  IsInjective(Chain(l, qs))
  <2>1. \A i, j \in DOMAIN qs : i # j => qs[i] # qs[j]
    BY <1>6 DEF IsInjective
  <2>2. \A i, j \in DOMAIN qs : i # j => Range(part[i]) \cap Range(part[j]) = {}
    BY <1>1, <1>3, <1>6, <2>1
  <2>3. \A i \in DOMAIN qs : IsInjective(part[i])
    BY <1>1, <1>3, <1>6
  <2> QED BY <1>2, <1>4, <2>2, <2>3, FlattenFacts
<1>7. Chain(l, qs) \in Seq(T)
  BY <1>2, <1>4, FlattenFacts
<1> QED BY <1>5, <1>6, <1>7
-----------------------------------------------------------------------------
(* The order of a list.                                                     *)

\* u stands before t on q.
Before(q, u, t) == \E i, j \in DOMAIN q : i < j /\ q[i] = u /\ q[j] = t

\* Joining p at the tail of q, or taking the head of q, puts nobody before
\* an entry of q who was not there.
THEOREM BeforeFacts ==
    ASSUME NEW T, NEW q \in Seq(T), NEW t \in Range(q), NEW u
    PROVE  /\ \A p \in Seq(T) : IsInjective(q \o p) /\ Before(q \o p, u, t) => Before(q, u, t)
           /\ \A x \in T : IsInjective(Append(q, x)) /\ Before(Append(q, x), u, t)
                             => Before(q, u, t)
           /\ Before(Tail(q), u, t) => Before(q, u, t)
<1>1. DOMAIN q = 1..Len(q) /\ Len(q) \in Nat /\ q # << >>
  BY LenProperties, RangeOfEmpty
<1>2. PICK k \in DOMAIN q : q[k] = t
  BY DEF Range
<1>3. ASSUME NEW r \in Seq(T), IsInjective(r), Before(r, u, t),
             Len(q) <= Len(r), \A i \in 1..Len(q) : r[i] = q[i]
      PROVE  Before(q, u, t)
  <2>1. PICK i, j \in DOMAIN r : i < j /\ r[i] = u /\ r[j] = t
    BY <1>3 DEF Before
  <2>2. DOMAIN r = 1..Len(r) /\ Len(r) \in Nat
    BY LenProperties
  <2>3. k \in DOMAIN r /\ r[k] = t
    BY <1>1, <1>2, <1>3, <2>2
  <2>4. j = k
    BY <1>3, <2>1, <2>3 DEF IsInjective
  <2>5. i \in DOMAIN q /\ j \in DOMAIN q
    BY <1>1, <2>1, <2>2, <2>4
  <2> QED BY <1>1, <1>3, <2>1, <2>5 DEF Before
<1>4. ASSUME NEW p \in Seq(T), IsInjective(q \o p), Before(q \o p, u, t)
      PROVE  Before(q, u, t)
  <2>1. /\ q \o p \in Seq(T) /\ Len(q \o p) = Len(q) + Len(p) /\ Len(p) \in Nat
        /\ \A i \in 1..(Len(q) + Len(p)) :
             (q \o p)[i] = IF i <= Len(q) THEN q[i] ELSE p[i - Len(q)]
    BY ConcatProperties, LenProperties
  <2> DEFINE r == q \o p
  <2>2. Len(q) <= Len(r) /\ \A i \in 1..Len(q) : r[i] = q[i]
    BY <1>1, <2>1
  <2>3. r \in Seq(T) /\ IsInjective(r) /\ Before(r, u, t)
    BY <1>4, <2>1
  <2> HIDE DEF r
  <2> QED BY <1>3, <2>2, <2>3
<1>5. ASSUME NEW x \in T, IsInjective(Append(q, x)), Before(Append(q, x), u, t)
      PROVE  Before(q, u, t)
  <2>1. /\ Append(q, x) \in Seq(T) /\ Len(Append(q, x)) = Len(q) + 1
        /\ \A i \in 1..Len(q) : Append(q, x)[i] = q[i]
    BY AppendProperties
  <2> DEFINE r == Append(q, x)
  <2>2. Len(q) <= Len(r) /\ \A i \in 1..Len(q) : r[i] = q[i]
    BY <1>1, <2>1
  <2>3. r \in Seq(T) /\ IsInjective(r) /\ Before(r, u, t)
    BY <1>5, <2>1
  <2> HIDE DEF r
  <2> QED BY <1>3, <2>2, <2>3
<1>6. ASSUME Before(Tail(q), u, t)
      PROVE  Before(q, u, t)
  <2>1. /\ Tail(q) \in Seq(T) /\ Len(Tail(q)) = Len(q) - 1
        /\ \A i \in 1..(Len(q) - 1) : Tail(q)[i] = q[i + 1]
    BY <1>1, HeadTailProperties
  <2>2. DOMAIN Tail(q) = 1..(Len(q) - 1)
    BY <2>1, LenProperties
  <2>3. PICK i, j \in DOMAIN Tail(q) : i < j /\ Tail(q)[i] = u /\ Tail(q)[j] = t
    BY <1>6 DEF Before
  <2>4. i + 1 \in DOMAIN q /\ j + 1 \in DOMAIN q /\ i + 1 < j + 1
        /\ q[i + 1] = u /\ q[j + 1] = t
    BY <1>1, <2>1, <2>2, <2>3
  <2> QED BY <2>4 DEF Before
<1> QED BY <1>4, <1>5, <1>6
=============================================================================
