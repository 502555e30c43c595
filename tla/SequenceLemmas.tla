---------------------------- MODULE SequenceLemmas ----------------------------
(***************************************************************************)
(* Induction over sets of numbers and of sequences, and what FlattenSeq     *)
(* returns.                                                                 *)
(***************************************************************************)
EXTENDS Integers, FiniteSets, Sequences, SequencesExt, TLAPS, FiniteSetTheorems,
        WellFoundedInduction, SequenceTheorems

\* A set of numbers that is not empty has a smallest one.
LEMMA LeastNat ==
    ASSUME NEW S \in SUBSET Nat, S # {}
    PROVE  \E n \in S : \A m \in S : n <= m
<1> DEFINE R == OpToRel(<, Nat)
<1>1. IsWellFoundedOn(R, Nat)
    BY NatLessThanWellFounded
<1>2. \A n, m \in S : ~ (<<m, n>> \in R) => n <= m
    BY DEF OpToRel
<1> HIDE DEF R
<1>3. \E n \in S : \A m \in S : ~ (<<m, n>> \in R)
    BY <1>1, WFMin
<1> QED
    BY <1>2, <1>3

\* Induction, for the set of the numbers something holds of.
LEMMA InductiveSet ==
    ASSUME NEW S, 0 \in S, \A n \in Nat : n \in S => n + 1 \in S
    PROVE  \A n \in Nat : n \in S
<1> SUFFICES ASSUME Nat \ S # {}
             PROVE  FALSE
    OBVIOUS
<1>1. PICK n \in Nat \ S : \A m \in Nat \ S : n <= m
    BY LeastNat
<1>2. n # 0 /\ n - 1 \in Nat /\ n - 1 \in S
    BY <1>1
<1> QED
    BY <1>1, <1>2

\* Induction, for the set of the sequences something holds of.
LEMMA InductiveSeqs ==
    ASSUME NEW C, NEW S, <<>> \in S,
           \A s \in Seq(C), c \in C : s \in S => Append(s, c) \in S
    PROVE  \A s \in Seq(C) : s \in S
<1> DEFINE Done == {n \in Nat : \A s \in Seq(C) : Len(s) = n => s \in S}
<1>1. 0 \in Done
    <2>1. \A s \in Seq(C) : Len(s) = 0 => s = <<>>
        OBVIOUS
    <2> QED
        BY <2>1
<1>2. ASSUME NEW n \in Nat, n \in Done
      PROVE  n + 1 \in Done
    <2> SUFFICES ASSUME NEW s \in Seq(C), Len(s) = n + 1
                 PROVE  s \in S
        OBVIOUS
    <2> DEFINE p == SubSeq(s, 1, n)
    <2>1. p \in Seq(C) /\ Len(p) = n /\ s[n + 1] \in C /\ s = Append(p, s[n + 1])
        OBVIOUS
    <2> HIDE DEF p
    <2>2. p \in S
        BY <1>2, <2>1
    <2> QED
        BY <2>1, <2>2
<1> HIDE DEF Done
<1>3. \A n \in Nat : n \in Done
    BY <1>1, <1>2, InductiveSet
<1> QED
    <2> SUFFICES ASSUME NEW s \in Seq(C) PROVE s \in S
        OBVIOUS
    <2>1. Len(s) \in Nat
        OBVIOUS
    <2> QED
        BY <1>3, <2>1 DEF Done

\* A bounded set of numbers that is not empty has a greatest one.
LEMMA GreatestNat ==
    ASSUME NEW S \in SUBSET Nat, S # {}, NEW b \in Nat, \A n \in S : n <= b
    PROVE  \E n \in S : \A m \in S : m <= n
<1> DEFINE Above == {u \in Nat : \A n \in S : n <= u}
<1>1. PICK u \in Above : \A v \in Above : u <= v
    BY LeastNat
<1>2. u \in S
    <2>1. CASE u = 0
        <3>1. PICK n \in S : TRUE
            OBVIOUS
        <3>2. n \in Nat /\ n <= 0
            BY <1>1, <2>1, <3>1
        <3> QED
            BY <2>1, <3>1, <3>2
    <2>2. CASE u # 0 /\ u \notin S
        <3>1. u - 1 \in Above
            BY <1>1, <2>2
        <3> QED
            BY <1>1, <3>1
    <2> QED
        BY <2>1, <2>2
<1> QED
    BY <1>1, <1>2

\* A finite set of integers that is not empty has a first and a last one.
LEMMA FiniteEnds ==
    ASSUME NEW S \in SUBSET Int, IsFiniteSet(S), S # {}
    PROVE  /\ \E n \in S : \A m \in S : n <= m
           /\ \E n \in S : \A m \in S : n >= m
<1> DEFINE Ends(T) == /\ \E n \in T : \A m \in T : n <= m
                      /\ \E n \in T : \A m \in T : n >= m
           Sized(k) == {T \in SUBSET Int : IsFiniteSet(T) /\ Cardinality(T) = k}
           Done == {k \in Nat : \A T \in Sized(k) : T # {} => Ends(T)}
<1>1. 0 \in Done
    BY FS_EmptySet
<1>2. ASSUME NEW k \in Nat, k \in Done
      PROVE  k + 1 \in Done
    <2> SUFFICES ASSUME NEW T \in Sized(k + 1), T # {}
                 PROVE  Ends(T)
        OBVIOUS
    <2>1. PICK x \in T : TRUE
        OBVIOUS
    <2> DEFINE U == T \ {x}
    <2>2. U \in Sized(k)
        <3>1. IsFiniteSet(T) /\ Cardinality(T) = k + 1
            OBVIOUS
        <3>2. IsFiniteSet(U) /\ Cardinality(U) = Cardinality(T) - 1
            BY <2>1, <3>1, FS_RemoveElement
        <3> QED
            BY <3>1, <3>2
    <2>3. CASE U = {}
        BY <2>1, <2>3
    <2>4. CASE U # {}
        <3>1. Ends(U)
            BY <1>2, <2>2, <2>4
        <3>2. PICK a \in U : \A m \in U : a <= m
            BY <3>1
        <3>3. PICK b \in U : \A m \in U : b >= m
            BY <3>1
        <3>4. \E n \in T : \A m \in T : n <= m
            BY <2>1, <3>2
        <3>5. \E n \in T : \A m \in T : n >= m
            BY <2>1, <3>3
        <3> QED
            BY <3>4, <3>5
    <2> QED
        BY <2>3, <2>4
<1> HIDE DEF Done
<1>3. \A k \in Nat : k \in Done
    BY <1>1, <1>2, InductiveSet
<1> USE DEF Done
<1>4. Cardinality(S) \in Nat /\ S \in Sized(Cardinality(S))
    BY FS_CardinalityType
<1> QED
    BY <1>3, <1>4

-----------------------------------------------------------------------------
(* FlattenSeq *)

\* f holds what the first i sequences make, one after the other, up to n.
Flattens(f, ss, n) ==
    \A i \in 1..n : f[i] = IF i = 1 THEN ss[i] ELSE f[i - 1] \o ss[i]

\* There is such an f,
LEMMA FlattensExists ==
    ASSUME NEW D, NEW ss \in Seq(Seq(D))
    PROVE  \E f \in [1..Len(ss) -> Seq(D)] : Flattens(f, ss, Len(ss))
<1> DEFINE N == Len(ss)
           Done == {n \in Nat : n <= N =>
                      \E f \in [1..n -> Seq(D)] : Flattens(f, ss, n)}
<1>1. N \in Nat /\ \A i \in 1..N : ss[i] \in Seq(D)
    OBVIOUS
<1>2. 0 \in Done
    <2>1. [i \in 1..0 |-> ss[i]] \in [1..0 -> Seq(D)]
        OBVIOUS
    <2>2. Flattens([i \in 1..0 |-> ss[i]], ss, 0)
        BY DEF Flattens
    <2> QED
        BY <2>1, <2>2
<1>3. ASSUME NEW n \in Nat, n \in Done
      PROVE  n + 1 \in Done
    <2> SUFFICES ASSUME n + 1 <= N
                 PROVE  \E f \in [1..n+1 -> Seq(D)] : Flattens(f, ss, n + 1)
        OBVIOUS
    <2>1. PICK f \in [1..n -> Seq(D)] : Flattens(f, ss, n)
        BY <1>1, <1>3
    <2> DEFINE last == IF n = 0 THEN ss[1] ELSE f[n] \o ss[n + 1]
               g == [i \in 1..n+1 |-> IF i = n + 1 THEN last ELSE f[i]]
    <2>2. ss[n + 1] \in Seq(D) /\ (n # 0 => f[n] \in Seq(D))
        BY <1>1, <2>1
    <2>3. last \in Seq(D)
        BY <2>2
    <2>4. g \in [1..n+1 -> Seq(D)]
        BY <2>1, <2>3
    <2>5. Flattens(g, ss, n + 1)
        <3> SUFFICES ASSUME NEW i \in 1..n+1
                     PROVE  g[i] = IF i = 1 THEN ss[i] ELSE g[i - 1] \o ss[i]
            BY DEF Flattens
        <3>1. CASE i = n + 1
            BY <3>1
        <3>2. CASE i # n + 1
            <4>1. i \in 1..n /\ g[i] = f[i] /\ (i # 1 => g[i - 1] = f[i - 1])
                BY <3>2
            <4>2. f[i] = IF i = 1 THEN ss[i] ELSE f[i - 1] \o ss[i]
                BY <2>1, <4>1 DEF Flattens
            <4> QED
                BY <4>1, <4>2
        <3> QED
            BY <3>1, <3>2
    <2> QED
        BY <2>4, <2>5
<1> HIDE DEF Done
<1>4. \A n \in Nat : n \in Done
    BY <1>2, <1>3, InductiveSet
<1> QED
    BY <1>1, <1>4 DEF Done

\* and one only.
LEMMA FlattensUnique ==
    ASSUME NEW ss, NEW tt, NEW f, NEW g, NEW n \in Nat,
           \A i \in 1..n : ss[i] = tt[i],
           Flattens(f, ss, n), Flattens(g, tt, n)
    PROVE  \A i \in 1..n : f[i] = g[i]
<1> DEFINE Same == {i \in Nat : i \in 1..n => f[i] = g[i]}
<1>1. 0 \in Same
    OBVIOUS
<1>2. ASSUME NEW i \in Nat, i \in Same
      PROVE  i + 1 \in Same
    <2> SUFFICES ASSUME i + 1 \in 1..n
                 PROVE  f[i + 1] = g[i + 1]
        OBVIOUS
    <2>1. CASE i = 0
        BY <2>1 DEF Flattens
    <2>2. CASE i # 0
        <3>1. f[i] = g[i] /\ ss[i + 1] = tt[i + 1] /\ (i + 1) - 1 = i
            BY <1>2, <2>2
        <3> DEFINE j == i + 1
        <3>2. j \in 1..n /\ j # 1 /\ j - 1 = i
            BY <2>2
        <3> HIDE DEF j
        <3>3. f[j] = f[j - 1] \o ss[j] /\ g[j] = g[j - 1] \o tt[j]
            BY <3>2 DEF Flattens
        <3> QED
            BY <3>1, <3>2, <3>3 DEF j
    <2> QED
        BY <2>1, <2>2
<1> HIDE DEF Same
<1>3. \A i \in Nat : i \in Same
    BY <1>1, <1>2, InductiveSet
<1> QED
    BY <1>3 DEF Same

\* FlattenSeq takes its last element.
LEMMA FlattenIs ==
    ASSUME NEW D, NEW ss \in Seq(Seq(D)), ss # <<>>
    PROVE  \E f \in [1..Len(ss) -> Seq(D)] :
             Flattens(f, ss, Len(ss)) /\ FlattenSeq(ss) = f[Len(ss)]
<1> DEFINE N == Len(ss)
           Eq(f) == f = [i \in 1..N |-> IF i = 1 THEN ss[i] ELSE f[i - 1] \o ss[i]]
<1>1. PICK f \in [1..N -> Seq(D)] : Flattens(f, ss, N)
    BY FlattensExists
<1>2. Eq(f)
    BY <1>1 DEF Flattens
<1>3. N \in Nat /\ N # 0
    OBVIOUS
<1> DEFINE g == CHOOSE h : Eq(h)
<1>4. FlattenSeq(ss) = g[N]
    BY <1>3 DEF FlattenSeq
<1>5. Eq(g)
    BY <1>2
<1>6. Flattens(g, ss, N)
    <2> HIDE DEF g
    <2> QED
        BY <1>5 DEF Flattens
<1> HIDE DEF g
<1>7. g[N] = f[N]
    BY <1>1, <1>3, <1>6, FlattensUnique
<1> QED
    BY <1>1, <1>4, <1>7

\* It is a sequence of the elements of what is flattened.
LEMMA FlattenType ==
    ASSUME NEW D, NEW ss \in Seq(Seq(D))
    PROVE  /\ FlattenSeq(<<>>) = <<>>
           /\ FlattenSeq(ss) \in Seq(D)
<1>1. FlattenSeq(<<>>) = <<>>
    BY DEF FlattenSeq
<1>2. ASSUME ss # <<>>
      PROVE  FlattenSeq(ss) \in Seq(D)
    <2>1. PICK f \in [1..Len(ss) -> Seq(D)] : FlattenSeq(ss) = f[Len(ss)]
        BY <1>2, FlattenIs
    <2>2. Len(ss) \in 1..Len(ss)
        BY <1>2
    <2> QED
        BY <2>1, <2>2
<1> QED
    BY <1>1, <1>2

\* One more sequence goes to the end.
LEMMA FlattenAppend ==
    ASSUME NEW D, NEW ss \in Seq(Seq(D)), NEW x \in Seq(D)
    PROVE  FlattenSeq(Append(ss, x)) = FlattenSeq(ss) \o x
<1> DEFINE tt == Append(ss, x)
           n == Len(ss)
<1>1. /\ tt \in Seq(Seq(D)) /\ tt # <<>> /\ Len(tt) = n + 1 /\ n \in Nat
      /\ tt[n + 1] = x
      /\ \A i \in 1..n : ss[i] = tt[i]
    <2> DEFINE E == Seq(D)
    <2> HIDE DEF E
    <2>1. ss \in Seq(E) /\ x \in E
        BY DEF E
    <2>2. /\ tt \in Seq(E) /\ tt # <<>> /\ Len(tt) = n + 1 /\ n \in Nat
          /\ tt[n + 1] = x
          /\ \A i \in 1..n : ss[i] = tt[i]
        BY <2>1
    <2> QED
        BY <2>2 DEF E
<1> HIDE DEF tt
<1>2. PICK g \in [1..Len(tt) -> Seq(D)] :
          Flattens(g, tt, Len(tt)) /\ FlattenSeq(tt) = g[Len(tt)]
    BY <1>1, FlattenIs
<1>3. CASE ss = <<>>
    <2>1. Len(tt) = 1 /\ tt[1] = x
        BY <1>1, <1>3
    <2>2. FlattenSeq(tt) = x
        BY <1>2, <2>1 DEF Flattens
    <2>3. FlattenSeq(ss) = <<>> /\ <<>> \o x = x
        BY <1>3, FlattenType, ConcatEmptySeq
    <2> QED
        BY <2>2, <2>3 DEF tt
<1>4. CASE ss # <<>>
    <2>1. PICK f \in [1..n -> Seq(D)] : Flattens(f, ss, n) /\ FlattenSeq(ss) = f[n]
        BY <1>4, FlattenIs
    <2>2. n \in 1..n /\ n + 1 \in 1..n+1 /\ n + 1 # 1 /\ (n + 1) - 1 = n
        BY <1>4
    <2>3. Flattens(g, tt, n)
        <3>1. \A i \in 1..n : i \in 1..Len(tt)
            BY <1>1
        <3> QED
            BY <1>2, <3>1 DEF Flattens
    <2>4. g[n] = f[n]
        <3>1. n \in Nat /\ \A i \in 1..n : ss[i] = tt[i]
            BY <1>1
        <3>2. \A i \in 1..n : f[i] = g[i]
            BY <2>1, <2>3, <3>1, FlattensUnique
        <3> QED
            BY <2>2, <3>2
    <2> DEFINE j == n + 1
    <2>5. j \in 1..Len(tt) /\ j # 1 /\ j - 1 = n /\ tt[j] = x /\ j = Len(tt)
        BY <1>1, <2>2
    <2> HIDE DEF j
    <2>6. g[j] = g[j - 1] \o tt[j]
        BY <1>2, <2>5 DEF Flattens
    <2> QED
        BY <1>2, <2>1, <2>4, <2>5, <2>6 DEF tt
<1> QED
    BY <1>3, <1>4

-----------------------------------------------------------------------------
(* A sequence in which every element stands for some others *)

\* What the elements of s stand for, one after the other.
Flat(s, g) == FlattenSeq([i \in DOMAIN s |-> g[s[i]]])

\* What each element stands for is a sequence, and so is all of it.
LEMMA EachStands ==
    ASSUME NEW C, NEW D, NEW s \in Seq(C), NEW g \in [C -> Seq(D)]
    PROVE  [i \in DOMAIN s |-> g[s[i]]] \in Seq(Seq(D))
<1> DEFINE E == Seq(D)
<1>1. g \in [C -> E]
    OBVIOUS
<1> HIDE DEF E
<1>2. [i \in DOMAIN s |-> g[s[i]]] \in Seq(E)
    <2>1. Len(s) \in Nat /\ DOMAIN s = 1..Len(s)
        OBVIOUS
    <2>2. \A i \in 1..Len(s) : g[s[i]] \in E
        BY <1>1
    <2> QED
        BY <2>1, <2>2, SeqDef
<1> QED
    BY <1>2 DEF E

LEMMA FlatType ==
    ASSUME NEW C, NEW D, NEW s \in Seq(C), NEW g \in [C -> Seq(D)]
    PROVE  /\ Flat(<<>>, g) = <<>>
           /\ Flat(s, g) \in Seq(D)
<1>1. [i \in DOMAIN s |-> g[s[i]]] \in Seq(Seq(D))
    BY EachStands
<1>2. [i \in DOMAIN <<>> |-> g[<<>>[i]]] = <<>>
    OBVIOUS
<1> QED
    BY <1>1, <1>2, FlattenType DEF Flat

\* One more element stands for what comes at the end.
LEMMA FlatAppend ==
    ASSUME NEW C, NEW D, NEW s \in Seq(C), NEW c \in C, NEW g \in [C -> Seq(D)]
    PROVE  Flat(Append(s, c), g) = Flat(s, g) \o g[c]
<1> DEFINE ss == [i \in DOMAIN s |-> g[s[i]]]
           t == Append(s, c)
<1>1. ss \in Seq(Seq(D)) /\ g[c] \in Seq(D)
    BY EachStands
<1>2. [i \in DOMAIN t |-> g[t[i]]] = Append(ss, g[c])
    OBVIOUS
<1> HIDE DEF ss
<1>3. FlattenSeq(Append(ss, g[c])) = FlattenSeq(ss) \o g[c]
    BY <1>1, FlattenAppend
<1> QED
    BY <1>2, <1>3 DEF Flat, ss

\* Of one text after another it is the one's after the other's.
LEMMA FlatConcat ==
    ASSUME NEW C, NEW D, NEW s \in Seq(C), NEW g \in [C -> Seq(D)]
    PROVE  \A t \in Seq(C) : Flat(s \o t, g) = Flat(s, g) \o Flat(t, g)
<1>0. \A v \in Seq(C), c \in C :
         Flat(s \o v, g) = Flat(s, g) \o Flat(v, g)
           => Flat(s \o Append(v, c), g) = Flat(s, g) \o Flat(Append(v, c), g)
    <2> SUFFICES ASSUME NEW v \in Seq(C), NEW c \in C,
                        Flat(s \o v, g) = Flat(s, g) \o Flat(v, g)
                 PROVE  Flat(s \o Append(v, c), g) = Flat(s, g) \o Flat(Append(v, c), g)
        OBVIOUS
    <2> DEFINE w == s \o v
               p == Flat(s, g)
               q == Flat(v, g)
               r == g[c]
    <2>1. w \in Seq(C) /\ s \o Append(v, c) = Append(w, c)
        OBVIOUS
    <2>2. p \in Seq(D) /\ q \in Seq(D) /\ r \in Seq(D)
        BY FlatType
    <2>3. Flat(w, g) = p \o q
        OBVIOUS
    <2>4. Flat(Append(v, c), g) = q \o r
        BY FlatAppend
    <2> HIDE DEF w, p, q
    <2>5. Flat(Append(w, c), g) = Flat(w, g) \o r
        BY <2>1, FlatAppend
    <2> HIDE DEF r
    <2>6. (p \o q) \o r = p \o (q \o r)
        BY <2>2, ConcatAssociative
    <2> QED
        BY <2>1, <2>3, <2>4, <2>5, <2>6 DEF p
<1> DEFINE Done == {u \in Seq(C) : Flat(s \o u, g) = Flat(s, g) \o Flat(u, g)}
<1>1. <<>> \in Done
    <2>1. <<>> \in Seq(C) /\ s \o <<>> = s
        OBVIOUS
    <2>2. Flat(s, g) \in Seq(D) /\ Flat(<<>>, g) = <<>>
        BY FlatType
    <2> QED
        BY <2>1, <2>2
<1>2. \A v \in Seq(C), c \in C : v \in Done => Append(v, c) \in Done
    <2>1. \A v \in Seq(C), c \in C : Append(v, c) \in Seq(C)
        OBVIOUS
    <2> QED
        BY <1>0, <2>1
<1> HIDE DEF Done
<1>3. \A u \in Seq(C) : u \in Done
    BY <1>1, <1>2, InductiveSeqs
<1> QED
    BY <1>3 DEF Done

-----------------------------------------------------------------------------
(* Cuts, and sequences written out *)

\* A sequence cut at n is the two parts, or three with the element after.
LEMMA CutInTwo ==
    ASSUME NEW C, NEW s \in Seq(C), NEW n \in 0..Len(s)
    PROVE  /\ SubSeq(s, 1, n) \in Seq(C) /\ SubSeq(s, n + 1, Len(s)) \in Seq(C)
           /\ Len(SubSeq(s, 1, n)) = n
           /\ s = SubSeq(s, 1, n) \o SubSeq(s, n + 1, Len(s))
<1> DEFINE x == SubSeq(s, 1, n)
           y == SubSeq(s, n + 1, Len(s))
<1>1. /\ x \in Seq(C) /\ Len(x) = n /\ \A i \in 1..n : x[i] = s[i]
    OBVIOUS
<1>2. /\ y \in Seq(C) /\ Len(y) = Len(s) - n
      /\ \A i \in 1..(Len(s) - n) : y[i] = s[n + i]
    OBVIOUS
<1> HIDE DEF x, y
<1>3. x \o y \in Seq(C) /\ Len(x \o y) = Len(s)
    BY <1>1, <1>2
<1>4. ASSUME NEW i \in 1..Len(s)
      PROVE  s[i] = (x \o y)[i]
    <2>1. CASE i <= n
        BY <1>1, <1>2, <2>1
    <2>2. CASE ~(i <= n)
        <3> DEFINE j == i - n
        <3>1. j \in 1..(Len(s) - n) /\ n + j = i
            BY <2>2
        <3>2. (x \o y)[i] = y[j]
            BY <1>1, <1>2, <2>2
        <3> HIDE DEF j
        <3> QED
            BY <1>2, <3>1, <3>2
    <2> QED
        BY <2>1, <2>2
<1>5. s = x \o y
    BY <1>3, <1>4, SeqEqual
<1> QED
    BY <1>1, <1>2, <1>5 DEF x, y

\* A prefix and the one that is longer by an element.
LEMMA OneMore ==
    ASSUME NEW C, NEW s \in Seq(C), NEW n \in 0..(Len(s) - 1)
    PROVE  /\ s[n + 1] \in C
           /\ SubSeq(s, 1, n + 1) = SubSeq(s, 1, n) \o <<s[n + 1]>>
OBVIOUS

\* A cut within the second of three.
LEMMA CutWithin ==
    ASSUME NEW D, NEW x \in Seq(D), NEW y \in Seq(D), NEW z \in Seq(D), NEW max \in Nat,
           Len(x) <= max, max < Len(x) + Len(y)
    PROVE  SubSeq((x \o y) \o z, 1, max) = x \o SubSeq(y, 1, max - Len(x))
<1> DEFINE u == SubSeq((x \o y) \o z, 1, max)
           v == x \o SubSeq(y, 1, max - Len(x))
<1>1. Len(x) \in Nat /\ Len(y) \in Nat /\ Len(z) \in Nat
    OBVIOUS
<1>2. u \in Seq(D) /\ Len(u) = max
    OBVIOUS
<1>3. v \in Seq(D) /\ Len(v) = max
    OBVIOUS
<1>4. ASSUME NEW i \in 1..max
      PROVE  u[i] = v[i]
    OBVIOUS
<1> HIDE DEF u, v
<1>5. u = v
    BY <1>2, <1>3, <1>4, SeqEqual
<1> QED
    BY <1>5 DEF u, v

\* Two elements that follow each other.
LEMMA PairAt ==
    ASSUME NEW C, NEW s \in Seq(C), NEW j \in 1..(Len(s) - 1)
    PROVE  SubSeq(s, j, j + 1) = <<s[j], s[j + 1]>>
<1> DEFINE u == SubSeq(s, j, j + 1)
<1>1. Len(s) \in Nat /\ j \in 1..Len(s) /\ j + 1 \in 1..Len(s)
    OBVIOUS
<1>2. u \in Seq(C) /\ Len(u) = 2
    BY <1>1
<1>3. u[1] = s[j] /\ u[2] = s[j + 1]
    BY <1>1
<1> HIDE DEF u
<1>4. u = <<u[1], u[2]>>
    BY <1>2
<1> QED
    BY <1>3, <1>4 DEF u

\* Sequences written out.
LEMMA ShortSeqs ==
    /\ \A a, b : Append(<<a>>, b) = <<a, b>>
    /\ \A a, b, c, d, e :
         /\ Len(<<a, b, c, d, e>>) = 5
         /\ <<a, b, c, d, e>>[4] = d /\ <<a, b, c, d, e>>[5] = e
<1>1. \A a, b : Append(<<a>>, b) = <<a, b>>
    <2> SUFFICES ASSUME NEW a, NEW b PROVE Append(<<a>>, b) = <<a, b>>
        OBVIOUS
    <2>1. <<a>> \in Seq({a, b}) /\ <<a, b>> \in Seq({a, b})
        OBVIOUS
    <2>2. Append(<<a>>, b) \in Seq({a, b}) /\ Len(Append(<<a>>, b)) = 2
        BY <2>1
    <2>3. Append(<<a>>, b)[1] = a /\ Append(<<a>>, b)[2] = b
        BY <2>1
    <2> DEFINE u == Append(<<a>>, b)
    <2> HIDE DEF u
    <2>5. u \in Seq({a, b}) /\ Len(u) = 2
        BY <2>2 DEF u
    <2>4. u = <<u[1], u[2]>>
        BY <2>5
    <2> QED
        BY <2>3, <2>4 DEF u
<1>2. \A a, b, c, d, e : Len(<<a, b, c, d, e>>) = 5
    OBVIOUS
<1>3. \A a, b, c, d, e : <<a, b, c, d, e>>[4] = d
    OBVIOUS
<1>4. \A a, b, c, d, e : <<a, b, c, d, e>>[5] = e
    OBVIOUS
<1> QED
    BY <1>1, <1>2, <1>3, <1>4
===============================================================================
