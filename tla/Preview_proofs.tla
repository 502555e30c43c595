---------------------------- MODULE Preview_proofs ----------------------------
(***************************************************************************)
(* Proofs about Preview, for every case and every size of the memo field:   *)
(* the amounts and how they are rounded, what becomes of the memo, and the  *)
(* rate of a day.                                                           *)
(***************************************************************************)
EXTENDS Preview, SequenceLemmas

\* Division leaves a remainder less than the divisor.
LEMMA Divides ==
    ASSUME NEW n \in Nat, NEW d \in Nat \ {0}
    PROVE  /\ n \div d \in Nat
           /\ d * (n \div d) <= n
           /\ n < d * (n \div d) + d
OBVIOUS

\* The quotient of 2n + d and 2d is n / d, rounded half up.
LEMMA HalfUp ==
    ASSUME NEW n \in Nat, NEW d \in Nat \ {0}
    PROVE  LET q == (2 * n + d) \div (2 * d) IN
           /\ q \in Nat /\ q * d \in Nat
           /\ 2 * (q * d) - d <= 2 * n
           /\ 2 * n < 2 * (q * d) + d
           /\ 2 * n - 2 * (q * d) = -d => q * d > n
<1> DEFINE q == (2 * n + d) \div (2 * d)
<1>1. 2 * n + d \in Nat /\ 2 * d \in Nat \ {0}
    OBVIOUS
<1>2. /\ q \in Nat
      /\ (2 * d) * q <= 2 * n + d
      /\ 2 * n + d < (2 * d) * q + 2 * d
    BY <1>1, Divides
<1> HIDE DEF q
<1>3. (2 * d) * q = 2 * (q * d) /\ q * d \in Nat
    BY <1>2
<1>4. /\ 2 * (q * d) - d <= 2 * n
      /\ 2 * n < 2 * (q * d) + d
      /\ 2 * n - 2 * (q * d) = -d => q * d > n
    <2> DEFINE m == q * d
    <2>1. m \in Nat /\ 2 * m <= 2 * n + d /\ 2 * n + d < 2 * m + 2 * d
        BY <1>2, <1>3
    <2> HIDE DEF m
    <2>2. 2 * m - d <= 2 * n /\ 2 * n < 2 * m + d /\ (2 * n - 2 * m = -d => m > n)
        BY <2>1
    <2> QED
        BY <2>2 DEF m
<1> QED
    BY <1>2, <1>3, <1>4 DEF q

\* What is rounded is a nearest whole number, the one away from zero of two.
LEMMA RoundNearest ==
    ASSUME NEW n \in Int, NEW d \in Nat \ {0}
    PROVE  RoundHalfUp(n, d) \in Int /\ IsNearest(RoundHalfUp(n, d), n, d)
<1>1. CASE n < 0
    <2> DEFINE p == (2 * (-n) + d) \div (2 * d)
               m == p * d
    <2>1. -n \in Nat
        BY <1>1
    <2>2. /\ p \in Nat /\ m \in Nat
          /\ 2 * m - d <= 2 * (-n)
          /\ 2 * (-n) < 2 * m + d
          /\ 2 * (-n) - 2 * m = -d => m > -n
        BY <2>1, HalfUp
    <2>3. RoundHalfUp(n, d) = -p
        BY <1>1 DEF RoundHalfUp
    <2> HIDE DEF p
    <2>4. (-p) * d = -m
        BY <2>2
    <2> HIDE DEF m
    <2>5. /\ 2 * Abs(n - (-m)) <= d
          /\ 2 * Abs(n - (-m)) = d => Abs(-m) > Abs(n)
        BY <1>1, <2>2 DEF Abs
    <2> QED
        BY <2>2, <2>3, <2>4, <2>5 DEF IsNearest
<1>2. CASE n >= 0
    <2> DEFINE p == (2 * n + d) \div (2 * d)
               m == p * d
    <2>1. n \in Nat
        BY <1>2
    <2>2. /\ p \in Nat /\ m \in Nat
          /\ 2 * m - d <= 2 * n
          /\ 2 * n < 2 * m + d
          /\ 2 * n - 2 * m = -d => m > n
        BY <2>1, HalfUp
    <2>3. RoundHalfUp(n, d) = p
        BY <1>2 DEF RoundHalfUp
    <2> HIDE DEF p, m
    <2>4. /\ 2 * Abs(n - m) <= d
          /\ 2 * Abs(n - m) = d => Abs(m) > Abs(n)
        BY <1>2, <2>2 DEF Abs
    <2> QED
        BY <2>2, <2>3, <2>4 DEF IsNearest, m
<1> QED
    BY <1>1, <1>2

\* So many minor units are a whole number of them.
LEMMA InUnits ==
    ASSUME NEW q \in Int, NEW unit \in {10, 1000}
    PROVE  /\ q * unit \in Int /\ (q * unit) % unit = 0
           /\ (q * unit) \div unit = q
<1>1. CASE unit = 10
    BY <1>1
<1>2. CASE unit = 1000
    BY <1>2
<1> QED
    BY <1>1, <1>2

-----------------------------------------------------------------------------
(* The bytes of a text *)

Byte == SentChars \X (1..3)
BytesOf == [c \in SentChars |-> [b \in 1..Bytes(c) |-> <<c, b>>]]
CharOf == [b \in Byte |-> IF b[2] = Bytes(b[1]) THEN <<b[1]>> ELSE <<>>]

\* A character has one to three bytes, in their order.
LEMMA BytesOfChar ==
    ASSUME NEW c \in SentChars
    PROVE  /\ Bytes(c) \in 1..3
           /\ BytesOf[c] = [b \in 1..Bytes(c) |-> <<c, b>>]
           /\ BytesOf[c] \in Seq(Byte) /\ Len(BytesOf[c]) = Bytes(c)
           /\ \A b \in 1..Bytes(c) : BytesOf[c][b] = <<c, b>>
<1>1. Bytes(c) \in 1..3
    <2>1. CASE c = "w"
        BY <2>1 DEF Bytes
    <2>2. CASE c = "~"
        BY <2>2 DEF Bytes
    <2>3. CASE c # "w" /\ c # "~"
        BY <2>3 DEF Bytes
    <2> QED
        BY <2>1, <2>2, <2>3
<1> DEFINE n == Bytes(c)
<1>2. BytesOf[c] = [b \in 1..n |-> <<c, b>>]
    BY DEF BytesOf
<1> HIDE DEF n
<1>3. n \in 1..3
    BY <1>1 DEF n
<1>4. \A b \in 1..n : <<c, b>> \in Byte
    BY <1>3 DEF Byte
<1> DEFINE s == [b \in 1..n |-> <<c, b>>]
<1>5. s \in Seq(Byte) /\ Len(s) = n /\ \A b \in 1..n : s[b] = <<c, b>>
    BY <1>3, <1>4
<1> QED
    BY <1>1, <1>2, <1>5 DEF n

\* Encoding and decoding read a text element by element.
LEMMA Readings ==
    /\ BytesOf \in [SentChars -> Seq(Byte)]
    /\ CharOf \in [Byte -> Seq(SentChars)]
    /\ \A t \in Seq(SentChars) : Encode(t) = Flat(t, BytesOf)
    /\ \A s \in Seq(Byte) : Decode(s) = Flat(s, CharOf)
<1>1. BytesOf \in [SentChars -> Seq(Byte)]
    <2>1. \A c \in SentChars : BytesOf[c] \in Seq(Byte)
        BY BytesOfChar
    <2> QED
        BY <2>1 DEF BytesOf
<1>2. CharOf \in [Byte -> Seq(SentChars)]
    <2>1. \A b \in Byte : b[1] \in SentChars
        BY DEF Byte
    <2>2. \A b \in Byte : (IF b[2] = Bytes(b[1]) THEN <<b[1]>> ELSE <<>>) \in Seq(SentChars)
        BY <2>1
    <2> QED
        BY <2>2 DEF CharOf
<1>3. ASSUME NEW t \in Seq(SentChars)
      PROVE  Encode(t) = Flat(t, BytesOf)
    <2>1. \A i \in DOMAIN t : t[i] \in SentChars
        OBVIOUS
    <2>2. \A i \in DOMAIN t : BytesOf[t[i]] = [b \in 1..Bytes(t[i]) |-> <<t[i], b>>]
        BY <2>1, BytesOfChar
    <2>3. [i \in DOMAIN t |-> BytesOf[t[i]]]
            = [i \in DOMAIN t |-> [b \in 1..Bytes(t[i]) |-> <<t[i], b>>]]
        BY <2>2
    <2> QED
        BY <2>3 DEF Encode, Flat
<1>4. ASSUME NEW s \in Seq(Byte)
      PROVE  Decode(s) = Flat(s, CharOf)
    <2>1. \A i \in DOMAIN s : s[i] \in Byte
        OBVIOUS
    <2>2. \A i \in DOMAIN s :
            CharOf[s[i]] = IF s[i][2] = Bytes(s[i][1]) THEN <<s[i][1]>> ELSE <<>>
        BY <2>1 DEF CharOf
    <2>3. [i \in DOMAIN s |-> CharOf[s[i]]]
            = [i \in DOMAIN s |-> IF s[i][2] = Bytes(s[i][1]) THEN <<s[i][1]>> ELSE <<>>]
        BY <2>2
    <2> QED
        BY <2>3 DEF Decode, Flat
<1> QED
    BY <1>1, <1>2, <1>3, <1>4

\* The bytes of two texts, one after the other.
LEMMA EncodeText ==
    /\ Encode(<<>>) = <<>>
    /\ \A s \in Seq(SentChars) : Encode(s) \in Seq(Byte)
    /\ \A s \in Seq(SentChars), c \in SentChars :
         Encode(Append(s, c)) = Encode(s) \o BytesOf[c]
    /\ \A s, t \in Seq(SentChars) : Encode(s \o t) = Encode(s) \o Encode(t)
<1>1. \A s \in Seq(SentChars) : Flat(s, BytesOf) \in Seq(Byte) /\ Flat(<<>>, BytesOf) = <<>>
    BY Readings, FlatType
<1>2. <<>> \in Seq(SentChars)
    OBVIOUS
<1>3. \A s \in Seq(SentChars), c \in SentChars :
        Flat(Append(s, c), BytesOf) = Flat(s, BytesOf) \o BytesOf[c]
    BY Readings, FlatAppend
<1>4. \A s, t \in Seq(SentChars) :
        Flat(s \o t, BytesOf) = Flat(s, BytesOf) \o Flat(t, BytesOf)
    <2>1. BytesOf \in [SentChars -> Seq(Byte)]
        BY Readings
    <2> QED
        BY <2>1, FlatConcat
<1>5. \A s \in Seq(SentChars), c \in SentChars : Append(s, c) \in Seq(SentChars)
    OBVIOUS
<1>6. \A s, t \in Seq(SentChars) : s \o t \in Seq(SentChars)
    OBVIOUS
<1> QED
    BY <1>1, <1>2, <1>3, <1>4, <1>5, <1>6, Readings

\* The characters of two sequences of bytes, one after the other.
LEMMA DecodeBytes ==
    /\ Decode(<<>>) = <<>>
    /\ \A s \in Seq(Byte) : Decode(s) \in Seq(SentChars)
    /\ \A s \in Seq(Byte), b \in Byte : Decode(Append(s, b)) = Decode(s) \o CharOf[b]
    /\ \A s, t \in Seq(Byte) : Decode(s \o t) = Decode(s) \o Decode(t)
<1>1. \A s \in Seq(Byte) : Flat(s, CharOf) \in Seq(SentChars) /\ Flat(<<>>, CharOf) = <<>>
    BY Readings, FlatType
<1>2. <<>> \in Seq(Byte)
    OBVIOUS
<1>3. \A s \in Seq(Byte), b \in Byte :
        Flat(Append(s, b), CharOf) = Flat(s, CharOf) \o CharOf[b]
    BY Readings, FlatAppend
<1>4. \A s, t \in Seq(Byte) :
        Flat(s \o t, CharOf) = Flat(s, CharOf) \o Flat(t, CharOf)
    <2>1. CharOf \in [Byte -> Seq(SentChars)]
        BY Readings
    <2> QED
        BY <2>1, FlatConcat
<1>5. \A s \in Seq(Byte), b \in Byte : Append(s, b) \in Seq(Byte)
    OBVIOUS
<1>6. \A s, t \in Seq(Byte) : s \o t \in Seq(Byte)
    OBVIOUS
<1> QED
    BY <1>1, <1>2, <1>3, <1>4, <1>5, <1>6, Readings

\* A character that is whole is read, one that is not is left out.
LEMMA DecodeChar ==
    ASSUME NEW c \in SentChars
    PROVE  /\ Decode(BytesOf[c]) = <<c>>
           /\ \A k \in 0..(Bytes(c) - 1) : Decode(SubSeq(BytesOf[c], 1, k)) = <<>>
<1> DEFINE n == Bytes(c)
           t == BytesOf[c]
           Part == {k \in Nat : k < n => Decode(SubSeq(t, 1, k)) = <<>>}
<1>1. /\ n \in 1..3 /\ t \in Seq(Byte) /\ Len(t) = n
      /\ \A b \in 1..n : t[b] = <<c, b>>
    BY BytesOfChar
<1>2. \A b \in 1..n : <<c, b>> \in Byte /\ CharOf[<<c, b>>] = IF b = n THEN <<c>> ELSE <<>>
    <2> SUFFICES ASSUME NEW b \in 1..n
                 PROVE  /\ <<c, b>> \in Byte
                        /\ CharOf[<<c, b>>] = IF b = n THEN <<c>> ELSE <<>>
        OBVIOUS
    <2>1. b \in 1..3
        BY <1>1
    <2>2. <<c, b>> \in Byte /\ <<c, b>>[1] = c /\ <<c, b>>[2] = b
        BY <2>1 DEF Byte
    <2> QED
        BY <2>2 DEF CharOf
<1> HIDE DEF n, t
<1>3. 0 \in Part
    <2>1. SubSeq(t, 1, 0) = <<>>
        BY <1>1
    <2> QED
        BY <2>1, DecodeBytes
<1>4. ASSUME NEW k \in 0..(n - 1)
      PROVE  Decode(SubSeq(t, 1, k + 1)) = Decode(SubSeq(t, 1, k)) \o CharOf[<<c, k + 1>>]
    <2> DEFINE p == SubSeq(t, 1, k)
    <2>1. p \in Seq(Byte) /\ SubSeq(t, 1, k + 1) = Append(p, t[k + 1])
        BY <1>1
    <2>2. k + 1 \in 1..n
        BY <1>1
    <2>3. t[k + 1] = <<c, k + 1>> /\ t[k + 1] \in Byte
        BY <1>1, <1>2, <2>2
    <2> HIDE DEF p
    <2> QED
        BY <2>1, <2>3, DecodeBytes DEF p
<1>5. ASSUME NEW k \in Nat, k \in Part
      PROVE  k + 1 \in Part
    <2> SUFFICES ASSUME k + 1 < n
                 PROVE  Decode(SubSeq(t, 1, k + 1)) = <<>>
        OBVIOUS
    <2>1. k \in 0..(n - 1) /\ k + 1 \in 1..n /\ k + 1 # n /\ k < n
        BY <1>1
    <2>2. Decode(SubSeq(t, 1, k)) = <<>>
        BY <1>5, <2>1
    <2>3. CharOf[<<c, k + 1>>] = <<>>
        BY <1>2, <2>1
    <2>4. <<>> \o <<>> = <<>>
        OBVIOUS
    <2> QED
        BY <1>4, <2>1, <2>2, <2>3, <2>4
<1> HIDE DEF Part
<1>6. \A k \in Nat : k \in Part
    BY <1>3, <1>5, InductiveSet
<1> USE DEF Part
<1>7. \A k \in 0..(n - 1) : Decode(SubSeq(t, 1, k)) = <<>>
    BY <1>1, <1>6
<1>8. Decode(t) = <<c>>
    <2>1. n - 1 \in 0..(n - 1) /\ (n - 1) + 1 = n /\ n \in 1..n
        BY <1>1
    <2>2. SubSeq(t, 1, n) = t
        BY <1>1
    <2>3. Decode(SubSeq(t, 1, n)) = Decode(SubSeq(t, 1, n - 1)) \o CharOf[<<c, n>>]
        BY <1>4, <2>1
    <2>4. CharOf[<<c, n>>] = <<c>> /\ Decode(SubSeq(t, 1, n - 1)) = <<>>
        BY <1>2, <1>7, <2>1
    <2>5. <<>> \o <<c>> = <<c>>
        OBVIOUS
    <2> QED
        BY <2>2, <2>3, <2>4, <2>5
<1> QED
    BY <1>7, <1>8 DEF n, t

\* What is encoded is read again.
LEMMA DecodeEncode ==
    ASSUME NEW text \in Seq(SentChars)
    PROVE  Decode(Encode(text)) = text
<1> DEFINE Same == {s \in Seq(SentChars) : Decode(Encode(s)) = s}
<1>1. <<>> \in Same
    BY EncodeText, DecodeBytes
<1>2. ASSUME NEW s \in Seq(SentChars), NEW c \in SentChars, s \in Same
      PROVE  Append(s, c) \in Same
    <2>1. Encode(Append(s, c)) = Encode(s) \o BytesOf[c]
        BY EncodeText
    <2>2. Encode(s) \in Seq(Byte) /\ BytesOf[c] \in Seq(Byte)
        BY EncodeText, BytesOfChar
    <2>3. Decode(Encode(s) \o BytesOf[c]) = Decode(Encode(s)) \o Decode(BytesOf[c])
        BY <2>2, DecodeBytes
    <2>4. Decode(Encode(s)) = s /\ Decode(BytesOf[c]) = <<c>>
        BY <1>2, DecodeChar
    <2>5. s \o <<c>> = Append(s, c) /\ Append(s, c) \in Seq(SentChars)
        OBVIOUS
    <2> QED
        BY <2>1, <2>3, <2>4, <2>5
<1> HIDE DEF Same
<1>3. \A s \in Seq(SentChars) : s \in Same
    BY <1>1, <1>2, InductiveSeqs
<1> QED
    BY <1>3 DEF Same

\* The length of a text, in bytes, is that of its parts; it is no less than the
\* characters are.
LEMMA LengthOfText ==
    /\ Length(<<>>) = 0
    /\ \A s \in Seq(SentChars) : Length(s) \in Nat /\ Len(s) <= Length(s)
    /\ \A c \in SentChars : Length(<<c>>) = Bytes(c)
    /\ \A s, t \in Seq(SentChars) : Length(s \o t) = Length(s) + Length(t)
<1>1. Length(<<>>) = 0
    BY EncodeText DEF Length
<1>2. \A s \in Seq(SentChars) : Length(s) \in Nat
    <2>1. \A s \in Seq(SentChars) : Encode(s) \in Seq(Byte)
        BY EncodeText
    <2>2. \A s \in Seq(Byte) : Len(s) \in Nat
        OBVIOUS
    <2> QED
        BY <2>1, <2>2 DEF Length
<1>3. \A s, t \in Seq(SentChars) : Length(s \o t) = Length(s) + Length(t)
    <2> SUFFICES ASSUME NEW s \in Seq(SentChars), NEW t \in Seq(SentChars)
                 PROVE  Length(s \o t) = Length(s) + Length(t)
        OBVIOUS
    <2>1. /\ Encode(s) \in Seq(Byte) /\ Encode(t) \in Seq(Byte)
          /\ Encode(s \o t) = Encode(s) \o Encode(t)
        BY EncodeText
    <2>2. \A x, y \in Seq(Byte) : Len(x \o y) = Len(x) + Len(y)
        OBVIOUS
    <2> QED
        BY <2>1, <2>2 DEF Length
<1>4. ASSUME NEW c \in SentChars
      PROVE  Length(<<c>>) = Bytes(c)
    <2>1. Append(<<>>, c) = <<c>> /\ <<>> \in Seq(SentChars)
        OBVIOUS
    <2>2. Encode(<<c>>) = <<>> \o BytesOf[c]
        BY <2>1, EncodeText
    <2>3. BytesOf[c] \in Seq(Byte) /\ Len(BytesOf[c]) = Bytes(c)
        BY BytesOfChar
    <2>4. <<>> \o BytesOf[c] = BytesOf[c]
        BY <2>3, ConcatEmptySeq
    <2> QED
        BY <2>2, <2>3, <2>4 DEF Length
<1>5. \A s \in Seq(SentChars) : Len(s) <= Length(s)
    <2> DEFINE Short == {s \in Seq(SentChars) : Len(s) <= Length(s)}
    <2>1. <<>> \in Short
        BY <1>1
    <2>2. ASSUME NEW s \in Seq(SentChars), NEW c \in SentChars, s \in Short
          PROVE  Append(s, c) \in Short
        <3>1. /\ Append(s, c) = s \o <<c>> /\ <<c>> \in Seq(SentChars)
              /\ Append(s, c) \in Seq(SentChars) /\ Len(Append(s, c)) = Len(s) + 1
              /\ Len(s) \in Nat
            OBVIOUS
        <3>2. Bytes(c) \in 1..3
            BY BytesOfChar
        <3>3. Length(s \o <<c>>) = Length(s) + Length(<<c>>)
            BY <1>3, <3>1
        <3>4. Length(s) \in Nat /\ Len(s) <= Length(s) /\ Length(<<c>>) = Bytes(c)
            BY <1>2, <1>4, <2>2
        <3>5. Len(Append(s, c)) <= Length(Append(s, c))
            BY <3>1, <3>2, <3>3, <3>4
        <3> QED
            BY <3>1, <3>5
    <2> HIDE DEF Short
    <2>3. \A s \in Seq(SentChars) : s \in Short
        BY <2>1, <2>2, InductiveSeqs
    <2> QED
        BY <2>3 DEF Short
<1> QED
    BY <1>1, <1>2, <1>3, <1>4, <1>5

\* The length of a prefix: one character longer, as many bytes longer.
LEMMA LengthOfPrefix ==
    ASSUME NEW text \in Seq(SentChars), NEW n \in 0..Len(text)
    PROVE  /\ SubSeq(text, 1, n) \in Seq(SentChars) /\ Len(SubSeq(text, 1, n)) = n
           /\ Length(SubSeq(text, 1, n)) \in Nat
           /\ Length(SubSeq(text, 1, n)) <= Length(text)
           /\ n < Len(text) =>
                /\ text[n + 1] \in SentChars
                /\ Length(SubSeq(text, 1, n + 1))
                     = Length(SubSeq(text, 1, n)) + Bytes(text[n + 1])
<1> DEFINE p == SubSeq(text, 1, n)
           q == SubSeq(text, n + 1, Len(text))
<1>1. p \in Seq(SentChars) /\ q \in Seq(SentChars) /\ Len(p) = n /\ text = p \o q
    BY CutInTwo
<1>2. ASSUME n < Len(text)
      PROVE  /\ text[n + 1] \in SentChars
             /\ Length(SubSeq(text, 1, n + 1)) = Length(p) + Bytes(text[n + 1])
    <2>0. n \in 0..(Len(text) - 1)
        BY <1>2
    <2>1. text[n + 1] \in SentChars /\ SubSeq(text, 1, n + 1) = p \o <<text[n + 1]>>
        BY <2>0, OneMore
    <2> DEFINE c == text[n + 1]
    <2> HIDE DEF p, c
    <2>2. c \in SentChars /\ <<c>> \in Seq(SentChars)
        BY <2>1 DEF c
    <2>3. Length(p \o <<c>>) = Length(p) + Bytes(c)
        BY <1>1, <2>2, LengthOfText
    <2> QED
        BY <2>1, <2>3 DEF c
<1> HIDE DEF p, q
<1>3. /\ Length(p) \in Nat /\ Length(q) \in Nat
      /\ Length(p \o q) = Length(p) + Length(q)
    BY <1>1, LengthOfText
<1>4. Length(p) \in Nat /\ Length(p) <= Length(text)
    BY <1>1, <1>3
<1> QED
    BY <1>1, <1>2, <1>4 DEF p

\* A text that is too long is cut after as many characters as fit.
LEMMA TruncatesToFit ==
    ASSUME NEW text \in Seq(SentChars), NEW max \in Nat, Length(text) > max
    PROVE  \E n \in 0..(Len(text) - 1) :
             /\ TruncateBytes(text, max) = SubSeq(text, 1, n)
             /\ Length(SubSeq(text, 1, n)) <= max
             /\ ~(Length(SubSeq(text, 1, n + 1)) <= max)
<1> DEFINE N == Len(text)
           Over == {m \in Nat : m <= N /\ Length(SubSeq(text, 1, m)) > max}
<1>1. N \in Nat /\ SubSeq(text, 1, N) = text /\ SubSeq(text, 1, 0) = <<>>
    OBVIOUS
<1>2. N \in Over
    <2>1. Length(SubSeq(text, 1, N)) > max
        BY <1>1
    <2> HIDE DEF N
    <2> QED
        BY <1>1, <2>1
<1>3. PICK m \in Over : \A k \in Over : m <= k
    BY <1>2, LeastNat
<1>4. m # 0
    <2>1. m \in Nat /\ Length(SubSeq(text, 1, m)) > max
        BY <1>3
    <2>2. ~(Length(<<>>) > max)
        BY LengthOfText
    <2> QED
        BY <1>1, <2>1, <2>2
<1> DEFINE n == m - 1
           x == SubSeq(text, 1, n)
           c == text[n + 1]
           y == BytesOf[c]
           rest == SubSeq(text, m + 1, N)
           z == Encode(rest)
<1>5. n \in 0..(N - 1) /\ n \in 0..N /\ n < N /\ n + 1 = m /\ m \in 0..N
    BY <1>1, <1>3, <1>4
<1>6. ~(m <= n)
    BY <1>5
<1>7. Length(x) <= max
    <2>1. n \notin Over
        BY <1>3, <1>6
    <2>2. Length(x) \in Nat
        BY <1>5, LengthOfPrefix
    <2> QED
        BY <1>5, <2>1, <2>2
<1>8. Length(SubSeq(text, 1, m)) > max
    BY <1>3
<1>9. /\ x \in Seq(SentChars) /\ c \in SentChars /\ rest \in Seq(SentChars)
      /\ SubSeq(text, 1, m) = x \o <<c>>
      /\ text = (x \o <<c>>) \o rest
    <2>1. x \in Seq(SentChars)
        BY <1>5, LengthOfPrefix
    <2>2. c \in SentChars /\ SubSeq(text, 1, n + 1) = x \o <<c>>
        BY <1>5, OneMore
    <2>3. rest \in Seq(SentChars) /\ text = SubSeq(text, 1, m) \o rest
        BY <1>5, CutInTwo
    <2> QED
        BY <1>5, <2>1, <2>2, <2>3
<1> HIDE DEF x, c, rest, n
<1>10. /\ Length(<<c>>) = Bytes(c) /\ Length(x) \in Nat /\ Bytes(c) \in 1..3
       /\ Length(x \o <<c>>) = Length(x) + Bytes(c)
    <2>1. <<c>> \in Seq(SentChars)
        BY <1>9
    <2> QED
        BY <1>9, <2>1, LengthOfText, BytesOfChar
<1>11. max < Length(x) + Bytes(c)
    BY <1>8, <1>9, <1>10
<1>12. /\ Encode(x) \in Seq(Byte) /\ y \in Seq(Byte) /\ z \in Seq(Byte)
       /\ Len(y) = Bytes(c)
       /\ Encode(text) = (Encode(x) \o y) \o z
    <2>1. x \o <<c>> = Append(x, c) /\ Append(x, c) \in Seq(SentChars)
        BY <1>9
    <2>2. Encode(Append(x, c)) = Encode(x) \o y
        BY <1>9, EncodeText
    <2>3. Encode(Append(x, c) \o rest) = Encode(Append(x, c)) \o z
        BY <1>9, <2>1, EncodeText
    <2>4. Encode(x) \in Seq(Byte) /\ z \in Seq(Byte)
        BY <1>9, EncodeText
    <2>5. y \in Seq(Byte) /\ Len(y) = Bytes(c)
        BY <1>9, BytesOfChar
    <2> QED
        BY <1>9, <2>1, <2>2, <2>3, <2>4, <2>5
<1> DEFINE k == max - Length(x)
<1>13. SubSeq(Encode(text), 1, max) = Encode(x) \o SubSeq(y, 1, k)
    <2> DEFINE ex == Encode(x)
    <2>1. /\ ex \in Seq(Byte) /\ Len(ex) = Length(x)
          /\ Len(ex) <= max /\ max < Len(ex) + Len(y)
          /\ Encode(text) = (ex \o y) \o z
        BY <1>7, <1>11, <1>12 DEF Length
    <2> HIDE DEF ex, y, z
    <2>2. SubSeq((ex \o y) \o z, 1, max) = ex \o SubSeq(y, 1, max - Len(ex))
        BY <1>12, <2>1, CutWithin
    <2> QED
        BY <2>1, <2>2 DEF ex
<1>14. k \in 0..(Bytes(c) - 1)
    BY <1>7, <1>10, <1>11
<1>15. TruncateBytes(text, max) = x
    <2>1. SubSeq(y, 1, k) \in Seq(Byte)
        BY <1>10, <1>12, <1>14
    <2>2. Decode(SubSeq(y, 1, k)) = <<>>
        BY <1>9, <1>14, DecodeChar
    <2> HIDE DEF k, y
    <2>3. Decode(Encode(x) \o SubSeq(y, 1, k)) = Decode(Encode(x)) \o <<>>
        BY <1>12, <2>1, <2>2, DecodeBytes
    <2>4. Decode(Encode(x)) = x /\ x \o <<>> = x
        BY <1>9, DecodeEncode, ConcatEmptySeq
    <2>5. ~(Length(text) <= max)
        <3>1. Length(text) \in Nat
            BY LengthOfText
        <3> QED
            BY <3>1
    <2> QED
        BY <1>13, <2>3, <2>4, <2>5 DEF TruncateBytes
<1>16. ~(Length(SubSeq(text, 1, n + 1)) <= max)
    <2>1. Length(SubSeq(text, 1, m)) \in Nat
        BY <1>5, LengthOfPrefix
    <2> QED
        BY <1>5, <1>8, <2>1
<1> QED
    BY <1>5, <1>7, <1>15, <1>16 DEF x

\* What is left of a text without the spaces at its end is a prefix of it.
LEMMA RStripPrefix ==
    ASSUME NEW text \in Seq(SentChars)
    PROVE  \E n \in 0..Len(text) : RStrip(text) = SubSeq(text, 1, n)
<1> DEFINE kept == {i \in DOMAIN text : text[i] \notin {" ", "n"}}
           last == CHOOSE i \in kept : \A j \in kept : j <= i
<1>1. DOMAIN text = 1..Len(text) /\ Len(text) \in Nat
    OBVIOUS
<1>2. kept \in SUBSET Nat /\ \A i \in kept : i \in 0..Len(text) /\ i <= Len(text)
    <2>1. \A i \in DOMAIN text : i \in Nat /\ i \in 0..Len(text) /\ i <= Len(text)
        BY <1>1
    <2> QED
        BY <2>1
<1>3. ASSUME kept # {}
      PROVE  last \in kept
    <2> HIDE DEF kept
    <2>1. \E i \in kept : \A j \in kept : j <= i
        BY <1>1, <1>2, <1>3, GreatestNat
    <2> QED
        BY <2>1
<1>4. (IF kept = {} THEN 0 ELSE last) \in 0..Len(text)
    <2>1. 0 \in 0..Len(text)
        BY <1>1
    <2> HIDE DEF last
    <2> QED
        BY <1>2, <1>3, <2>1
<1>5. RStrip(text) = SubSeq(text, 1, IF kept = {} THEN 0 ELSE last)
    BY DEF RStrip
<1> QED
    BY <1>4, <1>5

-----------------------------------------------------------------------------
(* Memos *)

\* A memo is a text that can be sent.
LEMMA CharsAreSent ==
    /\ Chars \subseteq SentChars
    /\ \A s \in Seq(Chars) : s \in Seq(SentChars)
<1>1. Chars \subseteq SentChars
    BY DEF SentChars
<1> QED
    BY <1>1, SeqMonotonic

\* A marker leaves room for a space before it.
LEMMA Markers ==
    ASSUME NEW action \in Actions
    PROVE  /\ Marker(action) \in Seq(Chars) /\ Marker(action) # <<>>
           /\ Length(Marker(action)) \in Nat
           /\ MemoMax \in Nat /\ MemoMax - Length(Marker(action)) - 1 \in Nat
<1>1. Marker(action) \in Seq(Chars) /\ Marker(action) # <<>>
    <2>1. /\ <<"#", "(", ")">> \in Seq(Chars) /\ <<"#", "(", ")">> # <<>>
          /\ <<"~", " ", "#", "(", ")">> \in Seq(Chars)
          /\ <<"~", " ", "#", "(", ")">> # <<>>
          /\ <<"[", "]">> \in Seq(Chars) /\ <<"[", "]">> # <<>>
        BY DEF Chars
    <2>2. \/ Marker(action) = <<"#", "(", ")">>
          \/ Marker(action) = <<"~", " ", "#", "(", ")">>
          \/ Marker(action) = <<"[", "]">>
        BY DEF Actions, Marker
    <2> QED
        BY <2>1, <2>2
<1>2. Length(Marker(action)) \in Nat
    BY <1>1, CharsAreSent, LengthOfText
<1>3. MemoMax \in Nat /\ Length(Marker(action)) < MemoMax
    BY MemoAssumption
<1> QED
    BY <1>1, <1>2, <1>3

\* What the memo old becomes when a marker is appended.
Room(action) == MemoMax - Length(Marker(action)) - 1
Kept(old, n) == IF n < Len(old) THEN RStrip(SubSeq(old, 1, n)) ELSE old
Marked(kept, action) ==
    IF kept = <<>> THEN Marker(action) ELSE kept \o <<" ">> \o Marker(action)
Fits(old, n, action) ==
    /\ Length(SubSeq(old, 1, n)) <= Room(action)
    /\ n < Len(old) => ~(Length(SubSeq(old, 1, n + 1)) <= Room(action))

\* As many characters of it as fit are kept before the marker.
LEMMA AppendKeeps ==
    ASSUME NEW old \in Seq(Chars), NEW action \in Actions
    PROVE  \E n \in 0..Len(old) :
             /\ Fits(old, n, action)
             /\ AppendMarker(old, Marker(action)) = Marked(Kept(old, n), action)
<1> DEFINE mk == Marker(action)
           room == Room(action)
<1>1. /\ old \in Seq(SentChars) /\ mk \in Seq(SentChars) /\ mk # <<>>
      /\ Length(mk) \in Nat /\ MemoMax \in Nat /\ room \in Nat
      /\ room = MemoMax - Length(mk) - 1
    BY CharsAreSent, Markers DEF Room
<1>2. TruncateBytes(mk, MemoMax) = mk
    <2>1. Length(mk) <= MemoMax
        BY <1>1
    <2> QED
        BY <2>1 DEF TruncateBytes
<1> DEFINE cut == RStrip(TruncateBytes(old, room))
<1>3. AppendMarker(old, mk)
        = IF old = <<>> \/ room <= 0 THEN TruncateBytes(mk, MemoMax)
          ELSE Marked(IF Length(old) > room THEN cut ELSE old, action)
    BY DEF AppendMarker, Marked, Room
<1>4. Len(old) \in Nat /\ Length(old) \in Nat /\ SubSeq(old, 1, 0) = <<>>
    BY <1>1, LengthOfText
<1>5. RStrip(<<>>) = <<>>
    BY DEF RStrip
<1> HIDE DEF mk, room, cut
<1>6. CASE old = <<>>
    <2>1. Len(old) = 0 /\ 0 \in 0..Len(old) /\ Kept(old, 0) = <<>>
        BY <1>6 DEF Kept
    <2>2. Length(SubSeq(old, 1, 0)) <= room
        <3>1. Length(SubSeq(old, 1, 0)) = 0
            BY <1>4, LengthOfText
        <3> QED
            BY <1>1, <3>1
    <2>3. Fits(old, 0, action)
        BY <2>1, <2>2 DEF Fits, room
    <2>4. AppendMarker(old, mk) = mk
        BY <1>2, <1>3, <1>6
    <2>5. Marked(Kept(old, 0), action) = mk
        BY <2>1 DEF Marked, mk
    <2> QED
        BY <2>1, <2>3, <2>4, <2>5 DEF mk
<1>7. CASE old # <<>> /\ room <= 0
    <2>1. room = 0 /\ 0 < Len(old) /\ 0 \in 0..Len(old)
        BY <1>1, <1>4, <1>7
    <2>2. Kept(old, 0) = <<>>
        BY <1>4, <1>5, <2>1 DEF Kept
    <2>3. Length(SubSeq(old, 1, 0)) = 0
        BY <1>4, LengthOfText
    <2>4. old[0 + 1] \in SentChars
          /\ Length(SubSeq(old, 1, 0 + 1)) = Length(SubSeq(old, 1, 0)) + Bytes(old[0 + 1])
        BY <1>1, <2>1, LengthOfPrefix
    <2>5. Bytes(old[0 + 1]) \in 1..3
        BY <2>4, BytesOfChar
    <2>6. ~(Length(SubSeq(old, 1, 0 + 1)) <= room)
        BY <2>1, <2>3, <2>4, <2>5
    <2>7. Fits(old, 0, action)
        BY <2>1, <2>3, <2>6 DEF Fits, room
    <2>8. AppendMarker(old, mk) = mk
        BY <1>2, <1>3, <1>7
    <2>9. Marked(Kept(old, 0), action) = mk
        BY <2>2 DEF Marked, mk
    <2> QED
        BY <2>1, <2>7, <2>8, <2>9 DEF mk
<1>8. CASE old # <<>> /\ ~(room <= 0) /\ Length(old) > room
    <2>1. PICK n \in 0..(Len(old) - 1) :
             /\ TruncateBytes(old, room) = SubSeq(old, 1, n)
             /\ Length(SubSeq(old, 1, n)) <= room
             /\ ~(Length(SubSeq(old, 1, n + 1)) <= room)
        BY <1>1, <1>8, TruncatesToFit
    <2>2. n \in 0..Len(old) /\ n < Len(old)
        BY <1>4
    <2>3. Fits(old, n, action)
        BY <2>1 DEF Fits, room
    <2>4. Kept(old, n) = cut
        BY <2>1, <2>2 DEF Kept, cut
    <2>5. AppendMarker(old, mk) = Marked(cut, action)
        BY <1>3, <1>8
    <2> QED
        BY <2>2, <2>3, <2>4, <2>5 DEF mk
<1>9. CASE old # <<>> /\ ~(room <= 0) /\ ~(Length(old) > room)
    <2> DEFINE n == Len(old)
    <2>1. n \in 0..Len(old) /\ ~(n < Len(old)) /\ SubSeq(old, 1, n) = old
        BY <1>4
    <2>2. Length(SubSeq(old, 1, n)) <= room
        <3>1. Length(old) <= room
            BY <1>1, <1>4, <1>9
        <3> QED
            BY <2>1, <3>1
    <2>3. Fits(old, n, action)
        BY <2>1, <2>2 DEF Fits, room
    <2>4. Kept(old, n) = old
        BY <2>1 DEF Kept
    <2>5. AppendMarker(old, mk) = Marked(old, action)
        BY <1>3, <1>9
    <2> QED
        BY <2>1, <2>3, <2>4, <2>5 DEF mk
<1> QED
    BY <1>6, <1>7, <1>8, <1>9

\* The memo with its marker fits the field, and ends in the marker.
LEMMA AppendFits ==
    ASSUME NEW old \in Seq(Chars), NEW action \in Actions
    PROVE  LET new == AppendMarker(old, Marker(action)) IN
           /\ new \in Seq(Chars)
           /\ Length(new) <= MemoMax
           /\ \E s \in Seq(Chars) : new = s \o Marker(action)
<1> DEFINE mk == Marker(action)
           room == Room(action)
           new == AppendMarker(old, mk)
<1>1. /\ mk \in Seq(Chars) /\ mk \in Seq(SentChars) /\ old \in Seq(SentChars)
      /\ Length(mk) \in Nat /\ MemoMax \in Nat /\ room = MemoMax - Length(mk) - 1
    BY CharsAreSent, Markers DEF Room
<1>2. PICK n \in 0..Len(old) : Fits(old, n, action) /\ new = Marked(Kept(old, n), action)
    BY AppendKeeps
<1> DEFINE p == SubSeq(old, 1, n)
           k == Kept(old, n)
<1>3. p \in Seq(Chars) /\ p \in Seq(SentChars) /\ Length(p) <= room
    <2>1. p \in Seq(Chars)
        BY CutInTwo
    <2> QED
        BY <1>2, <2>1, CharsAreSent DEF Fits
<1>4. k \in Seq(Chars) /\ Length(k) <= room
    <2>1. CASE n < Len(old)
        <3>1. k = RStrip(p)
            BY <2>1 DEF Kept
        <3> HIDE DEF p, k
        <3>2. PICK m \in 0..Len(p) : k = SubSeq(p, 1, m)
            BY <1>3, <3>1, RStripPrefix
        <3>3. k \in Seq(Chars)
            BY <1>3, <3>2, CutInTwo
        <3>4. Length(k) \in Nat /\ Length(k) <= Length(p) /\ Length(p) \in Nat
            BY <1>3, <3>2, LengthOfPrefix, LengthOfText
        <3>5. room \in Int
            BY <1>1
        <3> QED
            BY <1>3, <3>3, <3>4, <3>5
    <2>2. CASE ~(n < Len(old))
        <3>1. n = Len(old) /\ p = old /\ k = old
            BY <2>2 DEF Kept
        <3> QED
            BY <1>3, <3>1
    <2> QED
        BY <2>1, <2>2
<1> HIDE DEF p, k, mk, room, new
<1>5. CASE k = <<>>
    <2>1. new = mk
        BY <1>2, <1>5 DEF Marked, k, mk
    <2>2. <<>> \in Seq(Chars) /\ mk = <<>> \o mk
        BY <1>1, ConcatEmptySeq
    <2>3. Length(mk) <= MemoMax
        <3>1. Length(k) = 0 /\ room \in Int
            BY <1>1, <1>5, LengthOfText
        <3> QED
            BY <1>1, <1>4, <3>1
    <2> QED
        BY <1>1, <2>1, <2>2, <2>3 DEF new, mk
<1>6. CASE k # <<>>
    <2> DEFINE sp == <<" ">>
    <2>1. sp \in Seq(Chars) /\ " " \in SentChars
        <3>1. " " \in Chars /\ " " \in SentChars
            BY DEF Chars, SentChars
        <3>2. \A c \in Chars : <<c>> \in Seq(Chars)
            OBVIOUS
        <3> QED
            BY <3>1, <3>2
    <2>2. Length(sp) = 1
        BY <2>1, LengthOfText DEF Bytes
    <2>3. new = (k \o sp) \o mk
        BY <1>2, <1>6 DEF Marked, k, mk
    <2> HIDE DEF sp
    <2>4. k \o sp \in Seq(Chars) /\ (k \o sp) \o mk \in Seq(Chars)
        <3>1. \A s, t \in Seq(Chars) : s \o t \in Seq(Chars)
            OBVIOUS
        <3> QED
            BY <1>1, <1>4, <2>1, <3>1
    <2>5. /\ k \in Seq(SentChars) /\ sp \in Seq(SentChars)
          /\ k \o sp \in Seq(SentChars)
        BY <1>4, <2>1, <2>4, CharsAreSent
    <2>6. /\ Length(k \o sp) = Length(k) + Length(sp)
          /\ Length((k \o sp) \o mk) = Length(k \o sp) + Length(mk)
          /\ Length(k) \in Nat
        BY <1>1, <2>5, LengthOfText
    <2>7. Length(new) <= MemoMax
        BY <1>1, <1>4, <2>2, <2>3, <2>6
    <2> QED
        BY <2>3, <2>4, <2>7 DEF new, mk
<1> QED
    BY <1>5, <1>6

\* A text that fits comes back from the browser as it was, newlines and all.
LEMMA ComesBack ==
    ASSUME NEW text \in Seq(Chars), Length(text) <= MemoMax
    PROVE  MemoFromForm(Sent(text)) = text
<1> DEFINE send == [c \in Chars |-> IF c = "n" THEN <<"r", "n">> ELSE <<c>>]
           take == [c \in SentChars |-> IF c = "r" THEN <<>> ELSE <<c>>]
<1>1. send \in [Chars -> Seq(SentChars)]
    <2>1. \A c \in Chars : c \in SentChars
        BY CharsAreSent
    <2>2. "r" \in SentChars /\ "n" \in SentChars
        BY DEF SentChars, Chars
    <2>3. \A c, d \in SentChars : <<c>> \in Seq(SentChars) /\ <<c, d>> \in Seq(SentChars)
        OBVIOUS
    <2>4. <<"r", "n">> \in Seq(SentChars)
        BY <2>2, <2>3
    <2>5. \A c \in Chars : (IF c = "n" THEN <<"r", "n">> ELSE <<c>>) \in Seq(SentChars)
        BY <2>1, <2>3, <2>4
    <2> QED
        BY <2>5
<1>2. take \in [SentChars -> Seq(SentChars)]
    <2>1. \A c \in SentChars : (IF c = "r" THEN <<>> ELSE <<c>>) \in Seq(SentChars)
        OBVIOUS
    <2> QED
        BY <2>1
<1>3. ASSUME NEW c \in Chars
      PROVE  Flat(send[c], take) = <<c>>
    <2>1. c \in SentChars /\ c # "r"
        BY CharsAreSent DEF Chars
    <2>2. take[c] = <<c>> /\ send[c] = IF c = "n" THEN <<"r", "n">> ELSE <<c>>
        BY <2>1
    <2>3. "r" \in SentChars /\ take["r"] = <<>>
        BY DEF SentChars
    <2>4. <<>> \in Seq(SentChars) /\ \A d \in SentChars : <<d>> \in Seq(SentChars)
        OBVIOUS
    <2> HIDE DEF take, send
    <2>5. Flat(<<>>, take) = <<>>
        BY <1>2, <2>4, FlatType
    <2>6. \A s \in Seq(SentChars), d \in SentChars :
            Flat(Append(s, d), take) = Flat(s, take) \o take[d]
        BY <1>2, FlatAppend
    <2>7. \A d \in SentChars : Flat(<<d>>, take) = <<>> \o take[d]
        <3>1. \A d \in SentChars : Append(<<>>, d) = <<d>>
            OBVIOUS
        <3> QED
            BY <2>4, <2>5, <2>6, <3>1
    <2>8. <<>> \o <<c>> = <<c>> /\ <<>> \o <<>> = <<>>
        OBVIOUS
    <2>9. CASE c # "n"
        BY <2>1, <2>2, <2>7, <2>8, <2>9
    <2>10. CASE c = "n"
        <3>1. Append(<<"r">>, c) = <<"r", "n">>
            BY <2>10, ShortSeqs
        <3>2. Flat(<<"r">>, take) = <<>>
            BY <2>3, <2>7, <2>8
        <3>3. <<"r">> \in Seq(SentChars)
            BY <2>3, <2>4
        <3>4. Flat(Append(<<"r">>, c), take) = <<>> \o take[c]
            BY <2>1, <2>6, <3>2, <3>3
        <3> QED
            BY <2>2, <2>8, <2>10, <3>1, <3>4
    <2> QED
        BY <2>9, <2>10
<1>4. \A t \in Seq(Chars) : Sent(t) = Flat(t, send)
    <2> SUFFICES ASSUME NEW t \in Seq(Chars)
                 PROVE  Sent(t) = Flat(t, send)
        OBVIOUS
    <2>1. \A i \in DOMAIN t : send[t[i]] = IF t[i] = "n" THEN <<"r", "n">> ELSE <<t[i]>>
        <3>1. \A i \in DOMAIN t : t[i] \in Chars
            OBVIOUS
        <3> QED
            BY <3>1
    <2>2. [i \in DOMAIN t |-> send[t[i]]]
            = [i \in DOMAIN t |-> IF t[i] = "n" THEN <<"r", "n">> ELSE <<t[i]>>]
        BY <2>1
    <2> QED
        BY <2>2 DEF Sent, Flat
<1>5. \A t \in Seq(SentChars) : MemoFromForm(t) = TruncateChars(Flat(t, take), MemoMax)
    <2> SUFFICES ASSUME NEW t \in Seq(SentChars)
                 PROVE  MemoFromForm(t) = TruncateChars(Flat(t, take), MemoMax)
        OBVIOUS
    <2>1. \A i \in DOMAIN t : take[t[i]] = IF t[i] = "r" THEN <<>> ELSE <<t[i]>>
        <3>1. \A i \in DOMAIN t : t[i] \in SentChars
            OBVIOUS
        <3> QED
            BY <3>1
    <2>2. [i \in DOMAIN t |-> take[t[i]]]
            = [i \in DOMAIN t |-> IF t[i] = "r" THEN <<>> ELSE <<t[i]>>]
        BY <2>1
    <2> QED
        BY <2>2 DEF MemoFromForm, Flat
<1> HIDE DEF send, take
<1>12. \A u, v \in Seq(SentChars) : Flat(u \o v, take) = Flat(u, take) \o Flat(v, take)
    BY <1>2, FlatConcat
<1> DEFINE Same == {t \in Seq(Chars) : Flat(Flat(t, send), take) = t}
<1>6. \A t \in Seq(Chars) : Flat(t, send) \in Seq(SentChars) /\ Flat(<<>>, send) = <<>>
    BY <1>1, FlatType
<1>7. <<>> \in Same
    <2>1. <<>> \in Seq(Chars) /\ <<>> \in Seq(SentChars)
        OBVIOUS
    <2>2. Flat(<<>>, take) = <<>>
        BY <1>2, <2>1, FlatType
    <2> QED
        BY <1>6, <2>1, <2>2
<1>8. ASSUME NEW t \in Seq(Chars), NEW c \in Chars, t \in Same
      PROVE  Append(t, c) \in Same
    <2>1. Flat(Append(t, c), send) = Flat(t, send) \o send[c]
        BY <1>1, FlatAppend
    <2>2. send[c] \in Seq(SentChars) /\ Flat(t, send) \in Seq(SentChars)
        BY <1>1, <1>6
    <2>4. Flat(Flat(t, send), take) = t /\ Flat(send[c], take) = <<c>>
        BY <1>3, <1>8
    <2>5. t \o <<c>> = Append(t, c) /\ Append(t, c) \in Seq(Chars)
        OBVIOUS
    <2> QED
        BY <1>12, <2>1, <2>2, <2>4, <2>5
<1> HIDE DEF Same
<1>9. \A t \in Seq(Chars) : t \in Same
    BY <1>7, <1>8, InductiveSeqs
<1>10. Flat(Flat(text, send), take) = text
    BY <1>9 DEF Same
<1>11. TruncateChars(text, MemoMax) = text
    <2>1. Len(text) \in Nat /\ Length(text) \in Nat /\ Len(text) <= Length(text)
        BY CharsAreSent, LengthOfText
    <2>2. Len(text) <= MemoMax
        BY <2>1, MemoAssumption
    <2> QED
        BY <2>2 DEF TruncateChars
<1> QED
    BY <1>4, <1>5, <1>6, <1>10, <1>11

\* YNAB keeps the whole of a text that fits, whichever way it counts.
LEMMA KeptWhole ==
    ASSUME NEW text \in Seq(Chars), Length(text) <= MemoMax
    PROVE  Stored(text) = text
<1>1. Len(text) \in Nat /\ Length(text) \in Nat /\ Len(text) <= Length(text)
    BY CharsAreSent, LengthOfText
<1>2. Len(text) <= MemoMax
    BY <1>1, MemoAssumption
<1> QED
    BY <1>2 DEF Stored, TruncateChars, TruncateBytes

\* What ends in a marker is marked.
LEMMA EndsMarked ==
    ASSUME NEW s \in Seq(Chars), NEW action \in Actions
    PROVE  IsMarked(s \o Marker(action))
<1> DEFINE mk == Marker(action)
<1>1. /\ mk \in Seq(Chars) /\ Len(s) \in Nat /\ Len(mk) \in Nat
      /\ Len(s \o mk) = Len(s) + Len(mk)
      /\ \A i \in 1..Len(mk) : (s \o mk)[Len(s) + i] = mk[i]
    <2>1. mk \in Seq(Chars)
        BY Markers
    <2> HIDE DEF mk
    <2> QED
        BY <2>1
<1>2. ASSUME NEW found, NEW n \in 1..(Len(mk) - 1), found = <<mk[n], mk[n + 1]>>
      PROVE  Holds(s \o mk, found)
    <2> HIDE DEF mk
    <2> DEFINE t == s \o mk
               j == Len(s) + n
    <2>1. t \in Seq(Chars) /\ j \in 1..(Len(t) - 1)
        BY <1>1
    <2>2. t[j] = mk[n] /\ t[j + 1] = mk[n + 1]
        <3>1. n \in 1..Len(mk) /\ n + 1 \in 1..Len(mk) /\ j + 1 = Len(s) + (n + 1)
            BY <1>1
        <3> QED
            BY <1>1, <3>1
    <2> HIDE DEF t, j
    <2>3. SubSeq(t, j, j + 1) = <<t[j], t[j + 1]>>
        BY <2>1, PairAt
    <2>4. Len(found) = 2
        BY <1>2
    <2>5. j \in 1..(Len(t) - Len(found) + 1) /\ j + Len(found) - 1 = j + 1
        BY <2>1, <2>4
    <2> QED
        BY <1>2, <2>2, <2>3, <2>5 DEF Holds, t
<1>3. CASE action = "convert"
    <2>1. mk = <<"#", "(", ")">>
        BY <1>3 DEF Marker
    <2>2. Len(mk) = 3 /\ mk[2] = "(" /\ mk[2 + 1] = ")"
        BY <2>1
    <2> HIDE DEF mk
    <2>3. 2 \in 1..(Len(mk) - 1) /\ <<"(", ")">> = <<mk[2], mk[2 + 1]>>
        BY <2>2
    <2>4. Holds(s \o mk, <<"(", ")">>)
        BY <1>2, <2>3
    <2> QED
        BY <2>4 DEF IsMarked, mk
<1>4. CASE action = "already"
    <2>1. mk = <<"~", " ", "#", "(", ")">>
        BY <1>4 DEF Marker
    <2>2. Len(mk) = 5 /\ mk[4] = "(" /\ mk[4 + 1] = ")"
        <3>1. /\ Len(<<"~", " ", "#", "(", ")">>) = 5
              /\ <<"~", " ", "#", "(", ")">>[4] = "("
              /\ <<"~", " ", "#", "(", ")">>[5] = ")"
            BY ShortSeqs, Zenon
        <3>2. 4 + 1 = 5
            OBVIOUS
        <3> QED
            BY <2>1, <3>1, <3>2, Zenon
    <2> HIDE DEF mk
    <2>3. 4 \in 1..(Len(mk) - 1) /\ <<"(", ")">> = <<mk[4], mk[4 + 1]>>
        BY <2>2
    <2>4. Holds(s \o mk, <<"(", ")">>)
        BY <1>2, <2>3
    <2> QED
        BY <2>4 DEF IsMarked, mk
<1>5. CASE action = "skip"
    <2>1. mk = <<"[", "]">>
        BY <1>5 DEF Marker
    <2>2. Len(mk) = 2 /\ mk[1] = "[" /\ mk[1 + 1] = "]"
        BY <2>1
    <2> HIDE DEF mk
    <2>3. 1 \in 1..(Len(mk) - 1) /\ <<"[", "]">> = <<mk[1], mk[1 + 1]>>
        BY <2>2
    <2>4. Holds(s \o mk, <<"[", "]">>)
        BY <1>2, <2>3
    <2> QED
        BY <2>4 DEF IsMarked, mk
<1> QED
    BY <1>3, <1>4, <1>5 DEF Actions

-----------------------------------------------------------------------------
(* Rates *)

\* The rates of the days before, from the i-th on, as RateFor looks at them.
Looks(f, day) ==
    f = [i \in 0..(Lookback + 1) |->
            IF i = Lookback + 1 THEN NoRate
            ELSE IF Fetched(day - i) # NoRate THEN Fetched(day - i)
            ELSE f[i + 1]]

\* There is such a function: the first day from the i-th on with a quote.
LEMMA LooksExists ==
    ASSUME NEW day \in Int
    PROVE  \E f : Looks(f, day)
<1> DEFINE N == Lookback + 1
           Q(i) == {k \in i..Lookback : Fetched(day - k) # NoRate}
           First(i) == CHOOSE k \in Q(i) : \A m \in Q(i) : k <= m
           f == [i \in 0..N |-> IF Q(i) = {} THEN NoRate ELSE Fetched(day - First(i))]
<1>1. Lookback \in Nat /\ N \in Nat /\ N \in 0..N
    BY RateAssumption
<1>2. Q(N) = {}
    BY <1>1
<1>3. ASSUME NEW i \in 0..Lookback
      PROVE  f[i] = IF Fetched(day - i) # NoRate THEN Fetched(day - i) ELSE f[i + 1]
    <2>1. i \in 0..N /\ i + 1 \in 0..N /\ i \in i..Lookback
        BY <1>1
    <2>2. \A k \in i..Lookback : k = i \/ k \in (i + 1)..Lookback
        BY <1>1
    <2>3. CASE Fetched(day - i) # NoRate
        <3>1. i \in Q(i) /\ \A m \in Q(i) : i <= m
            BY <2>1, <2>3
        <3>2. \A k \in Q(i) : (\A m \in Q(i) : k <= m) => k = i
            BY <1>1, <3>1
        <3>3. First(i) = i
            BY <3>1, <3>2
        <3> HIDE DEF First, Q
        <3> QED
            BY <2>1, <2>3, <3>1, <3>3
    <2>4. CASE Fetched(day - i) = NoRate
        <3>1. Q(i) = Q(i + 1)
            BY <1>1, <2>2, <2>4
        <3>2. f[i] = f[i + 1]
            <4> HIDE DEF Q
            <4> QED
                BY <2>1, <3>1
        <3> HIDE DEF f
        <3> QED
            BY <2>4, <3>2
    <2> HIDE DEF f
    <2> QED
        BY <2>3, <2>4
<1>4. f[N] = NoRate
    BY <1>1, <1>2
<1>5. f = [i \in 0..N |-> f[i]]
    OBVIOUS
<1> HIDE DEF f
<1>6. \A i \in 0..N : f[i] = IF i = N THEN NoRate
                             ELSE IF Fetched(day - i) # NoRate THEN Fetched(day - i)
                             ELSE f[i + 1]
    <2> HIDE DEF Q, First
    <2>1. \A i \in 0..(Lookback + 1) :
            i = Lookback + 1 \/ (i \in 0..Lookback /\ i # Lookback + 1)
        BY <1>1
    <2> QED
        BY <1>3, <1>4, <2>1
<1>7. Looks(f, day)
    BY <1>5, <1>6 DEF Looks
<1> QED
    BY <1>7

\* The rate of a day is the first quote found, or there is none.
LEMMA RateFound ==
    ASSUME NEW day \in Int, case.from # case.to
    PROVE  \/ /\ RateFor(day) = NoRate
              /\ \A i \in 0..Lookback : Fetched(day - i) = NoRate
           \/ \E i \in 0..Lookback :
                /\ RateFor(day) = Fetched(day - i)
                /\ Fetched(day - i) # NoRate
                /\ \A j \in 0..Lookback : j < i => Fetched(day - j) = NoRate
<1> DEFINE N == Lookback + 1
           look == CHOOSE f : Looks(f, day)
           S == {i \in 0..N : i = N \/ Fetched(day - i) # NoRate}
<1>1. Looks(look, day)
    BY LooksExists
<1>2. RateFor(day) = look[0]
    BY DEF RateFor, Looks
<1> HIDE DEF look
<1>3. Lookback \in Nat /\ N \in Nat /\ N \in 0..N
    BY RateAssumption
<1>4. \A i \in 0..N : look[i] = IF i = N THEN NoRate
                                ELSE IF Fetched(day - i) # NoRate THEN Fetched(day - i)
                                ELSE look[i + 1]
    BY <1>1 DEF Looks
<1>5. PICK m \in S : \A i \in S : m <= i
    <2>1. S \in SUBSET Nat /\ N \in S
        BY <1>3
    <2> HIDE DEF S
    <2> QED
        BY <2>1, LeastNat
<1>6. m \in 0..N /\ \A i \in 0..Lookback : i < m => Fetched(day - i) = NoRate /\ i \in 0..N /\ i # N
    <2>1. \A i \in 0..Lookback : i \in 0..N /\ i # N
        BY <1>3
    <2>2. \A i \in 0..Lookback : i < m => ~(m <= i)
        BY <1>3, <1>5
    <2>3. m \in 0..N
        BY <1>5
    <2> QED
        BY <1>5, <2>1, <2>2, <2>3
<1> DEFINE Same == {k \in Nat : k <= m => look[0] = look[k]}
<1>7. 0 \in Same
    OBVIOUS
<1>8. ASSUME NEW k \in Nat, k \in Same
      PROVE  k + 1 \in Same
    <2> SUFFICES ASSUME k + 1 <= m
                 PROVE  look[0] = look[k + 1]
        OBVIOUS
    <2>1. k \in 0..Lookback /\ k < m /\ k <= m
        BY <1>3, <1>6
    <2>2. look[k] = look[k + 1]
        BY <1>4, <1>6, <2>1
    <2> QED
        BY <1>8, <2>1, <2>2
<1> HIDE DEF Same
<1>9. \A k \in Nat : k \in Same
    BY <1>7, <1>8, InductiveSet
<1>10. look[0] = look[m]
    <2>1. m \in Nat /\ m <= m
        BY <1>3, <1>6
    <2> QED
        BY <1>9, <2>1 DEF Same
<1>11. CASE m = N
    <2>1. \A i \in 0..Lookback : i < m
        BY <1>3, <1>11
    <2>2. look[m] = NoRate
        BY <1>4, <1>6, <1>11
    <2> QED
        BY <1>2, <1>6, <1>10, <2>1, <2>2
<1>12. CASE m # N
    <2>1. m \in 0..Lookback
        BY <1>3, <1>6, <1>12
    <2>2. Fetched(day - m) # NoRate
        BY <1>5, <1>12
    <2>3. look[m] = Fetched(day - m)
        BY <1>4, <1>6, <1>12, <2>2
    <2> QED
        BY <1>2, <1>6, <1>10, <2>1, <2>2, <2>3
<1> QED
    BY <1>11, <1>12

\* The window of quotes asked for is all that any of the days looks at.
LEMMA WindowCovers ==
    ASSUME case \in Cases, NEW p \in Pending, NEW i \in 0..Lookback
    PROVE  /\ p \in Int
           /\ Fetched(p - i) = IF p - i \in DOMAIN case.quotes
                               THEN case.quotes[p - i] ELSE NoRate
<1>1. /\ case.day \in Int /\ case.others \subseteq Int /\ IsFiniteSet(case.others)
      /\ Lookback \in Nat
    BY CaseAssumption, RateAssumption
<1>2. Pending \in SUBSET Int /\ Pending # {} /\ IsFiniteSet(Pending)
    <2>1. IsFiniteSet({case.day} \cup case.others)
        BY <1>1, FS_Singleton, FS_Union
    <2> QED
        BY <1>1, <2>1 DEF Pending
<1>3. /\ \E n \in Pending : \A m \in Pending : n <= m
      /\ \E n \in Pending : \A m \in Pending : n >= m
    BY <1>2, FiniteEnds
<1>4. Earliest \in Pending /\ Earliest <= p
    BY <1>3 DEF Earliest
<1>5. Latest \in Pending /\ Latest >= p
    BY <1>3 DEF Latest
<1>6. p \in Int /\ Earliest \in Int /\ Latest \in Int
    BY <1>2, <1>4, <1>5
<1>7. Earliest - Lookback <= p - i /\ p - i <= Latest
    BY <1>1, <1>4, <1>5, <1>6
<1> QED
    BY <1>6, <1>7 DEF Fetched

\* The rate of one of the days is the last quote up to it.
LEMMA RateOfDay ==
    ASSUME case \in Cases, NEW p \in Pending, case.from # case.to
    PROVE  \/ RateFor(p) = NoRate /\ QuotedBefore(p) = {}
           \/ \E d \in QuotedBefore(p) :
                /\ \A e \in QuotedBefore(p) : e <= d
                /\ RateFor(p) = case.quotes[d]
<1>1. p \in Int /\ Lookback \in Nat
    <2>1. 0 \in 0..Lookback /\ Lookback \in Nat
        BY RateAssumption
    <2> QED
        BY <2>1, WindowCovers
<1>2. \A e \in QuotedBefore(p) :
        /\ e \in Int /\ p - e \in 0..Lookback /\ p - (p - e) = e
        /\ Fetched(p - (p - e)) = case.quotes[e] /\ case.quotes[e] # NoRate
    <2> SUFFICES ASSUME NEW e \in QuotedBefore(p)
                 PROVE  /\ e \in Int /\ p - e \in 0..Lookback /\ p - (p - e) = e
                        /\ Fetched(p - (p - e)) = case.quotes[e] /\ case.quotes[e] # NoRate
        OBVIOUS
    <2>1. /\ e \in (p - Lookback)..p /\ e \in DOMAIN case.quotes
          /\ case.quotes[e] # NoRate
        BY DEF QuotedBefore
    <2>2. e \in Int /\ p - e \in 0..Lookback /\ p - (p - e) = e
        BY <1>1, <2>1
    <2>3. Fetched(p - (p - e)) = case.quotes[e]
        BY <2>1, <2>2, WindowCovers
    <2> QED
        BY <2>1, <2>2, <2>3
<1>3. CASE /\ RateFor(p) = NoRate
           /\ \A i \in 0..Lookback : Fetched(p - i) = NoRate
    <2>1. ASSUME NEW e \in QuotedBefore(p) PROVE FALSE
        <3>1. p - e \in 0..Lookback /\ Fetched(p - (p - e)) # NoRate
            BY <1>2
        <3> QED
            BY <1>3, <3>1
    <2> QED
        BY <1>3, <2>1
<1>4. ASSUME NEW i \in 0..Lookback,
             RateFor(p) = Fetched(p - i), Fetched(p - i) # NoRate,
             \A j \in 0..Lookback : j < i => Fetched(p - j) = NoRate
      PROVE  \E d \in QuotedBefore(p) :
                /\ \A e \in QuotedBefore(p) : e <= d
                /\ RateFor(p) = case.quotes[d]
    <2> DEFINE d == p - i
    <2>1. d \in DOMAIN case.quotes /\ Fetched(d) = case.quotes[d] /\ case.quotes[d] # NoRate
        BY <1>4, WindowCovers
    <2>2. d \in (p - Lookback)..p
        BY <1>1
    <2>3. d \in QuotedBefore(p)
        BY <2>1, <2>2 DEF QuotedBefore
    <2>4. ASSUME NEW e \in QuotedBefore(p)
          PROVE  e <= d
        <3>1. e \in Int /\ p - e \in 0..Lookback /\ Fetched(p - (p - e)) # NoRate
            BY <1>2
        <3>2. ~(p - e < i)
            BY <1>4, <3>1
        <3> QED
            BY <1>1, <3>1, <3>2
    <2> QED
        BY <1>4, <2>1, <2>3, <2>4
<1> QED
    BY <1>1, <1>3, <1>4, RateFound

-----------------------------------------------------------------------------
\* The amounts of a row are those of its transaction at its rate.
AmountInv ==
    /\ case \in Cases
    /\ amount \in Int
    /\ row # NoRow \/ phase = "shown" =>
        /\ row.rate \in Nat \ {0}
        /\ row.amount = Converted(amount, row.rate, case.to)
        /\ row.equivalent = Equivalent(amount, row.rate, case.from)

\* So they are nearest.
LEMMA RowNearest ==
    ASSUME AmountInv, row # NoRow \/ phase = "shown"
    PROVE  AmountsAreNearest /\ row.amount \in Int
<1>1. row.rate \in Nat \ {0} /\ amount \in Int
    BY DEF AmountInv
<1>2. Quantum(case.to) \in {10, 1000} /\ Quantum(case.from) \in {10, 1000}
    BY DEF Quantum
<1>3. /\ amount * row.rate \in Int /\ amount * One \in Int
      /\ One * Quantum(case.to) \in Nat \ {0}
      /\ row.rate * Quantum(case.from) \in Nat \ {0}
    BY <1>1, <1>2, RateAssumption
<1> DEFINE to == Quantum(case.to)
           from == Quantum(case.from)
<1>4. /\ row.amount = RoundHalfUp(amount * row.rate, One * to) * to
      /\ row.equivalent = RoundHalfUp(amount * One, row.rate * from) * from
    BY DEF AmountInv, Converted, Equivalent
<1> HIDE DEF to, from
<1>5. /\ to \in {10, 1000} /\ from \in {10, 1000}
      /\ One * to \in Nat \ {0} /\ row.rate * from \in Nat \ {0}
    BY <1>2, <1>3 DEF to, from
<1>6. /\ row.amount \in Int /\ row.amount % to = 0
      /\ IsNearest(row.amount \div to, amount * row.rate, One * to)
    <2> DEFINE n == amount * row.rate
               d == One * to
    <2>1. /\ n \in Int /\ d \in Nat \ {0} /\ to \in {10, 1000}
          /\ row.amount = RoundHalfUp(n, d) * to
        BY <1>3, <1>4, <1>5
    <2> HIDE DEF n, d
    <2> DEFINE q == RoundHalfUp(n, d)
    <2>2. q \in Int /\ IsNearest(q, n, d)
        BY <2>1, RoundNearest
    <2>3. row.amount = q * to
        BY <2>1
    <2> HIDE DEF q
    <2>4. row.amount \in Int /\ row.amount % to = 0 /\ row.amount \div to = q
        BY <2>1, <2>2, <2>3, InUnits
    <2> QED
        BY <2>2, <2>4 DEF n, d
<1>7. /\ row.equivalent % from = 0
      /\ IsNearest(row.equivalent \div from, amount * One, row.rate * from)
    <2> DEFINE n == amount * One
               d == row.rate * from
    <2>1. /\ n \in Int /\ d \in Nat \ {0} /\ from \in {10, 1000}
          /\ row.equivalent = RoundHalfUp(n, d) * from
        BY <1>3, <1>4, <1>5
    <2> HIDE DEF n, d
    <2> DEFINE q == RoundHalfUp(n, d)
    <2>2. q \in Int /\ IsNearest(q, n, d)
        BY <2>1, RoundNearest
    <2>3. row.equivalent = q * from
        BY <2>1
    <2> HIDE DEF q
    <2>4. row.equivalent \in Int /\ row.equivalent % from = 0 /\ row.equivalent \div from = q
        BY <2>1, <2>2, <2>3, InUnits
    <2> QED
        BY <2>2, <2>4 DEF n, d
<1> QED
    BY <1>6, <1>7 DEF AmountsAreNearest, to, from

\* Computing a row keeps to that, with a rate typed or without.
LEMMA ComputeKeeps ==
    ASSUME AmountInv, NEW override \in Int \cup {NoRate}, override # NoRate => override > 0,
           Compute(override), UNCHANGED <<case, memo, amount>>
    PROVE  AmountInv'
<1>1. CASE row' = NoRow /\ phase' # "shown"
    BY <1>1 DEF AmountInv
<1>2. CASE row' = Row(override) /\ \A d \in Pending : IsRate(RateFor(d))
    <2> DEFINE rate == IF override # NoRate THEN override ELSE RateFor(case.day)
    <2>1. rate \in Nat \ {0}
        BY <1>2 DEF Pending, IsRate
    <2>2. /\ Row(override).rate = rate
          /\ Row(override).amount = Converted(amount, rate, case.to)
          /\ Row(override).equivalent = Equivalent(amount, rate, case.from)
        BY DEF Row
    <2> HIDE DEF rate
    <2>3. /\ row'.rate = rate
          /\ row'.amount = Converted(amount, rate, case.to)
          /\ row'.equivalent = Equivalent(amount, rate, case.from)
        BY <1>2, <2>2
    <2> QED
        BY <2>1, <2>3 DEF AmountInv, Converted, Equivalent
<1>3. \/ row' = NoRow /\ phase' # "shown"
      \/ row' = Row(override) /\ \A d \in Pending : IsRate(RateFor(d))
    <2>1. CASE IsConvertible /\ \A d \in Pending : IsRate(RateFor(d))
        BY <2>1 DEF Compute
    <2>2. CASE ~IsConvertible
        BY <2>2 DEF Compute
    <2>3. CASE IsConvertible /\ ~\A d \in Pending : IsRate(RateFor(d))
        BY <2>3 DEF Compute
    <2> QED
        BY <2>1, <2>2, <2>3
<1> QED
    BY <1>1, <1>2, <1>3

LEMMA AmountInvHolds == Spec => []AmountInv
<1>1. Init => AmountInv
    BY CaseAssumption DEF Init, AmountInv
<1>2. AmountInv /\ [Next]_vars => AmountInv'
    <2> SUFFICES ASSUME AmountInv, [Next]_vars PROVE AmountInv'
        OBVIOUS
    <2>1. CASE Show
        BY <2>1, ComputeKeeps DEF Show
    <2>2. ASSUME NEW raw \in Raw, Recompute(raw) PROVE AmountInv'
        <3>1. /\ Override(raw) \in Int \cup {NoRate}
              /\ Override(raw) # NoRate => Override(raw) > 0
            BY RawAssumption DEF Override
        <3> QED
            BY <2>2, <3>1, ComputeKeeps DEF Recompute
    <2>3. ASSUME NEW action \in Actions, Apply(action) PROVE AmountInv'
        <3>1. row.amount \in Int
            BY <2>3, RowNearest DEF Apply
        <3> QED
            BY <2>3, <3>1 DEF Apply, AmountInv
    <2>4. CASE UNCHANGED vars
        BY <2>4 DEF vars, AmountInv, Converted, Equivalent, Quantum
    <2> QED
        BY <2>1, <2>2, <2>3, <2>4 DEF Next
<1> QED
    BY <1>1, <1>2, PTL DEF Spec

\* Whatever is typed and applied, in whatever order, what a preview shows and a
\* conversion writes is the exact amount, rounded to the nearest unit.
THEOREM AmountsAlwaysNearest == Spec => []AmountsAreNearest
<1>1. AmountInv => AmountsAreNearest
    BY RowNearest DEF AmountsAreNearest
<1> QED
    BY <1>1, AmountInvHolds, PTL

-----------------------------------------------------------------------------
\* The memo is the one there was at first or, once a row has been applied, that
\* one with the marker; a row holds what each action makes of the memo, and a
\* transaction that has been applied is in no row.
MemoInv ==
    /\ case \in Cases
    /\ phase \in {"fetched", "shown", "failed", "excluded"}
    /\ written \in Actions \cup {"no"}
    /\ written = "no" => memo = case.memo
    /\ written # "no" => memo = AppendMarker(case.memo, Marker(written)) /\ phase # "shown"
    /\ phase = "shown" =>
         \A a \in Actions : row.memos[a] = AppendMarker(memo, Marker(a))

\* So a transaction that has been applied is marked.
LEMMA WrittenIsMarked ==
    ASSUME MemoInv
    PROVE  /\ memo \in Seq(Chars) /\ case.memo \in Seq(Chars)
           /\ written # "no" => IsMarked(memo)
<1>1. case.memo \in Seq(Chars)
    BY CaseAssumption DEF MemoInv
<1>2. CASE written = "no"
    BY <1>1, <1>2 DEF MemoInv
<1>3. CASE written # "no"
    <2>1. written \in Actions /\ memo = AppendMarker(case.memo, Marker(written))
        BY <1>3 DEF MemoInv
    <2>2. memo \in Seq(Chars) /\ \E s \in Seq(Chars) : memo = s \o Marker(written)
        BY <1>1, <2>1, AppendFits
    <2>3. IsMarked(memo)
        BY <2>1, <2>2, EndsMarked
    <2> QED
        BY <1>1, <2>2, <2>3
<1> QED
    BY <1>2, <1>3

\* A row is only computed of a transaction that has not been applied.
LEMMA ComputeKeepsMemo ==
    ASSUME MemoInv, NEW override, Compute(override), UNCHANGED <<case, memo, written>>
    PROVE  MemoInv'
<1>1. CASE phase' \in {"failed", "excluded"}
    BY <1>1 DEF MemoInv
<1>2. CASE IsConvertible /\ phase' = "shown" /\ row' = Row(override)
    <2>1. written = "no" /\ memo = case.memo
        BY <1>2, WrittenIsMarked DEF IsConvertible, MemoInv
    <2>2. \A a \in Actions : Row(override).memos[a] = AppendMarker(memo, Marker(a))
        BY DEF Row
    <2>3. \A a \in Actions : row'.memos[a] = AppendMarker(memo', Marker(a))
        BY <1>2, <2>2
    <2> QED
        BY <1>2, <2>1, <2>3 DEF MemoInv
<1>3. \/ phase' \in {"failed", "excluded"}
      \/ IsConvertible /\ phase' = "shown" /\ row' = Row(override)
    <2>1. CASE ~IsConvertible
        BY <2>1 DEF Compute
    <2>2. CASE IsConvertible /\ \A d \in Pending : IsRate(RateFor(d))
        BY <2>2 DEF Compute
    <2>3. CASE IsConvertible /\ ~\A d \in Pending : IsRate(RateFor(d))
        BY <2>3 DEF Compute
    <2> QED
        BY <2>1, <2>2, <2>3
<1> QED
    BY <1>1, <1>2, <1>3

LEMMA MemoInvHolds == Spec => []MemoInv
<1>1. Init => MemoInv
    BY DEF Init, MemoInv, Actions
<1>2. MemoInv /\ [Next]_vars => MemoInv'
    <2> SUFFICES ASSUME MemoInv, [Next]_vars PROVE MemoInv'
        OBVIOUS
    <2>1. CASE Show
        BY <2>1, ComputeKeepsMemo DEF Show
    <2>2. ASSUME NEW raw \in Raw, Recompute(raw) PROVE MemoInv'
        BY <2>2, ComputeKeepsMemo DEF Recompute
    <2>3. ASSUME NEW action \in Actions, Apply(action) PROVE MemoInv'
        <3> DEFINE new == AppendMarker(case.memo, Marker(action))
        <3>1. phase = "shown" /\ written = "no" /\ memo = case.memo
            BY <2>3 DEF Apply, MemoInv
        <3>2. row.memos[action] = new
            BY <3>1 DEF MemoInv
        <3>3. new \in Seq(Chars) /\ Length(new) <= MemoMax
            BY WrittenIsMarked, AppendFits
        <3> HIDE DEF new
        <3>4. Stored(MemoFromForm(Sent(new))) = new
            BY <3>3, ComesBack, KeptWhole
        <3>5. /\ memo' = new /\ written' = action /\ case' = case /\ phase' = "fetched"
            BY <2>3, <3>2, <3>4 DEF Apply
        <3>6. action # "no"
            BY DEF Actions
        <3>7. AppendMarker(case'.memo, Marker(action)) = new
            BY <3>5 DEF new
        <3> QED
            BY <3>5, <3>6, <3>7 DEF MemoInv
    <2>4. CASE UNCHANGED vars
        BY <2>4 DEF vars, MemoInv
    <2> QED
        BY <2>1, <2>2, <2>3, <2>4 DEF Next
<1> QED
    BY <1>1, <1>2, PTL DEF Spec

\* Every variable keeps its type: a memo stays a text without carriage returns,
\* although the browser puts them in, and a row has a positive rate.
THEOREM TypeCorrect == Spec => []TypeOK
<1>1. AmountInv /\ MemoInv => TypeOK
    <2> SUFFICES ASSUME AmountInv, MemoInv
                 PROVE  TypeOK
        OBVIOUS
    <2>1. memo \in Seq(Chars)
        BY WrittenIsMarked
    <2>2. row = NoRow \/ (row.rate \in Nat \ {0} /\ row.amount \in Int)
        BY RowNearest DEF AmountInv
    <2> QED
        BY <2>1, <2>2 DEF TypeOK, AmountInv, MemoInv
<1> QED
    BY <1>1, AmountInvHolds, MemoInvHolds, PTL

\* Whatever the memo was, whichever of the three memos is written, and whether
\* YNAB counts bytes or characters, the marker is still whole and keeps the
\* transaction out of the next preview (_append_marker, _memo_from_form).
THEOREM MarkerAlwaysSurvives == Spec => []MarkerSurvives
<1>1. MemoInv => MarkerSurvives
    BY WrittenIsMarked DEF MarkerSurvives, MemoInv
<1> QED
    BY <1>1, MemoInvHolds, PTL

\* Of any memo what is kept before the marker is all that fits, in bytes, and
\* ends between two characters (_truncate_bytes, _append_marker).
THEOREM KeepsAllThatFits == Spec => []KeepsWhatFits
<1>1. MemoInv => KeepsWhatFits
    <2> SUFFICES ASSUME MemoInv, written # "no"
                 PROVE  \E n \in 0..Len(case.memo) :
                          /\ Fits(case.memo, n, written)
                          /\ memo = Marked(Kept(case.memo, n), written)
        BY DEF KeepsWhatFits, Fits, Kept, Marked, Room
    <2>1. /\ written \in Actions /\ case.memo \in Seq(Chars)
          /\ memo = AppendMarker(case.memo, Marker(written))
        BY WrittenIsMarked DEF MemoInv
    <2> QED
        BY <2>1, AppendKeeps
<1> QED
    BY <1>1, MemoInvHolds, PTL

-----------------------------------------------------------------------------
\* What a row's rate and a failure mean is settled when they are computed.
RateInv == case \in Cases /\ RateIsOfTheDay /\ FailsOnlyUnquoted

LEMMA OneIsRate == IsRate(One)
BY RateAssumption DEF IsRate

\* Whatever is computed, and whatever fails, is so for the quotes there are.
LEMMA ComputeOfTheDay ==
    ASSUME RateInv, NEW override, Compute(override), case' = case
    PROVE  RateInv'
<1>1. case.day \in Pending
    BY DEF Pending
<1>2. QuotedBefore(case.day)' = QuotedBefore(case.day) /\ Pending' = Pending
      /\ \A p : QuotedBefore(p)' = QuotedBefore(p)
    BY DEF QuotedBefore, Pending
<1>3. CASE phase' = "excluded"
    BY <1>3 DEF RateInv, RateIsOfTheDay, FailsOnlyUnquoted
<1>4. CASE /\ phase' = "shown" /\ row' = Row(override)
           /\ \A d \in Pending : IsRate(RateFor(d))
    <2>1. ASSUME row'.market, case.from # case.to
          PROVE  \E d \in QuotedBefore(case.day) :
                   /\ \A e \in QuotedBefore(case.day) : e <= d
                   /\ row'.rate = case.quotes[d]
        <3>1. override = NoRate /\ row'.rate = RateFor(case.day)
            BY <1>4, <2>1 DEF Row
        <3>2. RateFor(case.day) # NoRate
            BY <1>1, <1>4 DEF IsRate
        <3>3. \E d \in QuotedBefore(case.day) :
                   /\ \A e \in QuotedBefore(case.day) : e <= d
                   /\ RateFor(case.day) = case.quotes[d]
            BY <1>1, <2>1, <3>2, RateOfDay DEF RateInv
        <3> QED
            BY <3>1, <3>3
    <2>2. RateIsOfTheDay'
        BY <1>2, <2>1 DEF RateIsOfTheDay
    <2>3. FailsOnlyUnquoted'
        BY <1>4 DEF FailsOnlyUnquoted
    <2> QED
        BY <2>2, <2>3 DEF RateInv
<1>5. CASE phase' = "failed" /\ ~\A d \in Pending : IsRate(RateFor(d))
    <2>1. PICK p \in Pending : ~IsRate(RateFor(p))
        BY <1>5
    <2>2. case.from # case.to
        BY <2>1, OneIsRate DEF RateFor
    <2>3. ASSUME NEW d \in QuotedBefore(p), \A e \in QuotedBefore(p) : e <= d
          PROVE  case.quotes[d] <= 0
        <3>1. PICK m \in QuotedBefore(p) :
                 (\A e \in QuotedBefore(p) : e <= m) /\ RateFor(p) = case.quotes[m]
            BY <2>2, <2>3, RateOfDay DEF RateInv
        <3>2. p \in Int /\ Lookback \in Nat
            <4>1. 0 \in 0..Lookback /\ Lookback \in Nat
                BY RateAssumption
            <4> QED
                BY <4>1, WindowCovers DEF RateInv
        <3>3. m \in Int /\ d \in Int /\ m <= d /\ d <= m
            BY <2>3, <3>1, <3>2 DEF QuotedBefore
        <3>4. m = d
            BY <3>3
        <3>5. case.quotes[d] \in Int /\ case.quotes[d] # NoRate
            BY CaseAssumption DEF QuotedBefore, RateInv
        <3>6. case.quotes[d] \notin Nat \ {0}
            BY <2>1, <3>1, <3>4, <3>5 DEF IsRate
        <3> QED
            BY <3>5, <3>6
    <2>4. FailsOnlyUnquoted'
        BY <1>2, <2>3 DEF FailsOnlyUnquoted
    <2>5. RateIsOfTheDay'
        BY <1>5 DEF RateIsOfTheDay
    <2> QED
        BY <2>4, <2>5 DEF RateInv
<1>6. CASE ~IsConvertible
    BY <1>3, <1>6 DEF Compute
<1>7. CASE IsConvertible /\ \A d \in Pending : IsRate(RateFor(d))
    BY <1>4, <1>7 DEF Compute
<1>8. CASE IsConvertible /\ ~\A d \in Pending : IsRate(RateFor(d))
    BY <1>5, <1>8 DEF Compute
<1> QED
    BY <1>6, <1>7, <1>8

LEMMA RateInvHolds == Spec => []RateInv
<1>1. Init => RateInv
    BY DEF Init, RateInv, RateIsOfTheDay, FailsOnlyUnquoted
<1>2. RateInv /\ [Next]_vars => RateInv'
    <2> SUFFICES ASSUME RateInv, [Next]_vars PROVE RateInv'
        OBVIOUS
    <2>1. CASE Show
        BY <2>1, ComputeOfTheDay DEF Show
    <2>2. ASSUME NEW raw \in Raw, Recompute(raw) PROVE RateInv'
        BY <2>2, ComputeOfTheDay DEF Recompute
    <2>3. ASSUME NEW action \in Actions, Apply(action) PROVE RateInv'
        BY <2>3 DEF Apply, RateInv, RateIsOfTheDay, FailsOnlyUnquoted
    <2>4. CASE UNCHANGED vars
        BY <2>4 DEF vars, RateInv, RateIsOfTheDay, FailsOnlyUnquoted, QuotedBefore, Pending
    <2> QED
        BY <2>1, <2>2, <2>3, <2>4 DEF Next
<1> QED
    BY <1>1, <1>2, PTL DEF Spec

\* The window of quotes fetched for all the days together is enough: a row's
\* rate is the last of all quotes up to its day, however the days lie and
\* however far back is looked (get_rates, rate_for).
THEOREM RateAlwaysOfTheDay == Spec => []RateIsOfTheDay
<1>1. RateInv => RateIsOfTheDay
    BY DEF RateInv
<1> QED
    BY <1>1, RateInvHolds, PTL

\* No preview fails while every day has a rate that is not refused: none is
\* missed because of what else was asked for (get_rates, rate_for).
THEOREM FailsForWantOnly == Spec => []FailsOnlyUnquoted
<1>1. RateInv => FailsOnlyUnquoted
    BY DEF RateInv
<1> QED
    BY <1>1, RateInvHolds, PTL
===============================================================================
