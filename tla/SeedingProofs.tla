----------------------------- MODULE SeedingProofs -----------------------------
(***************************************************************************)
(* What is generated, posted and listed, for any words, draws, posts and    *)
(* sizes.                                                                   *)
(***************************************************************************)
EXTENDS SeedingProperties, NumbersProofs

-----------------------------------------------------------------------------
(* Numbers as they are written. *)

\* The characters that a column takes, and the texts made of them.
PlainChars == Symbols \ {Nul}
PlainText == Seq(PlainChars)

LEMMA WrittenChars ==
    /\ Digits \subseteq PlainChars /\ AsciiLetters \subseteq PlainChars
    /\ {"-", "_", "'", Space} \cup {"c", "e", "h", "m", "r", "s", "t"} \subseteq PlainChars
BY MerchantsAssumption, SymbolsAssumption DEF PlainChars, Literals

LEMMA FitsIsPlain ==
    ASSUME NEW text
    PROVE  text \in Text /\ FitsText(text) <=> text \in PlainText
<1>1. ASSUME text \in Text, FitsText(text)
      PROVE  text \in PlainText
  <2>1. /\ Len(text) \in Nat /\ DOMAIN text = 1..Len(text) /\ text \in [1..Len(text) -> Symbols]
    BY <1>1, LenProperties DEF Text
  <2>2. \A i \in 1..Len(text) : text[i] \in PlainChars
    BY <1>1, <2>1 DEF FitsText, PlainChars
  <2>3. text \in [1..Len(text) -> PlainChars]
    BY <2>1, <2>2
  <2> QED BY <2>1, <2>3 DEF PlainText
<1>2. ASSUME text \in PlainText
      PROVE  text \in Text /\ FitsText(text)
  <2>1. /\ Len(text) \in Nat /\ DOMAIN text = 1..Len(text)
        /\ text \in [1..Len(text) -> PlainChars]
    BY <1>2, LenProperties DEF PlainText
  <2>2. text \in [1..Len(text) -> Symbols] /\ \A i \in DOMAIN text : text[i] # Nul
    BY <2>1 DEF PlainChars
  <2> QED BY <2>1, <2>2 DEF Text, FitsText
<1> QED BY <1>1, <1>2

LEMMA CharOfDigit ==
    ASSUME NEW n \in 0..9
    PROVE  NumberChars[n + 1] \in PlainChars
<1>1. n = 0 \/ n = 1 \/ n = 2 \/ n = 3 \/ n = 4 \/ n = 5 \/ n = 6 \/ n = 7 \/ n = 8 \/ n = 9
  OBVIOUS
<1>2. NumberChars[n + 1] \in Digits
  BY <1>1 DEF NumberChars, Digits
<1> QED BY <1>2, WrittenChars

LEMMA Tenth ==
    ASSUME NEW n \in Nat
    PROVE  /\ n \div 10 \in Nat /\ n % 10 \in 0..9
           /\ n = 10 * (n \div 10) + (n % 10)
           /\ n >= 10 => n \div 10 < n
<1>1. n \div 10 \in Int /\ n % 10 \in Int
  OBVIOUS
<1>2. n = 10 * (n \div 10) + (n % 10) /\ 0 <= n % 10 /\ n % 10 < 10
  OBVIOUS
<1> DEFINE q == n \div 10
           r == n % 10
<1>3. q \in Int /\ r \in Int /\ n = 10 * q + r /\ 0 <= r /\ r < 10
  BY <1>1, <1>2
<1> HIDE DEF q, r
<1>4. q \in Nat /\ r \in 0..9 /\ (n >= 10 => q < n)
  BY <1>3
<1> QED BY <1>3, <1>4 DEF q, r

\* Digits are put after those of a tenth.
LEMMA WrittenIs ==
    ASSUME NEW n \in Nat
    PROVE  /\ Written(n) \in PlainText
           /\ n < 10 => Written(n) = <<NumberChars[n + 1]>>
           /\ n >= 10 => Written(n) = Append(Written(n \div 10), NumberChars[(n % 10) + 1])
<1> DEFINE rank == [i \in Nat |-> i]
           base == [i \in 0..9 |-> <<NumberChars[i + 1]>>]
           down == [i \in Nat |-> i \div 10]
           step == [p \in Nat \X PlainText |-> Append(p[2], NumberChars[(p[1] % 10) + 1])]
           Digs(d) == d = [i \in Nat |-> IF i < 10 THEN <<NumberChars[i + 1]>>
                              ELSE Append(d[i \div 10], NumberChars[(i % 10) + 1])]
<1>1. rank \in [Nat -> Nat]
  OBVIOUS
<1>a. ASSUME NEW i \in 0..9
      PROVE  <<NumberChars[i + 1]>> \in PlainText
  BY CharOfDigit DEF PlainText
<1>2. \A i \in Nat \cap 0..9 : base[i] \in PlainText
  BY <1>a
<1>3. \A i \in Nat \ 0..9 : down[i] \in Nat /\ rank[down[i]] < rank[i]
  OBVIOUS
<1>4. ASSUME NEW i \in Nat, NEW v \in PlainText
      PROVE  /\ step[<<i, v>>] = Append(v, NumberChars[(i % 10) + 1])
             /\ step[<<i, v>>] \in PlainText
  <2>1. <<i, v>> \in Nat \X PlainText
    OBVIOUS
  <2>2. step[<<i, v>>] = Append(v, NumberChars[(i % 10) + 1])
    BY <2>1
  <2>3. i % 10 \in 0..9
    OBVIOUS
  <2>4. Append(v, NumberChars[(i % 10) + 1]) \in PlainText
    BY <2>3, CharOfDigit DEF PlainText
  <2> QED BY <2>2, <2>4
<1>5. PICK f \in [Nat -> PlainText] : Computes(f, 0..9, base, down, step)
  <2>1. \A i \in Nat \ 0..9 : \A v \in PlainText : step[<<i, v>>] \in PlainText
    BY <1>4
  <2> DEFINE D == Nat
             leaves == 0..9
  <2>2. /\ rank \in [D -> Nat]
        /\ \A d \in D \cap leaves : base[d] \in PlainText
        /\ \A d \in D \ leaves : down[d] \in D /\ rank[down[d]] < rank[d]
        /\ \A d \in D \ leaves : \A v \in PlainText : step[<<d, v>>] \in PlainText
    BY <1>1, <1>2, <1>3, <2>1
  <2> HIDE DEF rank, base, down, step, D, leaves
  <2>3. \E f \in [D -> PlainText] : Computes(f, leaves, base, down, step)
    BY <2>2, RecursionExists
  <2> QED BY <2>3 DEF D, leaves
<1>6. ASSUME NEW i \in Nat
      PROVE  f[i] = IF i < 10 THEN <<NumberChars[i + 1]>>
                    ELSE Append(f[i \div 10], NumberChars[(i % 10) + 1])
  <2>1. f[i] = IF i \in 0..9 THEN base[i] ELSE step[<<i, f[down[i]]>>]
    BY <1>5 DEF Computes
  <2>2. down[i] = i \div 10 /\ f[i \div 10] \in PlainText
    OBVIOUS
  <2>3. i < 10 <=> i \in 0..9
    OBVIOUS
  <2>4. step[<<i, f[i \div 10]>>] = Append(f[i \div 10], NumberChars[(i % 10) + 1])
    <3> HIDE DEF step
    <3> QED BY <1>4, <2>2
  <2>5. i \in 0..9 => base[i] = <<NumberChars[i + 1]>>
    OBVIOUS
  <2> HIDE DEF step, down, base
  <2> QED BY <2>1, <2>2, <2>3, <2>4, <2>5
<1>7. Digs(f)
  BY <1>6
<1> DEFINE c == CHOOSE d : Digs(d)
<1>8. Digs(c)
  <2> HIDE DEF Digs
  <2> QED BY <1>7
<1>9. \A i \in Nat : Written(i) = c[i]
  BY DEF Written
<1>10. \A i \in Nat : c[i] = IF i < 10 THEN <<NumberChars[i + 1]>>
                    ELSE Append(c[i \div 10], NumberChars[(i % 10) + 1])
  <2> HIDE DEF c
  <2> QED BY <1>8
<1> HIDE DEF c, Digs
<1>11. \A i \in Nat : c[i] \in PlainText
  <2> DEFINE T == {i \in Nat : c[i] \in PlainText}
  <2>1. ASSUME NEW i \in Nat, \A e \in Nat : rank[e] < rank[i] => e \in T
        PROVE  i \in T
    <3>1. CASE i < 10
      <4>1. c[i] = <<NumberChars[i + 1]>>
        BY <1>10, <3>1
      <4>2. i \in 0..9
        BY <3>1
      <4> QED BY <1>a, <4>1, <4>2
    <3>2. CASE i >= 10
      <4>1. i \div 10 \in Nat /\ i \div 10 < i /\ i % 10 \in 0..9
        BY <3>2, Tenth
      <4>2. c[i \div 10] \in PlainText
        BY <2>1, <4>1
      <4>3. c[i] = Append(c[i \div 10], NumberChars[(i % 10) + 1])
        <5>1. ~ (i < 10)
          BY <3>2
        <5> QED BY <1>10, <5>1
      <4>4. NumberChars[(i % 10) + 1] \in PlainChars
        BY <4>1, CharOfDigit
      <4>5. c[i] \in PlainText
        BY <4>2, <4>3, <4>4 DEF PlainText
      <4> QED BY <4>5
    <3> QED BY <3>1, <3>2
  <2>2. Nat \subseteq T
    <3> HIDE DEF rank, T
    <3> QED BY <1>1, <2>1, RankInduction
  <2> QED BY <2>2
<1>12. n \div 10 \in Nat /\ (n >= 10 => ~ (n < 10))
  BY Tenth
<1> QED BY <1>9, <1>10, <1>11, <1>12

\* A number of one digit has one character, a larger one has more.
LEMMA WrittenLength ==
    ASSUME NEW n \in Nat
    PROVE  /\ Len(Written(n)) \in Nat /\ Len(Written(n)) >= 1
           /\ n < 10 <=> Len(Written(n)) = 1
<1>1. CASE n < 10
  <2>1. Written(n) = <<NumberChars[n + 1]>>
    BY <1>1, WrittenIs
  <2> QED BY <1>1, <2>1
<1>2. CASE ~ (n < 10)
  <2> DEFINE rank == [i \in Nat |-> i]
             T == {i \in Nat : Len(Written(i)) \in Nat /\ Len(Written(i)) >= 1}
  <2>1. rank \in [Nat -> Nat]
    OBVIOUS
  <2>2. ASSUME NEW i \in Nat, \A e \in Nat : rank[e] < rank[i] => e \in T
        PROVE  i \in T
    <3>1. Written(i) \in PlainText
      BY WrittenIs
    <3>2. CASE i < 10
      <4>1. Written(i) = <<NumberChars[i + 1]>>
        BY <3>2, WrittenIs
      <4> QED BY <4>1
    <3>3. CASE i >= 10
      <4>1. Written(i) = Append(Written(i \div 10), NumberChars[(i % 10) + 1])
        BY <3>3, WrittenIs
      <4>2. i \div 10 \in Nat /\ i % 10 \in 0..9
        BY Tenth
      <4>3. Written(i \div 10) \in PlainText /\ NumberChars[(i % 10) + 1] \in PlainChars
        BY <4>2, WrittenIs, CharOfDigit
      <4>4. Len(Written(i)) = Len(Written(i \div 10)) + 1 /\ Len(Written(i \div 10)) \in Nat
        BY <4>1, <4>3, AppendProperties DEF PlainText
      <4> QED BY <4>4
    <3> QED BY <3>2, <3>3
  <2>3. Nat \subseteq T
    <3> HIDE DEF rank, T
    <3> QED BY <2>1, <2>2, RankInduction
  <2>4. /\ n \div 10 \in Nat /\ n % 10 \in 0..9
        /\ Written(n) = Append(Written(n \div 10), NumberChars[(n % 10) + 1])
    <3>1. n >= 10
      BY <1>2
    <3> QED BY <3>1, Tenth, WrittenIs
  <2>5. Written(n \div 10) \in PlainText /\ NumberChars[(n % 10) + 1] \in PlainChars
    BY <2>4, WrittenIs, CharOfDigit
  <2>6. Len(Written(n)) = Len(Written(n \div 10)) + 1
    BY <2>4, <2>5, AppendProperties DEF PlainText
  <2>7. Len(Written(n \div 10)) \in Nat /\ Len(Written(n \div 10)) >= 1
    BY <2>3, <2>4
  <2> QED BY <1>2, <2>6, <2>7
<1> QED BY <1>1, <1>2

\* Different digits are different characters.
LEMMA CharsDiffer ==
    ASSUME NEW n \in 0..9, NEW m \in 0..9, NumberChars[n + 1] = NumberChars[m + 1]
    PROVE  n = m
<1> DEFINE i == n + 1
           j == m + 1
<1>1. i \in 1..10 /\ j \in 1..10 /\ NumberChars[i] = NumberChars[j]
  OBVIOUS
<1>2. i = j
  <2> HIDE DEF i, j
  <2> QED BY <1>1 DEF NumberChars
<1> QED BY <1>2

\* Different numbers are written differently.
LEMMA WrittenDiffer ==
    ASSUME NEW n \in Nat, NEW m \in Nat, Written(n) = Written(m)
    PROVE  n = m
<1> DEFINE rank == [i \in Nat |-> i]
           T == {i \in Nat : \A j \in Nat : Written(i) = Written(j) => i = j}
<1>1. rank \in [Nat -> Nat]
  OBVIOUS
<1>2. ASSUME NEW i \in Nat, \A e \in Nat : rank[e] < rank[i] => e \in T
      PROVE  i \in T
  <2> SUFFICES ASSUME NEW j \in Nat, Written(i) = Written(j)
               PROVE  i = j
    OBVIOUS
  <2>0. Written(i) = Written(j)
    OBVIOUS
  <2>1. i < 10 <=> j < 10
    BY WrittenLength
  <2>2. CASE i < 10
    <3>1. Written(i) = <<NumberChars[i + 1]>> /\ Written(j) = <<NumberChars[j + 1]>>
      BY <2>1, <2>2, WrittenIs
    <3>2. NumberChars[i + 1] = NumberChars[j + 1]
      <4> DEFINE x == NumberChars[i + 1]
                 y == NumberChars[j + 1]
      <4>1. <<x>> = <<y>>
        BY <3>1
      <4> HIDE DEF x, y
      <4>2. x = y
        BY <4>1
      <4> QED BY <4>2 DEF x, y
    <3>3. i \in 0..9 /\ j \in 0..9
      BY <2>1, <2>2
    <3> QED BY <3>2, <3>3, CharsDiffer
  <2>3. CASE i >= 10
    <3>1. /\ Written(i) = Append(Written(i \div 10), NumberChars[(i % 10) + 1])
          /\ Written(j) = Append(Written(j \div 10), NumberChars[(j % 10) + 1])
      <4>1. j >= 10
        BY <2>1, <2>3
      <4> QED BY <2>3, <4>1, WrittenIs
    <3>2. /\ i \div 10 \in Nat /\ i % 10 \in 0..9 /\ i = 10 * (i \div 10) + (i % 10)
          /\ j \div 10 \in Nat /\ j % 10 \in 0..9 /\ j = 10 * (j \div 10) + (j % 10)
          /\ i \div 10 < i
      BY <2>3, Tenth
    <3>3. /\ Written(i \div 10) \in PlainText /\ Written(j \div 10) \in PlainText
          /\ NumberChars[(i % 10) + 1] \in PlainChars /\ NumberChars[(j % 10) + 1] \in PlainChars
      BY <3>2, WrittenIs, CharOfDigit
    <3>4. /\ Written(i \div 10) = Written(j \div 10)
          /\ NumberChars[(i % 10) + 1] = NumberChars[(j % 10) + 1]
      <4> DEFINE s == Written(i \div 10)
                 t == Written(j \div 10)
                 e == NumberChars[(i % 10) + 1]
                 f == NumberChars[(j % 10) + 1]
      <4>1. /\ s \in Seq(PlainChars) /\ t \in Seq(PlainChars) /\ e \in PlainChars /\ f \in PlainChars
            /\ Append(s, e) = Append(t, f)
        BY <2>0, <3>1, <3>3 DEF PlainText
      <4> HIDE DEF s, t, e, f
      <4>2. s = t /\ e = f
        BY <4>1, AppendInjective
      <4> QED BY <4>2 DEF s, t, e, f
    <3>5. i % 10 = j % 10
      BY <3>2, <3>4, CharsDiffer
    <3>6. i \div 10 \in T
      <4>1. rank[i \div 10] < rank[i]
        BY <3>2
      <4> HIDE DEF T, rank
      <4> QED BY <1>2, <3>2, <4>1
    <3>7. i \div 10 = j \div 10
      BY <3>2, <3>4, <3>6
    <3> QED BY <3>2, <3>5, <3>7
  <2> QED BY <2>2, <2>3
<1>3. Nat \subseteq T
  <2> HIDE DEF rank, T
  <2> QED BY <1>1, <1>2, RankInduction
<1> QED BY <1>3

\* No number but zero begins with a zero.
LEMMA WrittenBegins ==
    ASSUME NEW n \in Nat, n # 0
    PROVE  Written(n)[1] # "0"
<1> DEFINE rank == [i \in Nat |-> i]
           T == {i \in Nat : i # 0 => Written(i)[1] # "0"}
<1>1. rank \in [Nat -> Nat]
  OBVIOUS
<1>2. ASSUME NEW i \in Nat, \A e \in Nat : rank[e] < rank[i] => e \in T
      PROVE  i \in T
  <2> SUFFICES ASSUME i # 0
               PROVE  Written(i)[1] # "0"
    OBVIOUS
  <2>1. CASE i < 10
    <3>1. Written(i)[1] = NumberChars[i + 1]
      BY <2>1, WrittenIs
    <3>2. NumberChars[0 + 1] = "0" /\ i \in 0..9 /\ 0 \in 0..9
      BY <2>1 DEF NumberChars
    <3> QED BY <3>1, <3>2, CharsDiffer
  <2>2. CASE i >= 10
    <3>1. Written(i) = Append(Written(i \div 10), NumberChars[(i % 10) + 1])
      BY <2>2, WrittenIs
    <3>2. i \div 10 \in Nat /\ i % 10 \in 0..9 /\ i = 10 * (i \div 10) + (i % 10)
          /\ i \div 10 < i
      BY <2>2, Tenth
    <3>3. Written(i \div 10) \in PlainText /\ NumberChars[(i % 10) + 1] \in PlainChars
          /\ Len(Written(i \div 10)) >= 1 /\ Len(Written(i \div 10)) \in Nat
      BY <3>2, WrittenIs, CharOfDigit, WrittenLength
    <3>4. Written(i)[1] = Written(i \div 10)[1]
      BY <3>1, <3>3, AppendProperties DEF PlainText
    <3>5. i \div 10 # 0
      BY <2>2, <3>2
    <3>6. i \div 10 \in T
      <4>1. rank[i \div 10] < rank[i]
        BY <3>2
      <4> HIDE DEF T, rank
      <4> QED BY <1>2, <3>2, <4>1
    <3> QED BY <3>4, <3>5, <3>6
  <2> QED BY <2>1, <2>2
<1>3. Nat \subseteq T
  <2> HIDE DEF rank, T
  <2> QED BY <1>1, <1>2, RankInduction
<1> QED BY <1>3

-----------------------------------------------------------------------------
(* Ids. *)

\* Padding puts zeros before the number.
LEMMA PaddedIs ==
    ASSUME NEW n \in Nat, NEW w \in Nat
    PROVE  LET k == Len(Written(n))
               z == IF k < w THEN w - k ELSE 0
           IN  /\ Padded(n, w) \in PlainText
               /\ k \in Nat /\ z \in Nat
               /\ Len(Padded(n, w)) = z + k
               /\ \A i \in 1..z : Padded(n, w)[i] = "0"
               /\ \A i \in 1..k : Padded(n, w)[z + i] = Written(n)[i]
<1> DEFINE k == Len(Written(n))
           z == IF k < w THEN w - k ELSE 0
           zeros == [i \in 1..(w - k) |-> "0"]
<1>1. Written(n) \in PlainText /\ k \in Nat /\ z \in Nat
  BY WrittenIs, WrittenLength
<1>2. 1..(w - k) = 1..z
  BY <1>1
<1>3. "0" \in PlainChars
  BY WrittenChars DEF Digits
<1>4. zeros \in Seq(PlainChars) /\ Len(zeros) = z /\ \A i \in 1..z : zeros[i] = "0"
  <2>1. zeros \in [1..z -> PlainChars]
    BY <1>2, <1>3
  <2>2. \A i \in 1..z : zeros[i] = "0"
    BY <1>2
  <2> HIDE DEF z, k, zeros
  <2> QED BY <1>1, <2>1, <2>2
<1>5. Padded(n, w) = zeros \o Written(n)
  BY DEF Padded
<1>6. Written(n) \in Seq(PlainChars)
  BY <1>1 DEF PlainText
<1> DEFINE s == Written(n)
<1> HIDE DEF zeros, z, k
<1>7. /\ Padded(n, w) \in Seq(PlainChars)
      /\ Len(Padded(n, w)) = z + k
      /\ \A i \in 1..z : Padded(n, w)[i] = zeros[i]
      /\ \A i \in 1..k : Padded(n, w)[z + i] = Written(n)[i]
  <2>1. s \in Seq(PlainChars) /\ Len(s) = k
    BY <1>6 DEF k
  <2> HIDE DEF s
  <2>2. /\ zeros \o s \in Seq(PlainChars)
        /\ Len(zeros \o s) = Len(zeros) + Len(s)
        /\ \A i \in 1..(Len(zeros) + Len(s)) :
              (zeros \o s)[i] = IF i <= Len(zeros) THEN zeros[i] ELSE s[i - Len(zeros)]
    BY <1>4, <2>1, ConcatProperties
  <2>3. \A i \in 1..z : (zeros \o s)[i] = zeros[i]
    BY <1>1, <1>4, <2>1, <2>2
  <2>4. \A i \in 1..k : (zeros \o s)[z + i] = s[i]
    BY <1>1, <1>4, <2>1, <2>2
  <2> QED BY <1>4, <1>5, <2>1, <2>2, <2>3, <2>4 DEF s
<1> QED BY <1>1, <1>4, <1>7 DEF PlainText, z, k

\* Different numbers are different when padded.
LEMMA PaddedDiffer ==
    ASSUME NEW n \in Nat \ {0}, NEW m \in Nat \ {0}, NEW w \in Nat,
           Padded(n, w) = Padded(m, w)
    PROVE  n = m
<1> DEFINE k == Len(Written(n))
           l == Len(Written(m))
           y == IF k < w THEN w - k ELSE 0
           z == IF l < w THEN w - l ELSE 0
           p == Padded(n, w)
<1>1. /\ k \in Nat /\ y \in Nat /\ Len(p) = y + k
      /\ \A i \in 1..y : p[i] = "0"
      /\ \A i \in 1..k : p[y + i] = Written(n)[i]
  BY PaddedIs
<1>2. /\ l \in Nat /\ z \in Nat /\ Len(p) = z + l
      /\ \A i \in 1..z : p[i] = "0"
      /\ \A i \in 1..l : p[z + i] = Written(m)[i]
  <2>1. p = Padded(m, w)
    OBVIOUS
  <2> HIDE DEF p
  <2>2. /\ l \in Nat /\ z \in Nat /\ Len(Padded(m, w)) = z + l
        /\ \A i \in 1..z : Padded(m, w)[i] = "0"
        /\ \A i \in 1..l : Padded(m, w)[z + i] = Written(m)[i]
    BY PaddedIs
  <2> QED BY <2>1, <2>2
<1>3. Written(n)[1] # "0" /\ Written(m)[1] # "0" /\ k >= 1 /\ l >= 1
  BY WrittenBegins, WrittenLength
<1>4. Written(n) \in Seq(PlainChars) /\ Written(m) \in Seq(PlainChars)
  BY WrittenIs DEF PlainText
<1>5. p[y + 1] # "0" /\ p[z + 1] # "0"
  <2> HIDE DEF y, z, k, l, p
  <2> QED BY <1>1, <1>2, <1>3
<1>6. y = z
  <2>1. ~ (y < z)
    <3> HIDE DEF y, z, k, l, p
    <3> QED BY <1>1, <1>2, <1>5
  <2>2. ~ (z < y)
    <3> HIDE DEF y, z, k, l, p
    <3> QED BY <1>1, <1>2, <1>5
  <2> HIDE DEF y, z, k, l, p
  <2> QED BY <1>1, <1>2, <2>1, <2>2
<1>7. k = l
  <2> HIDE DEF y, z, k, l, p
  <2> QED BY <1>1, <1>2, <1>6
<1>8. \A i \in 1..k : Written(n)[i] = Written(m)[i]
  <2> HIDE DEF y, z, k, l, p
  <2> QED BY <1>1, <1>2, <1>6, <1>7
<1>9. Written(n) = Written(m)
  BY <1>4, <1>7, <1>8, SeqEqual
<1> QED BY <1>9, WrittenDiffer

\* The least of some numbers.
LEMMA MinIsLeast ==
    ASSUME NEW S \in (SUBSET Nat) \ {{}}
    PROVE  Min(S) \in S /\ \A n \in S : Min(S) <= n
<1>1. \E n \in S : \A m \in S : n <= m
  BY LeastNatural
<1> QED BY <1>1 DEF Min

\* Numbers in ascending order are those that there are.
LEMMA AscendingIn ==
    ASSUME NEW n \in Nat, NEW S \in SUBSET (1..n)
    PROVE  /\ IsFiniteSet(S) /\ Cardinality(S) \in Nat
           /\ DOMAIN Ascending(S) = 1..Cardinality(S)
           /\ \A k \in 1..Cardinality(S) : Ascending(S)[k] \in S
<1> DEFINE below == [i \in S |-> {j \in S : j <= i}]
<1>1. IsFiniteSet(S)
  <2>1. IsFiniteSet(1..n)
    BY FS_Interval
  <2> QED BY <2>1, FS_Subset
<1>2. Cardinality(S) \in Nat
  BY <1>1, FS_CardinalityType
<1>3. below \in [S -> SUBSET S]
  OBVIOUS
<1>4. \A i, j \in S : i # j =>
          /\ below[i] # below[j]
          /\ below[i] \subseteq below[j] \/ below[j] \subseteq below[i]
  <2> SUFFICES ASSUME NEW i \in S, NEW j \in S, i # j
               PROVE  /\ below[i] # below[j]
                      /\ below[i] \subseteq below[j] \/ below[j] \subseteq below[i]
    OBVIOUS
  <2>0. S \subseteq Int /\ i \in Int /\ j \in Int
    OBVIOUS
  <2>1. CASE i < j
    <3>1. j \in {k \in S : k <= j} /\ j \notin {k \in S : k <= i}
      BY <2>0, <2>1
    <3>2. \A k \in Int : k <= i => k <= j
      BY <2>0, <2>1
    <3> QED BY <2>0, <3>1, <3>2
  <2>2. CASE j < i
    <3>1. i \in {k \in S : k <= i} /\ i \notin {k \in S : k <= j}
      BY <2>0, <2>2
    <3>2. \A k \in Int : k <= j => k <= i
      BY <2>0, <2>2
    <3> QED BY <2>0, <3>1, <3>2
  <2> QED BY <2>0, <2>1, <2>2
<1>5. ASSUME NEW i \in S
      PROVE  Cardinality(below[i]) \in 1..(1 + Cardinality(S) - 1)
  <2>1. IsFiniteSet(below[i]) /\ Cardinality(below[i]) <= Cardinality(S)
    BY <1>1, <1>3, FS_Subset
  <2>2. Cardinality(below[i]) \in Nat
    BY <2>1, FS_CardinalityType
  <2>3. Cardinality(below[i]) # 0
    <3>1. i \in below[i]
      OBVIOUS
    <3> HIDE DEF below
    <3> QED BY <2>1, <3>1, FS_EmptySet
  <2> HIDE DEF below
  <2> QED BY <1>2, <2>1, <2>2, <2>3
<1>6. \A k \in 1..(1 + Cardinality(S) - 1) : \E i \in S : Cardinality(below[i]) = k
  <2> DEFINE lo == 1
  <2>1. /\ lo \in Int /\ IsFiniteSet(S) /\ below \in [S -> SUBSET S]
        /\ \A x, y \in S : x # y =>
               /\ below[x] # below[y]
               /\ below[x] \subseteq below[y] \/ below[y] \subseteq below[x]
        /\ \A x \in S : Cardinality(below[x]) \in lo..(lo + Cardinality(S) - 1)
    BY <1>1, <1>3, <1>4, <1>5
  <2> HIDE DEF below, lo
  <2>2. /\ \A k \in lo..(lo + Cardinality(S) - 1) : \E x \in S : Cardinality(below[x]) = k
        /\ \A x, y \in S : Cardinality(below[x]) = Cardinality(below[y]) => x = y
    BY <2>1, RanksAreAll, Zenon
  <2> QED BY <2>2 DEF lo
<1>7. \A k \in 1..Cardinality(S) : \E i \in S : Cardinality({j \in S : j <= i}) = k
  BY <1>2, <1>6
<1>8. DOMAIN Ascending(S) = 1..Cardinality(S)
  BY DEF Ascending
<1>9. \A k \in 1..Cardinality(S) :
          Ascending(S)[k] = CHOOSE i \in S : Cardinality({j \in S : j <= i}) = k
  BY DEF Ascending
<1> QED BY <1>1, <1>2, <1>7, <1>8, <1>9

\* An id is a text, and no two numbers have the same.
LEMMA IdsDiffer ==
    ASSUME NEW n \in Nat \ {0}
    PROVE  /\ Id(n) \in PlainText
           /\ IsNonEmpty(Id(n))
           /\ \A m \in Nat \ {0} : Id(n) = Id(m) => n = m
<1> DEFINE s == <<"m", "r", "c", "_">>
<1>1. s \in Seq(PlainChars) /\ s[1] = "m" /\ Len(s) >= 1
  <2>1. "m" \in PlainChars /\ "r" \in PlainChars /\ "c" \in PlainChars /\ "_" \in PlainChars
    BY WrittenChars
  <2>2. s \in Seq(PlainChars)
    <3> DEFINE a == "m"
               b == "r"
               c == "c"
               d == "_"
    <3>1. a \in PlainChars /\ b \in PlainChars /\ c \in PlainChars /\ d \in PlainChars
      BY <2>1
    <3> HIDE DEF a, b, c, d
    <3>2. <<a, b, c, d>> \in Seq(PlainChars)
      BY <3>1
    <3> QED BY <3>2 DEF a, b, c, d
  <2>3. s[1] = "m" /\ Len(s) >= 1
    OBVIOUS
  <2> QED BY <2>2, <2>3
<1> HIDE DEF s
<1>2. \A m \in Nat : Padded(m, 4) \in Seq(PlainChars)
  BY PaddedIs DEF PlainText
<1>3. \A m \in Nat : Id(m) = s \o Padded(m, 4)
  BY DEF Id, s
<1>4. Id(n) \in Seq(PlainChars) /\ Len(Id(n)) >= 1 /\ Id(n)[1] = "m"
  <2> DEFINE t == Padded(n, 4)
  <2>1. t \in Seq(PlainChars) /\ Id(n) = s \o t
    BY <1>2, <1>3
  <2> HIDE DEF t
  <2>2. /\ s \o t \in Seq(PlainChars)
        /\ Len(s \o t) = Len(s) + Len(t)
        /\ \A i \in 1..(Len(s) + Len(t)) :
              (s \o t)[i] = IF i <= Len(s) THEN s[i] ELSE t[i - Len(s)]
    BY <1>1, <2>1, ConcatProperties
  <2>3. Len(t) \in Nat
    BY <2>1, LenProperties
  <2> QED BY <1>1, <2>1, <2>2, <2>3
<1>5. IsNonEmpty(Id(n))
  <2>1. 1 \in DOMAIN Id(n)
    BY <1>4, LenProperties
  <2>2. "m" # Space
    BY DEF Space
  <2> QED BY <1>4, <2>1, <2>2 DEF IsNonEmpty
<1>6. ASSUME NEW m \in Nat \ {0}, Id(n) = Id(m)
      PROVE  n = m
  <2> DEFINE t == Padded(n, 4)
             u == Padded(m, 4)
  <2>1. t \in Seq(PlainChars) /\ u \in Seq(PlainChars) /\ s \o t = s \o u
    BY <1>2, <1>3, <1>6
  <2>2. t = u
    <3> HIDE DEF t, u
    <3> QED BY <1>1, <2>1, ConcatSimplifications
  <2> QED BY <2>2, PaddedDiffer
<1> QED BY <1>4, <1>5, <1>6 DEF PlainText

-----------------------------------------------------------------------------
(* Addresses. *)

LEMMA SlugifyIsText ==
    ASSUME NEW text \in Text
    PROVE  Slugify(text) \in PlainText
<1> DEFINE base(char) == IF char \in DOMAIN Decomposed THEN Decomposed[char] ELSE char
           lower(char) == IF char \in DOMAIN LowerCase THEN LowerCase[char] ELSE char
           dashed == [i \in DOMAIN text |->
               IF base(text[i]) \in AsciiLetters \cup Digits THEN lower(base(text[i])) ELSE "-"]
           isKept(i) ==
               \/ dashed[i] # "-"
               \/ /\ i > 1 /\ dashed[i - 1] # "-"
                  /\ \E j \in i..Len(text) : dashed[j] # "-"
           S == {i \in DOMAIN text : isKept(i)}
           kept == Ascending(S)
           slug == [i \in DOMAIN kept |-> dashed[kept[i]]]
<1>1. Slugify(text) = slug
  BY DEF Slugify
<1>2. Len(text) \in Nat /\ DOMAIN text = 1..Len(text)
  BY LenProperties DEF Text
<1>3. \A i \in DOMAIN text : dashed[i] \in PlainChars
  <2>1. AsciiLetters \cup Digits \subseteq PlainChars /\ "-" \in PlainChars
    BY WrittenChars
  <2>2. \A c : (IF c \in AsciiLetters \cup Digits THEN lower(c) ELSE "-") \in PlainChars
    <3>1. \A c \in DOMAIN LowerCase : LowerCase[c] \in AsciiLetters
      BY SymbolsAssumption
    <3> QED BY <2>1, <3>1
  <2>3. \A i \in DOMAIN text :
            dashed[i] = IF base(text[i]) \in AsciiLetters \cup Digits
                        THEN lower(base(text[i])) ELSE "-"
    OBVIOUS
  <2> HIDE DEF dashed, base, lower
  <2> QED BY <2>2, <2>3
<1>4. S \in SUBSET (1..Len(text))
  <2> HIDE DEF isKept
  <2> QED BY <1>2
<1> HIDE DEF S, dashed
<1>5. /\ Cardinality(S) \in Nat
      /\ DOMAIN kept = 1..Cardinality(S)
      /\ \A k \in 1..Cardinality(S) : kept[k] \in S
  BY <1>2, <1>4, AscendingIn
<1> HIDE DEF kept
<1>6. slug \in [1..Cardinality(S) -> PlainChars]
  BY <1>2, <1>3, <1>4, <1>5
<1> HIDE DEF slug
<1>7. slug \in Seq(PlainChars)
  BY <1>5, <1>6
<1> QED BY <1>1, <1>7 DEF PlainText

\* The first candidate is one that nobody has: of one candidate more than there
\* are addresses one is free.
LEMMA LocalIsFree ==
    ASSUME NEW name \in Text, NEW used \in SUBSET Text, IsFiniteSet(used)
    PROVE  /\ UniqueLocal(name, used) \in PlainText \ used
           /\ UniqueLocal(name, used) # <<>>
<1> DEFINE base == IF Slugify(name) = <<>> THEN <<"m">> ELSE Slugify(name)
           dash == base \o <<"-">>
           candidate(n) == IF n = 1 THEN base ELSE base \o <<"-">> \o Written(n)
           k == Cardinality(used) + 1
           free == {n \in 1..k : candidate(n) \notin used}
<1>1. UniqueLocal(name, used) = candidate(Min(free))
  BY DEF UniqueLocal
<1>2. Cardinality(used) \in Nat /\ k \in Nat
  BY FS_CardinalityType
<1>3. base \in Seq(PlainChars) /\ base # <<>>
  <2> DEFINE slug == Slugify(name)
             m == "m"
  <2>1. m \in PlainChars /\ slug \in Seq(PlainChars)
    BY SlugifyIsText, WrittenChars DEF PlainText
  <2> HIDE DEF slug, m
  <2>2. <<m>> \in Seq(PlainChars) /\ <<m>> # <<>>
    BY <2>1
  <2> QED BY <2>1, <2>2 DEF slug, m
<1> HIDE DEF base
<1>4. dash \in Seq(PlainChars) /\ dash # <<>> /\ dash # base
  <2> DEFINE d == "-"
             t == <<d>>
  <2>1. d \in PlainChars
    BY WrittenChars
  <2> HIDE DEF d
  <2>2. t \in Seq(PlainChars) /\ t # <<>>
    BY <2>1
  <2>3. dash = base \o t
    BY DEF d
  <2> HIDE DEF dash, t
  <2>4. dash \in Seq(PlainChars)
    BY <1>3, <2>2, <2>3, ConcatProperties
  <2>5. dash # <<>> /\ dash # base
    BY <1>3, <2>2, <2>3, ConcatEqualIffEmpty
  <2> QED BY <2>4, <2>5
<1>5. \A n \in Nat : Written(n) \in Seq(PlainChars)
  BY WrittenIs DEF PlainText
<1>6. \A n \in Nat : candidate(n) = IF n = 1 THEN base ELSE dash \o Written(n)
  OBVIOUS
<1> HIDE DEF dash, candidate
<1>7. ASSUME NEW n \in Nat
      PROVE  candidate(n) \in Seq(PlainChars) /\ candidate(n) # <<>>
  <2> DEFINE t == Written(n)
  <2>1. t \in Seq(PlainChars)
    BY <1>5
  <2> HIDE DEF t
  <2>2. dash \o t \in Seq(PlainChars) /\ dash \o t # <<>>
    BY <1>4, <2>1, ConcatProperties, ConcatEqualIffEmpty
  <2> QED BY <1>3, <1>6, <2>2 DEF t
<1>8. ASSUME NEW n \in Nat, NEW m \in Nat, n # 1, m # 1, candidate(n) = candidate(m)
      PROVE  n = m
  <2> DEFINE s == Written(n)
             t == Written(m)
  <2>1. s \in Seq(PlainChars) /\ t \in Seq(PlainChars) /\ dash \o s = dash \o t
    BY <1>5, <1>6, <1>8
  <2>2. s = t
    <3> HIDE DEF s, t
    <3> QED BY <1>4, <2>1, ConcatSimplifications
  <2> QED BY <2>2, WrittenDiffer
<1>9. ASSUME NEW n \in Nat, n # 1
      PROVE  candidate(n) # candidate(1)
  <2> DEFINE t == Written(n)
  <2>1. t \in Seq(PlainChars) /\ candidate(n) = dash \o t /\ candidate(1) = base
    BY <1>5, <1>6, <1>9
  <2>2. Len(dash) = Len(base) + 1
    <3> DEFINE d == "-"
               u == <<d>>
    <3>1. d \in PlainChars
      BY WrittenChars
    <3> HIDE DEF d
    <3>2. u \in Seq(PlainChars) /\ Len(u) = 1
      BY <3>1
    <3>3. dash = base \o u
      BY DEF d, dash
    <3> HIDE DEF u
    <3>4. Len(base \o u) = Len(base) + Len(u)
      BY <1>3, <3>2, ConcatProperties
    <3> QED BY <3>2, <3>3, <3>4
  <2> HIDE DEF t
  <2>3. Len(dash \o t) = Len(dash) + Len(t) /\ Len(t) \in Nat /\ Len(base) \in Nat
    BY <1>3, <1>4, <2>1, ConcatProperties, LenProperties
  <2> QED BY <2>1, <2>2, <2>3
<1>10. free # {}
  <2> SUFFICES ASSUME free = {}
               PROVE  FALSE
    OBVIOUS
  <2> DEFINE f == [n \in 1..k |-> candidate(n)]
             I == 1..k
  <2>1. f \in [I -> used]
    <3>1. \A n \in 1..k : candidate(n) \in used
      OBVIOUS
    <3> QED BY <3>1
  <2>2. IsFiniteSet(I) /\ Cardinality(I) = k
    BY <1>2, FS_Interval
  <2>3. \A n, m \in I : f[n] = f[m] => n = m
    <3> TAKE n, m \in I
    <3>1. n \in Nat /\ m \in Nat /\ f[n] = candidate(n) /\ f[m] = candidate(m)
      BY <1>2
    <3> HIDE DEF f, I
    <3> QED BY <1>8, <1>9, <3>1
  <2>4. Cardinality(used) < Cardinality(I)
    BY <1>2, <2>2
  <2> HIDE DEF f, I
  <2>5. \E n, m \in I : n # m /\ f[n] = f[m]
    BY <2>1, <2>2, <2>4, FS_PigeonHole
  <2> QED BY <2>3, <2>5
<1>11. Min(free) \in free
  <2>1. free \in (SUBSET Nat) \ {{}}
    BY <1>2, <1>10
  <2> HIDE DEF free
  <2> QED BY <2>1, MinIsLeast
<1>12. Min(free) \in Nat /\ candidate(Min(free)) \notin used
  BY <1>2, <1>11
<1> HIDE DEF free
<1> QED BY <1>1, <1>7, <1>12 DEF PlainText

-----------------------------------------------------------------------------
(* Names. *)

Named(text) == text \in PlainText /\ text # <<>> /\ IsTrimmed(text)

LEMMA EndsOf ==
    ASSUME NEW s \in PlainText, s # <<>>
    PROVE  Head(s) = s[1] /\ Last(s) = s[Len(s)] /\ Len(s) \in Nat \ {0} /\ DOMAIN s = 1..Len(s)
<1>1. Len(s) \in Nat \ {0} /\ DOMAIN s = 1..Len(s)
  BY EmptySeq, LenProperties DEF PlainText
<1>2. Head(s) = s[1]
  BY DEF PlainText
<1>3. Last(s) = s[Len(s)]
  BY DEF Last
<1> QED BY <1>1, <1>2, <1>3

LEMMA ConcatEnds ==
    ASSUME NEW s \in PlainText, NEW t \in PlainText
    PROVE  /\ s \o t \in PlainText
           /\ s # <<>> => s \o t # <<>> /\ Head(s \o t) = Head(s)
           /\ t # <<>> => s \o t # <<>> /\ Last(s \o t) = Last(t)
<1>1. s \in Seq(PlainChars) /\ t \in Seq(PlainChars)
  BY DEF PlainText
<1>2. /\ s \o t \in Seq(PlainChars)
      /\ Len(s \o t) = Len(s) + Len(t)
      /\ \A i \in 1..(Len(s) + Len(t)) :
            (s \o t)[i] = IF i <= Len(s) THEN s[i] ELSE t[i - Len(s)]
  BY <1>1, ConcatProperties
<1>3. s # <<>> \/ t # <<>> => s \o t # <<>>
  BY <1>1, ConcatEqualIffEmpty
<1>4. Len(s) \in Nat /\ Len(t) \in Nat
  BY <1>1, LenProperties
<1>5. s \o t \in PlainText
  BY <1>2 DEF PlainText
<1>6. ASSUME s # <<>>
      PROVE  Head(s \o t) = Head(s)
  <2>1. Head(s) = s[1] /\ Len(s) >= 1
    BY <1>6, EndsOf
  <2>2. Head(s \o t) = (s \o t)[1]
    BY <1>3, <1>5, <1>6, EndsOf
  <2> QED BY <1>2, <1>4, <2>1, <2>2
<1>7. ASSUME t # <<>>
      PROVE  Last(s \o t) = Last(t)
  <2>1. Last(t) = t[Len(t)] /\ Len(t) >= 1
    BY <1>7, EndsOf
  <2>2. Last(s \o t) = (s \o t)[Len(s \o t)]
    BY <1>3, <1>5, <1>7, EndsOf
  <2>3. (s \o t)[Len(s) + Len(t)] = t[Len(t)]
    BY <1>2, <1>4, <2>1
  <2> QED BY <1>2, <2>1, <2>2, <2>3
<1> QED BY <1>3, <1>5, <1>6, <1>7

\* A text between two that are trimmed.
LEMMA NamedBetween ==
    ASSUME NEW s, Named(s), NEW mid \in PlainText, NEW t, Named(t)
    PROVE  Named(s \o mid \o t)
<1>1. s \in PlainText /\ s # <<>> /\ Head(s) # Space /\ t \in PlainText /\ t # <<>> /\ Last(t) # Space
  BY DEF Named, IsTrimmed
<1>2. s \o mid \in PlainText /\ s \o mid # <<>> /\ Head(s \o mid) = Head(s)
  BY <1>1, ConcatEnds
<1> DEFINE u == s \o mid
<1>3. u \in PlainText /\ u # <<>> /\ Head(u) # Space
  BY <1>1, <1>2
<1> HIDE DEF u
<1>4. /\ u \o t \in PlainText /\ u \o t # <<>>
      /\ Head(u \o t) = Head(u) /\ Last(u \o t) = Last(t)
  BY <1>1, <1>3, ConcatEnds
<1> QED BY <1>1, <1>3, <1>4 DEF Named, IsTrimmed, u

LEMMA WordsAreNamed ==
    ASSUME NEW words \in Wordings
    PROVE  Named(words)
BY GeneratorAssumption, FitsIsPlain DEF Named

LEMMA OwnedByIsNamed ==
    ASSUME NEW owner \in OwnerNames \cup AccentedOwnerNames,
           NEW category \in MERCHANT_CATEGORIES, NEW noun \in Nouns[category]
    PROVE  Named(OwnedBy(owner, noun))
<1> DEFINE a == "'"
           b == "s"
           c == Space
           mid == <<"'", "s", Space>>
<1>1. Named(owner) /\ Named(noun)
  BY WordsAreNamed DEF Wordings
<1>2. a \in PlainChars /\ b \in PlainChars /\ c \in PlainChars
  BY WrittenChars
<1>3. mid = <<a, b, c>>
  OBVIOUS
<1> HIDE DEF a, b, c
<1>4. mid \in PlainText
  <2>1. <<a, b, c>> \in Seq(PlainChars)
    BY <1>2
  <2> QED BY <1>3, <2>1 DEF PlainText
<1>5. OwnedBy(owner, noun) = owner \o mid \o noun
  BY DEF OwnedBy
<1> HIDE DEF mid
<1> QED BY <1>1, <1>4, <1>5, NamedBetween

LEMMA NamesAreNamed ==
    ASSUME NEW category \in MERCHANT_CATEGORIES, NEW name \in NamesFor(category)
    PROVE  Named(name)
<1>1. PICK noun \in Nouns[category] :
          name \in {OwnedBy(owner, noun) : owner \in OwnerNames \cup AccentedOwnerNames}
                   \cup {DescribedBy(adjective, noun) : adjective \in Adjectives}
                   \cup {The \o DescribedBy(adjective, noun) : adjective \in Adjectives}
  BY DEF NamesFor
<1>2. CASE name \in {OwnedBy(owner, noun) : owner \in OwnerNames \cup AccentedOwnerNames}
  BY <1>2, OwnedByIsNamed
<1>3. ASSUME NEW adjective \in Adjectives
      PROVE  Named(DescribedBy(adjective, noun)) /\ Named(The \o DescribedBy(adjective, noun))
  <2> DEFINE c == Space
             mid == <<Space>>
             described == DescribedBy(adjective, noun)
  <2>1. Named(adjective) /\ Named(noun)
    BY WordsAreNamed DEF Wordings
  <2>2. c \in PlainChars /\ mid = <<c>>
    BY WrittenChars
  <2> HIDE DEF c
  <2>3. mid \in PlainText
    BY <2>2 DEF PlainText
  <2>4. described = adjective \o mid \o noun
    BY DEF DescribedBy
  <2> HIDE DEF mid, described
  <2>5. Named(described)
    BY <2>1, <2>3, <2>4, NamedBetween
  <2>6. The \in PlainText /\ The # <<>> /\ Head(The) # Space
    <3> DEFINE t == "t"
               h == "h"
               e == "e"
               s == Space
    <3>1. t \in PlainChars /\ h \in PlainChars /\ e \in PlainChars /\ s \in PlainChars
      BY WrittenChars
    <3>2. The = <<t, h, e, s>> /\ t # Space
      BY DEF The, Space
    <3> HIDE DEF t, h, e, s
    <3>3. <<t, h, e, s>> \in Seq(PlainChars) /\ <<t, h, e, s>> # <<>> /\ Head(<<t, h, e, s>>) = t
      BY <3>1
    <3> QED BY <3>2, <3>3 DEF PlainText
  <2>7. described \in PlainText /\ described # <<>> /\ Last(described) # Space
    BY <2>5 DEF Named, IsTrimmed
  <2>8. /\ The \o described \in PlainText /\ The \o described # <<>>
        /\ Head(The \o described) = Head(The) /\ Last(The \o described) = Last(described)
    BY <2>6, <2>7, ConcatEnds
  <2>9. Named(The \o described)
    BY <2>6, <2>7, <2>8 DEF Named, IsTrimmed
  <2> QED BY <2>5, <2>9 DEF described
<1> QED BY <1>1, <1>2, <1>3

-----------------------------------------------------------------------------
(* Merchants. *)

LEMMA TenthsInRange ==
    ASSUME NEW n \in 0..500
    PROVE  ToTenths(n) \in 0..500
<1> DEFINE q == (n + 5) \div 10
<1>1. q \in Int /\ 10 * q <= n + 5 /\ n + 5 < 10 * q + 10
  OBVIOUS
<1>2. ToTenths(n) = 10 * q
  BY DEF ToTenths
<1> HIDE DEF q
<1> QED BY <1>1, <1>2

LEMMA HundredthsAre ==
    ASSUME NEW n \in Int
    PROVE  IsWhole(n * 100) /\ (n * 100) \div 100 = n
<1>1. (n * 100) \div 100 = n /\ (n * 100) % 100 = 0
  OBVIOUS
<1> QED BY <1>1 DEF IsWhole

\* The texts of a merchant that are patched.
TextsFit(m) ==
    /\ FitsText(m.name) /\ FitsText(m.contactEmail.local)
    /\ FitsText(m.city) /\ Indexable(m.city)

Columns(m) ==
    /\ m.reviewCount # None => FitsInteger(m.reviewCount)
    /\ m.yearsInBusiness # None => FitsInteger(m.yearsInBusiness)
    /\ m.seatsOrCapacity # None => FitsInteger(m.seatsOrCapacity)
    /\ m.lastOfferEndedAt # None => FitsTimestamp(m.lastOfferEndedAt)
    /\ FitsText(m.id) /\ Indexable(m.id) /\ TextsFit(m)
    /\ m.websiteUrl # None => FitsText(m.websiteUrl.host)

LEMMA FitsColumnsIs ==
    ASSUME NEW m
    PROVE  FitsColumns(m) <=> Columns(m)
BY DEF FitsColumns, Columns, TextsFit, IntegerColumns, NoneOr

\* Of what validation accepts no CHECK is violated.
LEMMA ValidMeetsChecks ==
    ASSUME NEW m \in Merchant, IsValid(m)
    PROVE  MeetsChecks(m)
<1>1. /\ m.category \in MERCHANT_CATEGORIES
      /\ m.countryCode \in Countries
      /\ IsSynthetic(m.contactEmail)
  BY DEF IsValid
<1>2. m.rating # None => FitsRating(m.rating)
  <2>1. m.rating # None => m.rating \in 0..500
    BY DEF IsValid, NoneOr, InRange
  <2> QED BY <2>1, TenthsInRange DEF FitsRating
<1>3. /\ m.reviewCount # None => m.reviewCount >= 0
      /\ m.yearsInBusiness # None => m.yearsInBusiness >= 0
      /\ m.seatsOrCapacity # None => m.seatsOrCapacity > 0
  BY DEF IsValid, NoneOr, IsCount, IsCapacity
<1>4. m.seatsOrCapacity # None => m.seatsOrCapacity >= 0
  <2>1. m.seatsOrCapacity \in {None} \cup Int
    BY DEF Merchant, Amount
  <2> QED BY <1>3, <2>1
<1>5. \A column \in IntegerColumns : m[column] # None => m[column] >= 0
  BY <1>3, <1>4 DEF IntegerColumns
<1> QED BY <1>1, <1>2, <1>3, <1>5 DEF MeetsChecks, NoneOr

\* What a generated merchant is in every respect but its id and its address.
Sound(m) ==
    /\ m \in Merchant
    /\ IsValid(m)
    /\ FitsColumns(m)
    /\ m.websiteUrl # None => m.websiteUrl.host = m.contactEmail.local

LEMMA MaxIntegerIs == MaxInteger \in Nat /\ MaxInteger >= 4000
BY GeneratorAssumption, MerchantsAssumption

\* A count that was drawn, as it is built in.
DrawnCounts == 0..4000

LEMMA CountsAreSound ==
    ASSUME NEW n \in {None} \cup DrawnCounts
    PROVE  /\ Hundredths(n) \in Amount
           /\ Hundredths(n) # None => IsCount(Hundredths(n)) /\ FitsInteger(Hundredths(n))
           /\ n # None /\ n # 0 => Hundredths(n) > 0
<1> DEFINE h == Hundredths(n)
<1>1. CASE n = None
  BY <1>1 DEF Hundredths, Amount
<1>2. CASE n # None
  <2>1. n \in 0..4000 /\ h = n * 100
    BY <1>2 DEF Hundredths, DrawnCounts
  <2>2. h \in Int /\ h >= 0 /\ IsWhole(h) /\ h \div 100 = n /\ (n # 0 => h > 0)
    BY <2>1, HundredthsAre
  <2>3. n \in 0..MaxInteger
    BY <2>1, MaxIntegerIs
  <2> QED BY <2>2, <2>3 DEF Amount, IsCount, FitsInteger
<1> QED BY <1>1, <1>2

LEMMA PlacesAreSound ==
    ASSUME NEW place \in CityProfiles
    PROVE  /\ place.city \in Text /\ IsNonEmpty(place.city)
           /\ FitsText(place.city) /\ Indexable(place.city)
           /\ place.countryCode \in Countries /\ place.locale \in Locales
BY GeneratorAssumption

LEMMA ReferenceIsInt == ReferenceDate \in Int
BY GeneratorAssumption

\* What is in a draw, field by field.
RawsDrawn == 310..500
ReviewsDrawn == 1..4000
DaysDrawn == 15..900
YearsDrawn == 0..38
IsDrawn(draw) ==
    /\ draw.category \in MERCHANT_CATEGORIES
    /\ draw.place \in CityProfiles
    /\ draw.name \in NamesFor(draw.category)
    /\ draw.raw # None => draw.raw \in RawsDrawn
    /\ draw.reviewCount # None => draw.reviewCount \in ReviewsDrawn
    /\ draw.active \in BOOLEAN
    /\ draw.endedDaysAgo # None => draw.endedDaysAgo \in DaysDrawn
    /\ draw.years # None => draw.years \in YearsDrawn
    /\ draw.seats # None => draw.seats \in CAPACITY_RANGES[draw.category]

LEMMA DrawIs ==
    ASSUME NEW draw, IsDraw(draw)
    PROVE  IsDrawn(draw)
<1>1. \/ draw.raw = None /\ draw.reviewCount = None
      \/ draw.raw \in RawsDrawn /\ draw.reviewCount \in ReviewsDrawn
  BY DEF IsDraw, RawsDrawn, ReviewsDrawn
<1>2. draw.endedDaysAgo # None => draw.endedDaysAgo \in DaysDrawn
  BY DEF IsDraw, NoneOr, DaysDrawn
<1>3. draw.years # None => draw.years \in YearsDrawn
  BY DEF IsDraw, NoneOr, YearsDrawn
<1>4. draw.seats # None => draw.seats \in CAPACITY_RANGES[draw.category]
  BY DEF IsDraw, NoneOr
<1>5. draw.category \in MERCHANT_CATEGORIES
  BY DEF IsDraw
<1>6. draw.place \in CityProfiles
  BY DEF IsDraw
<1>7. draw.name \in NamesFor(draw.category)
  BY DEF IsDraw
<1>8. draw.active \in BOOLEAN
  BY DEF IsDraw
<1> QED BY <1>1, <1>2, <1>3, <1>4, <1>5, <1>6, <1>7, <1>8 DEF IsDrawn

LEMMA BuiltIsSound ==
    ASSUME NEW number \in Nat \ {0}, Indexable(Id(number)), NEW draw, IsDraw(draw),
           NEW used \in SUBSET Text, IsFiniteSet(used)
    PROVE  /\ Sound(BuildMerchant(number, draw, used))
           /\ BuildMerchant(number, draw, used).id = Id(number)
           /\ BuildMerchant(number, draw, used).contactEmail.local \notin used
<1> DEFINE m == BuildMerchant(number, draw, used)
           local == UniqueLocal(draw.name, used)
           email == Email(local)
           site == IF draw.website THEN WebsiteFor(email) ELSE None
           ended == IF draw.active \/ draw.endedDaysAgo = None THEN None
                    ELSE Midnight(ReferenceDate - draw.endedDaysAgo * MinutesPerDay)
           rating == BuiltRating(draw.raw)
           reviews == Hundredths(draw.reviewCount)
           years == Hundredths(draw.years)
           seats == Hundredths(draw.seats)
<1>1. m = [id |-> Id(number), name |-> draw.name, category |-> draw.category,
           city |-> draw.place.city, countryCode |-> draw.place.countryCode,
           locale |-> draw.place.locale, websiteUrl |-> site, contactEmail |-> email,
           rating |-> rating, reviewCount |-> reviews, yearsInBusiness |-> years,
           hasActiveOffer |-> draw.active, lastOfferEndedAt |-> ended,
           seatsOrCapacity |-> seats]
  BY DEF BuildMerchant
<1>2. Named(draw.name) /\ draw.category \in MERCHANT_CATEGORIES
  BY DrawIs, NamesAreNamed DEF IsDrawn
<1>3. local \in Text /\ local \notin used /\ local # <<>> /\ FitsText(local)
  BY <1>2, LocalIsFree, FitsIsPlain DEF Named
<1>4. /\ email \in [local : Text, domain : Symbols] /\ email.local = local
      /\ email.domain = SYNTHETIC_EMAIL_DOMAIN
  BY <1>3, MerchantsAssumption DEF Email
<1>5. /\ site \in {None} \cup Website
      /\ site # None => site.scheme = "https" /\ site.host = email.local
  BY <1>3, <1>4, SymbolsAssumption DEF WebsiteFor, Website
<1>6. /\ ended \in {None} \cup Timestamp
      /\ ended # None => ended.minute # None /\ ended.stored # None
  <2>1. CASE draw.active \/ draw.endedDaysAgo = None
    BY <2>1
  <2>2. CASE ~ (draw.active \/ draw.endedDaysAgo = None)
    <3> DEFINE minute == ReferenceDate - draw.endedDaysAgo * MinutesPerDay
               day == minute - (minute % MinutesPerDay)
    <3>1. draw.endedDaysAgo \in DaysDrawn
      BY <2>2, DrawIs DEF IsDrawn
    <3>2. minute \in Int
      <4> DEFINE ago == draw.endedDaysAgo
      <4>1. ago \in Int
        BY <3>1 DEF DaysDrawn
      <4> HIDE DEF ago
      <4>2. ReferenceDate - ago * (24 * 60) \in Int
        BY <4>1, ReferenceIsInt
      <4> QED BY <4>2 DEF ago, MinutesPerDay
    <3>3. day \in Int
      <4> HIDE DEF minute
      <4> QED BY <3>2 DEF MinutesPerDay
    <3>4. ended = [minute |-> day, zone |-> 0, stored |-> day]
      BY <2>2 DEF Midnight, Instant
    <3> HIDE DEF day, ended
    <3> QED BY <3>3, <3>4, NoneIsNoValue DEF Timestamp, Amount
  <2> QED BY <2>1, <2>2
<1>7. rating \in Amount /\ (rating # None => rating \in 0..500)
  <2>0. draw.raw # None => draw.raw \in RawsDrawn
    BY DrawIs DEF IsDrawn
  <2>1. draw.raw # None => draw.raw \in 0..500
    BY <2>0 DEF RawsDrawn
  <2>2. draw.raw # None => ToTenths(draw.raw) \in 0..500
    BY <2>1, TenthsInRange
  <2> QED BY <2>1, <2>2 DEF BuiltRating, Amount
<1>8. /\ reviews \in Amount /\ (reviews # None => IsCount(reviews) /\ FitsInteger(reviews))
      /\ years \in Amount /\ (years # None => IsCount(years) /\ FitsInteger(years))
      /\ seats \in Amount /\ (seats # None => IsCapacity(seats) /\ FitsInteger(seats))
  <2> DEFINE r == draw.reviewCount
             y == draw.years
             c == draw.seats
  <2>1. (r # None => r \in 1..4000) /\ (y # None => y \in 0..38) /\ (c # None => c \in 1..4000)
    <3>1. c # None => c \in CAPACITY_RANGES[draw.category]
      BY DrawIs DEF IsDrawn
    <3>2. CAPACITY_RANGES[draw.category] \subseteq 1..4000
      <4>1. /\ CAPACITY_RANGES["restaurant"] = 24..180 /\ CAPACITY_RANGES["spa_wellness"] = 8..60
            /\ CAPACITY_RANGES["fitness"] = 20..220 /\ CAPACITY_RANGES["beauty"] = 3..18
            /\ CAPACITY_RANGES["activity"] = 10..120 /\ CAPACITY_RANGES["class_workshop"] = 6..40
        BY DEF CAPACITY_RANGES
      <4> QED BY <1>2, <4>1 DEF MERCHANT_CATEGORIES
    <3>3. c # None => c \in 1..4000
      BY <3>1, <3>2
    <3>4. (r # None => r \in 1..4000) /\ (y # None => y \in 0..38)
      <4>1. (r # None => r \in ReviewsDrawn) /\ (y # None => y \in YearsDrawn)
        BY DrawIs DEF IsDrawn
      <4> QED BY <4>1 DEF ReviewsDrawn, YearsDrawn
    <3> HIDE DEF r, y, c
    <3> QED BY <3>3, <3>4
  <2>2. /\ Hundredths(r) \in Amount
        /\ Hundredths(r) # None => IsCount(Hundredths(r)) /\ FitsInteger(Hundredths(r))
        /\ Hundredths(y) \in Amount
        /\ Hundredths(y) # None => IsCount(Hundredths(y)) /\ FitsInteger(Hundredths(y))
        /\ Hundredths(c) \in Amount
        /\ Hundredths(c) # None => /\ IsCount(Hundredths(c)) /\ FitsInteger(Hundredths(c))
                                   /\ Hundredths(c) > 0
    <3> HIDE DEF r, y, c
    <3>1. /\ r \in {None} \cup DrawnCounts /\ y \in {None} \cup DrawnCounts
          /\ c \in {None} \cup DrawnCounts
      <4>1. ASSUME r # None
            PROVE  r \in DrawnCounts
        <5>1. r \in 1..4000
          BY <2>1, <4>1
        <5> QED BY <5>1 DEF DrawnCounts
      <4>2. ASSUME y # None
            PROVE  y \in DrawnCounts
        <5>1. y \in 0..38
          BY <2>1, <4>2
        <5> QED BY <5>1 DEF DrawnCounts
      <4>3. ASSUME c # None
            PROVE  c \in DrawnCounts
        <5>1. c \in 1..4000
          BY <2>1, <4>3
        <5> QED BY <5>1 DEF DrawnCounts
      <4> QED BY <4>1, <4>2, <4>3
    <3>2. ASSUME c # None
          PROVE  c # 0
      <4>1. c \in 1..4000
        BY <2>1, <3>2
      <4> QED BY <4>1
    <3>3. c = None => Hundredths(c) = None
      BY DEF Hundredths
    <3>4. /\ Hundredths(r) \in Amount
          /\ Hundredths(r) # None => IsCount(Hundredths(r)) /\ FitsInteger(Hundredths(r))
      BY <3>1, CountsAreSound
    <3>5. /\ Hundredths(y) \in Amount
          /\ Hundredths(y) # None => IsCount(Hundredths(y)) /\ FitsInteger(Hundredths(y))
      BY <3>1, CountsAreSound
    <3>6. /\ Hundredths(c) \in Amount
          /\ Hundredths(c) # None => IsCount(Hundredths(c)) /\ FitsInteger(Hundredths(c))
          /\ c # None /\ c # 0 => Hundredths(c) > 0
      BY <3>1, CountsAreSound
    <3> QED BY <3>2, <3>3, <3>4, <3>5, <3>6
  <2> QED BY <2>2 DEF IsCapacity, IsCount
<1>9. /\ draw.place.city \in Text /\ IsNonEmpty(draw.place.city)
      /\ FitsText(draw.place.city) /\ Indexable(draw.place.city)
      /\ draw.place.countryCode \in Countries /\ draw.place.locale \in Locales
  <2>1. draw.place \in CityProfiles
    BY DrawIs DEF IsDrawn
  <2> QED BY <2>1, PlacesAreSound
<1>10. draw.active \in BOOLEAN
  BY DrawIs DEF IsDrawn
<1>11. Id(number) \in Text /\ FitsText(Id(number)) /\ IsNonEmpty(Id(number))
  BY IdsDiffer, FitsIsPlain
<1>12. /\ IsNonEmpty(draw.name) /\ IsTrimmed(draw.name) /\ draw.name \in Text
       /\ FitsText(draw.name)
  <2>1. 1 \in DOMAIN draw.name /\ Head(draw.name) = draw.name[1]
    BY <1>2, EndsOf DEF Named
  <2>2. draw.name \in Text /\ FitsText(draw.name)
    BY <1>2, FitsIsPlain DEF Named
  <2> QED BY <1>2, <2>1, <2>2 DEF Named, IsTrimmed, IsNonEmpty
<1> HIDE DEF m, local, email, site, ended, rating, reviews, years, seats
<1>13. m \in Merchant
  <2>1. /\ draw.category \in Symbols /\ draw.place.countryCode \in Symbols
        /\ draw.place.locale \in Symbols
    BY <1>2, <1>9, MerchantsAssumption
  <2> QED BY <1>1, <1>4, <1>5, <1>6, <1>7, <1>8, <1>9, <1>10, <1>11, <1>12, <2>1 DEF Merchant
<1>14. IsValid(m)
  BY <1>1, <1>2, <1>3, <1>4, <1>5, <1>6, <1>7, <1>8, <1>9, <1>10, <1>11, <1>12
     DEF IsValid, NoneOr, IsHttp, IsSynthetic, InRange, IsTimestamp
<1>15. FitsColumns(m)
  <2>1. TextsFit(m) /\ FitsText(m.id) /\ Indexable(m.id)
    BY <1>1, <1>3, <1>4, <1>9, <1>11, <1>12 DEF TextsFit
  <2>2. m.websiteUrl # None => FitsText(m.websiteUrl.host)
    BY <1>1, <1>3, <1>4, <1>5
  <2>3. m.lastOfferEndedAt # None => FitsTimestamp(m.lastOfferEndedAt)
    BY <1>1, <1>6 DEF FitsTimestamp
  <2> QED BY <1>1, <1>8, <2>1, <2>2, <2>3, FitsColumnsIs DEF Columns
<1>16. m.websiteUrl # None => m.websiteUrl.host = m.contactEmail.local
  BY <1>1, <1>5
<1>17. m.id = Id(number) /\ m.contactEmail.local \notin used
  BY <1>1, <1>3, <1>4
<1> QED BY <1>13, <1>14, <1>15, <1>16, <1>17 DEF Sound, m

\* Patching one or several fields with sound values.
LEMMA PatchedFields ==
    ASSUME NEW m, Sound(m), NEW f \in Merchant,
           f.id = m.id, f.category = m.category,
           f.yearsInBusiness = m.yearsInBusiness, f.seatsOrCapacity = m.seatsOrCapacity,
           IsNonEmpty(f.name), IsTrimmed(f.name), IsNonEmpty(f.city),
           f.countryCode \in Countries, f.locale \in Locales,
           f.websiteUrl # None => IsHttp(f.websiteUrl) /\ f.websiteUrl.host = f.contactEmail.local,
           IsSynthetic(f.contactEmail), f.contactEmail.local # <<>>,
           f.rating # None => InRange(f.rating),
           f.reviewCount # None => IsCount(f.reviewCount) /\ FitsInteger(f.reviewCount),
           f.lastOfferEndedAt # None =>
               IsTimestamp(f.lastOfferEndedAt) /\ FitsTimestamp(f.lastOfferEndedAt),
           TextsFit(f)
    PROVE  Sound(f)
<1>1. /\ m \in Merchant /\ IsNonEmpty(m.id) /\ m.category \in MERCHANT_CATEGORIES
      /\ m.yearsInBusiness # None => IsCount(m.yearsInBusiness)
      /\ m.seatsOrCapacity # None => IsCapacity(m.seatsOrCapacity)
  BY DEF Sound, IsValid, NoneOr
<1>2. /\ m.yearsInBusiness # None => FitsInteger(m.yearsInBusiness)
      /\ m.seatsOrCapacity # None => FitsInteger(m.seatsOrCapacity)
      /\ FitsText(m.id) /\ Indexable(m.id)
  BY FitsColumnsIs DEF Sound, Columns
<1>3. f.hasActiveOffer \in BOOLEAN
  BY DEF Merchant
<1>4. IsValid(f)
  BY <1>1, <1>3 DEF IsValid, NoneOr
<1>5. FitsColumns(f)
  <2>1. f.websiteUrl # None => FitsText(f.websiteUrl.host)
    BY DEF TextsFit
  <2> QED BY <1>2, <2>1, FitsColumnsIs DEF Columns
<1> QED BY <1>4, <1>5 DEF Sound

\* The facts of a sound merchant that forcing it into a case needs.
LEMMA SoundFields ==
    ASSUME NEW m, Sound(m)
    PROVE  /\ m \in Merchant
           /\ IsNonEmpty(m.name) /\ IsTrimmed(m.name) /\ IsNonEmpty(m.city)
           /\ m.category \in MERCHANT_CATEGORIES
           /\ m.countryCode \in Countries /\ m.locale \in Locales
           /\ m.websiteUrl # None =>
                  IsHttp(m.websiteUrl) /\ m.websiteUrl.host = m.contactEmail.local
           /\ IsSynthetic(m.contactEmail) /\ m.contactEmail.local # <<>>
           /\ m.contactEmail.local \in Text
           /\ m.rating # None => InRange(m.rating)
           /\ m.reviewCount # None => IsCount(m.reviewCount) /\ FitsInteger(m.reviewCount)
           /\ m.lastOfferEndedAt # None =>
                  IsTimestamp(m.lastOfferEndedAt) /\ FitsTimestamp(m.lastOfferEndedAt)
           /\ TextsFit(m)
<1>1. m \in Merchant /\ m.contactEmail.local \in Text
  BY DEF Sound, Merchant
<1>2. /\ IsNonEmpty(m.name) /\ IsTrimmed(m.name) /\ IsNonEmpty(m.city)
      /\ m.category \in MERCHANT_CATEGORIES
      /\ m.countryCode \in Countries /\ m.locale \in Locales
      /\ m.websiteUrl # None => IsHttp(m.websiteUrl)
      /\ IsSynthetic(m.contactEmail) /\ m.contactEmail.local # <<>>
      /\ m.rating # None => InRange(m.rating)
      /\ m.reviewCount # None => IsCount(m.reviewCount)
      /\ m.lastOfferEndedAt # None => IsTimestamp(m.lastOfferEndedAt)
  BY DEF Sound, IsValid, NoneOr
<1>3. /\ m.reviewCount # None => FitsInteger(m.reviewCount)
      /\ m.lastOfferEndedAt # None => FitsTimestamp(m.lastOfferEndedAt)
      /\ TextsFit(m)
  BY FitsColumnsIs DEF Sound, Columns
<1>4. m.websiteUrl # None => m.websiteUrl.host = m.contactEmail.local
  BY DEF Sound
<1> QED BY <1>1, <1>2, <1>3, <1>4

\* What a forced merchant is, field by field.
LEMMA ForcedFirst ==
    ASSUME NEW m \in Merchant, NEW used, NEW f \in Forced("no_website_no_rating", m, used)
    PROVE  /\ f \in Merchant
           /\ f.websiteUrl = None /\ f.rating = None /\ f.reviewCount = None
           /\ f.id = m.id /\ f.name = m.name /\ f.category = m.category /\ f.city = m.city
           /\ f.countryCode = m.countryCode /\ f.locale = m.locale
           /\ f.contactEmail = m.contactEmail /\ f.yearsInBusiness = m.yearsInBusiness
           /\ f.lastOfferEndedAt = m.lastOfferEndedAt /\ f.seatsOrCapacity = m.seatsOrCapacity
<1>1. f = [m EXCEPT !.websiteUrl = None, !.rating = None, !.reviewCount = None]
  BY DEF Forced
<1> QED BY <1>1 DEF Merchant, Amount

LEMMA ForcedSecond ==
    ASSUME NEW m \in Merchant, NEW used, NEW f \in Forced("high_rating_few_reviews", m, used)
    PROVE  /\ f \in Merchant
           /\ f.websiteUrl = m.websiteUrl /\ f.rating = 490 /\ f.reviewCount = 600
           /\ f.id = m.id /\ f.name = m.name /\ f.category = m.category /\ f.city = m.city
           /\ f.countryCode = m.countryCode /\ f.locale = m.locale
           /\ f.contactEmail = m.contactEmail /\ f.yearsInBusiness = m.yearsInBusiness
           /\ f.lastOfferEndedAt = m.lastOfferEndedAt /\ f.seatsOrCapacity = m.seatsOrCapacity
<1> DEFINE rating == 490
           reviews == 600
<1>1. rating \in Amount /\ reviews \in Amount
  BY DEF Amount
<1>2. f = [m EXCEPT !.rating = rating, !.reviewCount = reviews]
  BY DEF Forced
<1> HIDE DEF rating, reviews
<1>3. f \in Merchant
  BY <1>1, <1>2 DEF Merchant
<1>4. /\ f.websiteUrl = m.websiteUrl /\ f.rating = rating /\ f.reviewCount = reviews
      /\ f.id = m.id /\ f.name = m.name /\ f.category = m.category /\ f.city = m.city
      /\ f.countryCode = m.countryCode /\ f.locale = m.locale
      /\ f.contactEmail = m.contactEmail /\ f.yearsInBusiness = m.yearsInBusiness
      /\ f.lastOfferEndedAt = m.lastOfferEndedAt /\ f.seatsOrCapacity = m.seatsOrCapacity
  BY <1>2 DEF Merchant
<1> QED BY <1>3, <1>4 DEF rating, reviews

Moved(m, p) == [m EXCEPT !.city = p.city, !.countryCode = p.countryCode, !.locale = p.locale]

LEMMA ForcedPlaces ==
    ASSUME NEW m, NEW used
    PROVE  Forced("non_default_locale", m, used) = {Moved(m, p) : p \in Places}
BY DEF Forced, Moved

LEMMA ForcedThird ==
    ASSUME NEW m \in Merchant, NEW used, NEW f \in Forced("non_default_locale", m, used)
    PROVE  \E p \in Places :
           /\ f \in Merchant
           /\ f.websiteUrl = m.websiteUrl /\ f.rating = m.rating /\ f.reviewCount = m.reviewCount
           /\ f.id = m.id /\ f.name = m.name /\ f.category = m.category /\ f.city = p.city
           /\ f.countryCode = p.countryCode /\ f.locale = p.locale
           /\ f.contactEmail = m.contactEmail /\ f.yearsInBusiness = m.yearsInBusiness
           /\ f.lastOfferEndedAt = m.lastOfferEndedAt /\ f.seatsOrCapacity = m.seatsOrCapacity
<1>1. PICK p \in Places : f = Moved(m, p)
  BY ForcedPlaces
<1>2. p.city \in Text /\ p.countryCode \in Countries /\ p.locale \in Locales
  BY PlacesAreSound DEF Places
<1>3. p.countryCode \in Symbols /\ p.locale \in Symbols
  BY <1>2, MerchantsAssumption
<1>4. /\ f \in Merchant
      /\ f.websiteUrl = m.websiteUrl /\ f.rating = m.rating /\ f.reviewCount = m.reviewCount
      /\ f.id = m.id /\ f.name = m.name /\ f.category = m.category /\ f.city = p.city
      /\ f.countryCode = p.countryCode /\ f.locale = p.locale
      /\ f.contactEmail = m.contactEmail /\ f.yearsInBusiness = m.yearsInBusiness
      /\ f.lastOfferEndedAt = m.lastOfferEndedAt /\ f.seatsOrCapacity = m.seatsOrCapacity
  BY <1>1, <1>2, <1>3 DEF Merchant, Moved
<1> QED BY <1>4

\* A merchant that is forced into a case is sound and keeps its id; its address
\* is its own, or one that nobody has.
LEMMA ForcedIsSound ==
    ASSUME NEW m, Sound(m), NEW used \in SUBSET Text, IsFiniteSet(used),
           NEW k \in DOMAIN EDGE_CASES, NEW f \in Forced(EDGE_CASES[k], m, used)
    PROVE  /\ Sound(f)
           /\ f.id = m.id
           /\ \/ f.contactEmail.local = m.contactEmail.local
              \/ f.contactEmail.local \notin used
           /\ k # 5 => Matches(EDGE_CASES[k], f)
<1>1. /\ k \in 1..5
      /\ EDGE_CASES[1] = "no_website_no_rating" /\ EDGE_CASES[2] = "high_rating_few_reviews"
      /\ EDGE_CASES[3] = "non_default_locale" /\ EDGE_CASES[4] = "active_offer"
      /\ EDGE_CASES[5] = "diacritics_and_apostrophe"
  BY DEF EDGE_CASES
<1>2. m \in Merchant
  BY SoundFields
<1>3. CASE k = 1
  <2>1. f \in Forced("no_website_no_rating", m, used)
    BY <1>1, <1>3
  <2>2. /\ f \in Merchant
        /\ f.websiteUrl = None /\ f.rating = None /\ f.reviewCount = None
        /\ f.id = m.id /\ f.name = m.name /\ f.category = m.category /\ f.city = m.city
        /\ f.countryCode = m.countryCode /\ f.locale = m.locale
        /\ f.contactEmail = m.contactEmail /\ f.yearsInBusiness = m.yearsInBusiness
        /\ f.lastOfferEndedAt = m.lastOfferEndedAt /\ f.seatsOrCapacity = m.seatsOrCapacity
    BY <1>2, <2>1, ForcedFirst
  <2>3. Sound(f)
    BY <2>2, SoundFields, PatchedFields DEF TextsFit
  <2>4. Matches(EDGE_CASES[1], f)
    BY <1>1, <2>2 DEF Matches, NothingToUse
  <2> QED BY <1>3, <2>2, <2>3, <2>4
<1>4. CASE k = 2
  <2>1. f \in Forced("high_rating_few_reviews", m, used)
    BY <1>1, <1>4
  <2>2. /\ f \in Merchant
        /\ f.websiteUrl = m.websiteUrl /\ f.rating = 490 /\ f.reviewCount = 600
        /\ f.id = m.id /\ f.name = m.name /\ f.category = m.category /\ f.city = m.city
        /\ f.countryCode = m.countryCode /\ f.locale = m.locale
        /\ f.contactEmail = m.contactEmail /\ f.yearsInBusiness = m.yearsInBusiness
        /\ f.lastOfferEndedAt = m.lastOfferEndedAt /\ f.seatsOrCapacity = m.seatsOrCapacity
    BY <1>2, <2>1, ForcedSecond
  <2>3. InRange(490) /\ IsCount(600) /\ FitsInteger(600)
    <3>1. 600 \div 100 = 6 /\ 600 % 100 = 0 /\ 6 \in 0..MaxInteger
      BY MaxIntegerIs
    <3> QED BY <3>1 DEF InRange, IsCount, IsWhole, FitsInteger
  <2>4. Sound(f)
    BY <2>2, <2>3, SoundFields, PatchedFields DEF TextsFit
  <2>5. Matches(EDGE_CASES[2], f)
    <3>1. f.rating # None /\ f.reviewCount # None
      BY <2>2, NoneIsNoValue
    <3> QED BY <1>1, <2>2, <3>1 DEF Matches, HighOnFew
  <2> QED BY <1>4, <2>2, <2>4, <2>5
<1>5. CASE k = 3
  <2>1. f \in Forced("non_default_locale", m, used)
    BY <1>1, <1>5
  <2>2. PICK p \in Places :
        /\ f \in Merchant
        /\ f.websiteUrl = m.websiteUrl /\ f.rating = m.rating /\ f.reviewCount = m.reviewCount
        /\ f.id = m.id /\ f.name = m.name /\ f.category = m.category /\ f.city = p.city
        /\ f.countryCode = p.countryCode /\ f.locale = p.locale
        /\ f.contactEmail = m.contactEmail /\ f.yearsInBusiness = m.yearsInBusiness
        /\ f.lastOfferEndedAt = m.lastOfferEndedAt /\ f.seatsOrCapacity = m.seatsOrCapacity
    BY <1>2, <2>1, ForcedThird
  <2>3. /\ IsNonEmpty(p.city) /\ FitsText(p.city) /\ Indexable(p.city) /\ p.countryCode \in Countries
        /\ p.locale \in Locales /\ p.locale # DefaultLocale
    BY PlacesAreSound DEF Places
  <2>4. Sound(f)
    BY <2>2, <2>3, SoundFields, PatchedFields DEF TextsFit
  <2>5. Matches(EDGE_CASES[3], f)
    BY <1>1, <2>2, <2>3 DEF Matches
  <2> QED BY <1>5, <2>2, <2>4, <2>5
<1>6. CASE k = 4
  <2>1. f = [m EXCEPT !.hasActiveOffer = TRUE, !.lastOfferEndedAt = None]
    BY <1>1, <1>6 DEF Forced
  <2>2. /\ f \in Merchant
        /\ f.websiteUrl = m.websiteUrl /\ f.rating = m.rating /\ f.reviewCount = m.reviewCount
        /\ f.id = m.id /\ f.name = m.name /\ f.category = m.category /\ f.city = m.city
        /\ f.countryCode = m.countryCode /\ f.locale = m.locale
        /\ f.contactEmail = m.contactEmail /\ f.yearsInBusiness = m.yearsInBusiness
        /\ f.lastOfferEndedAt = None /\ f.seatsOrCapacity = m.seatsOrCapacity
    BY <1>2, <2>1 DEF Merchant
  <2>3. Sound(f)
    BY <2>2, SoundFields, PatchedFields DEF TextsFit
  <2>4. f.hasActiveOffer = TRUE
    BY <1>2, <2>1 DEF Merchant
  <2>5. Matches(EDGE_CASES[4], f)
    BY <1>1, <2>4 DEF Matches
  <2> QED BY <1>6, <2>2, <2>3, <2>5
<1>7. CASE k = 5
  <2>1. PICK owner \in AccentedOwnerNames, noun \in Nouns[m.category] :
            f = Renamed(m, OwnedBy(owner, noun), used)
    BY <1>1, <1>7 DEF Forced
  <2> DEFINE name == OwnedBy(owner, noun)
             local == UniqueLocal(name, used)
             email == Email(local)
             site == WebsiteOf(m, email)
  <2>2. Named(name)
    <3>1. m.category \in MERCHANT_CATEGORIES
      BY SoundFields
    <3> QED BY <3>1, OwnedByIsNamed
  <2>3. local \in Text /\ local \notin used /\ local # <<>> /\ FitsText(local)
    BY <2>2, LocalIsFree, FitsIsPlain DEF Named
  <2>4. /\ email \in [local : Text, domain : Symbols] /\ email.local = local
        /\ IsSynthetic(email)
    BY <2>3, MerchantsAssumption DEF Email, IsSynthetic
  <2>5. /\ site \in {None} \cup Website
        /\ site # None => IsHttp(site) /\ site.host = email.local
    BY <2>3, <2>4, SymbolsAssumption DEF WebsiteOf, WebsiteFor, Website, IsHttp
  <2>6. IsNonEmpty(name) /\ IsTrimmed(name) /\ name \in Text /\ FitsText(name)
    <3>1. 1 \in DOMAIN name /\ Head(name) = name[1]
      BY <2>2, EndsOf DEF Named
    <3>2. name \in Text /\ FitsText(name)
      BY <2>2, FitsIsPlain DEF Named
    <3> QED BY <2>2, <3>1, <3>2 DEF Named, IsTrimmed, IsNonEmpty
  <2>7. f = [m EXCEPT !.name = name, !.contactEmail = email, !.websiteUrl = site]
    BY <2>1 DEF Renamed
  <2> HIDE DEF name, local, email, site
  <2>8. /\ f \in Merchant
        /\ f.websiteUrl = site /\ f.rating = m.rating /\ f.reviewCount = m.reviewCount
        /\ f.id = m.id /\ f.name = name /\ f.category = m.category /\ f.city = m.city
        /\ f.countryCode = m.countryCode /\ f.locale = m.locale
        /\ f.contactEmail = email /\ f.yearsInBusiness = m.yearsInBusiness
        /\ f.lastOfferEndedAt = m.lastOfferEndedAt /\ f.seatsOrCapacity = m.seatsOrCapacity
    BY <1>2, <2>4, <2>5, <2>6, <2>7 DEF Merchant
  <2>9. Sound(f)
    BY <2>3, <2>4, <2>5, <2>6, <2>8, SoundFields, PatchedFields DEF TextsFit
  <2> QED BY <1>7, <2>3, <2>4, <2>8, <2>9
<1> QED BY <1>1, <1>3, <1>4, <1>5, <1>6, <1>7

-----------------------------------------------------------------------------
(* Chunks. *)

LEMMA LeastOfTwo ==
    ASSUME NEW a \in Int, NEW b \in Int
    PROVE  /\ Min({a, b}) = IF a <= b THEN a ELSE b
           /\ Max({a, b}) = IF a <= b THEN b ELSE a
<1>1. \E x \in {a, b} : \A y \in {a, b} : x <= y
  OBVIOUS
<1>2. \E x \in {a, b} : \A y \in {a, b} : x >= y
  OBVIOUS
<1>3. Min({a, b}) \in {a, b} /\ \A y \in {a, b} : Min({a, b}) <= y
  BY <1>1 DEF Min
<1>4. Max({a, b}) \in {a, b} /\ \A y \in {a, b} : Max({a, b}) >= y
  BY <1>2 DEF Max
<1> QED BY <1>3, <1>4

\* A chunk holds merchants of the batch that follow each other, no more than the
\* size of a request, and one at least while some are left.
LEMMA ChunkIs ==
    ASSUME batch \in Seq(Merchant), size \in Nat \ {0}, next \in Nat \ {0}
    PROVE  /\ Chunk(next) \in Seq(Merchant)
           /\ Len(Chunk(next)) \in 0..size
           /\ DOMAIN Chunk(next) = 1..Len(Chunk(next))
           /\ next <= Len(batch) => /\ Len(Chunk(next)) >= 1
                                    /\ next + Len(Chunk(next)) <= Len(batch) + 1
           /\ \A i \in DOMAIN Chunk(next) :
                  next + i - 1 \in DOMAIN batch /\ Chunk(next)[i] = batch[next + i - 1]
<1> DEFINE to == Min({next + size - 1, Len(batch)})
           chunk == SubSeq(batch, next, to)
<1>1. Chunk(next) = chunk
  BY DEF Chunk
<1>2. Len(batch) \in Nat /\ DOMAIN batch = 1..Len(batch) /\ \A i \in 1..Len(batch) : batch[i] \in Merchant
  BY LenProperties, ElementOfSeq
<1>3. to \in Int /\ to <= Len(batch) /\ to <= next + size - 1
      /\ (to = Len(batch) \/ to = next + size - 1)
  <2> DEFINE a == next + size - 1
             b == Len(batch)
  <2>1. a \in Int /\ b \in Int
    BY <1>2
  <2>2. Min({a, b}) = IF a <= b THEN a ELSE b
    <3> HIDE DEF a, b
    <3> QED BY <2>1, LeastOfTwo
  <2> QED BY <2>1, <2>2
<1> HIDE DEF to
<1> DEFINE len == Len(batch)
<1>a. len \in Nat /\ next \in Int /\ next >= 1 /\ size \in Int /\ size >= 1
      /\ to \in Int /\ to <= len /\ to <= next + size - 1 /\ (to = len \/ to = next + size - 1)
  <2>1. next \in Int /\ next >= 1 /\ size \in Int /\ size >= 1
    OBVIOUS
  <2> QED BY <1>2, <1>3, <2>1
<1>b. DOMAIN batch = 1..len
  BY <1>2
<1> HIDE DEF len
<1>c. \A i \in next..to : i \in 1..len
  BY <1>a
<1>4. \A i \in next..to : batch[i] \in Merchant
  BY <1>2, <1>c DEF len
<1>5. /\ chunk \in Seq(Merchant)
      /\ Len(chunk) = IF next <= to THEN to - next + 1 ELSE 0
      /\ \A i \in 1..(to - next + 1) : chunk[i] = batch[next + i - 1]
  BY <1>3, <1>4, SubSeqProperties
<1> HIDE DEF chunk
<1>6. DOMAIN chunk = 1..Len(chunk)
  BY <1>5, LenProperties
<1>7. Len(chunk) \in 0..size
  BY <1>3, <1>5
<1>8. next <= Len(batch) => Len(chunk) >= 1 /\ next + Len(chunk) <= Len(batch) + 1
  <2>1. next <= len => next <= to /\ to - next + 1 >= 1 /\ next + (to - next + 1) <= len + 1
    BY <1>a
  <2> QED BY <1>5, <2>1 DEF len
<1>9. ASSUME NEW i \in DOMAIN chunk
      PROVE  next + i - 1 \in DOMAIN batch /\ chunk[i] = batch[next + i - 1]
  <2>1. i \in 1..(to - next + 1)
    BY <1>3, <1>5, <1>6
  <2>2. next + i - 1 \in 1..len
    BY <1>a, <2>1
  <2> QED BY <1>b, <1>5, <2>1, <2>2
<1> QED BY <1>1, <1>5, <1>6, <1>7, <1>8, <1>9

\* What fails though it was accepted violates no CHECK.
LEMMA FailedMeetsChecks ==
    ASSUME batch \in Seq(Merchant), size \in Nat \ {0}, next \in Nat \ {0},
           Outcome(Chunk(next)) = "failed"
    PROVE  \A i \in DOMAIN Chunk(next) : MeetsChecks(Chunk(next)[i])
<1> DEFINE chunk == Chunk(next)
<1>1. IsValidBatch(chunk, MAX_BATCH_SIZE)
  BY DEF Outcome
<1>2. \A i \in DOMAIN chunk : IsValid(chunk[i])
  BY <1>1 DEF IsValidBatch
<1>3. chunk \in Seq(Merchant) /\ DOMAIN chunk = 1..Len(chunk)
  BY ChunkIs
<1> HIDE DEF chunk
<1>4. \A i \in DOMAIN chunk : chunk[i] \in Merchant
  BY <1>3, ElementOfSeq
<1>5. \A i \in DOMAIN chunk : MeetsChecks(chunk[i])
  BY <1>2, <1>4, ValidMeetsChecks
<1> QED BY <1>5 DEF chunk

\* A chunk of sound merchants in the order of their ids is stored.
LEMMA SoundIsSeeded ==
    ASSUME batch \in Seq(Merchant), size = CHUNK_SIZE, next \in Nat \ {0}, next <= Len(batch),
           \A i \in DOMAIN batch : Sound(batch[i]) /\ batch[i].id = Id(i)
    PROVE  Outcome(Chunk(next)) = "seeded"
<1> DEFINE chunk == Chunk(next)
<1>1. CHUNK_SIZE \in Int /\ CHUNK_SIZE >= 1 /\ CHUNK_SIZE <= MAX_BATCH_SIZE /\ MAX_BATCH_SIZE \in Int
  <2>1. CHUNK_SIZE \in 1..MAX_BATCH_SIZE
    BY SeedingAssumption
  <2>2. MAX_BATCH_SIZE \in Int
    BY SeedingAssumption
  <2> QED BY <2>1, <2>2
<1>2. size \in Nat \ {0}
  BY <1>1
<1>3. /\ chunk \in Seq(Merchant)
      /\ Len(chunk) \in 0..size /\ Len(chunk) >= 1
      /\ DOMAIN chunk = 1..Len(chunk)
      /\ \A i \in DOMAIN chunk : next + i - 1 \in DOMAIN batch /\ chunk[i] = batch[next + i - 1]
  BY <1>2, ChunkIs
<1> HIDE DEF chunk
<1>4. \A i \in DOMAIN chunk : IsValid(chunk[i]) /\ FitsColumns(chunk[i]) /\ MeetsChecks(chunk[i])
  <2> TAKE i \in DOMAIN chunk
  <2>1. Sound(chunk[i])
    BY <1>3
  <2>2. chunk[i] \in Merchant /\ IsValid(chunk[i]) /\ FitsColumns(chunk[i])
    BY <2>1 DEF Sound
  <2> QED BY <2>2, ValidMeetsChecks
<1>5. \A i, j \in DOMAIN chunk : chunk[i].id = chunk[j].id => i = j
  <2> SUFFICES ASSUME NEW i \in DOMAIN chunk, NEW j \in DOMAIN chunk, chunk[i].id = chunk[j].id
               PROVE  i = j
    OBVIOUS
  <2>1. Id(next + i - 1) = Id(next + j - 1)
    BY <1>3
  <2>2. i \in Nat \ {0} /\ j \in Nat \ {0}
    BY <1>3
  <2>3. next + i - 1 \in Nat \ {0} /\ next + j - 1 \in Nat \ {0}
    BY <2>2
  <2>4. next + i - 1 = next + j - 1
    BY <2>1, <2>3, IdsDiffer
  <2> QED BY <2>2, <2>4
<1>6. IsValidBatch(chunk, MAX_BATCH_SIZE)
  <2>1. Len(chunk) \in 1..MAX_BATCH_SIZE
    BY <1>1, <1>3
  <2> QED BY <1>4, <1>5, <2>1 DEF IsValidBatch
<1> QED BY <1>4, <1>6 DEF Outcome, chunk

-----------------------------------------------------------------------------
(* The inductive invariants. *)

Phases == {"sampling", "forcing", "patching", "gave up", "posting", "seeded", "refused", "failed"}
Generating == {"sampling", "forcing", "patching"}

TypeOK ==
    /\ pc \in Phases /\ origin \in {"generator", "caller"}
    /\ pc \in Generating => origin = "generator" /\ next = 1
    /\ batch \in Seq(Merchant)
    /\ taken \in SUBSET Text /\ IsFiniteSet(taken)
    /\ case \in Nat /\ case >= 1
    /\ pc \in Generating => case \in 1..5
    /\ pc = "sampling" => case = 1
    /\ missing \in Nat
    /\ eligible \subseteq DOMAIN batch
    /\ size \in Nat \ {0} /\ next \in Nat \ {0}
    /\ IsFiniteSet(DOMAIN rows)

\* What was generated is sound, in the order of its ids, at addresses of its own,
\* and there is a chunk of it to post.
GeneratedIsSound ==
    origin = "generator" =>
        /\ \A i \in DOMAIN batch :
              /\ Sound(batch[i])
              /\ batch[i].id = Id(i)
              /\ batch[i].contactEmail.local \in taken
        /\ \A i, j \in DOMAIN batch :
              batch[i].contactEmail.local = batch[j].contactEmail.local => i = j
        /\ size = CHUNK_SIZE
        /\ pc \in {"forcing", "patching"} => Len(batch) >= 1
        /\ pc = "posting" => next <= Len(batch)
        /\ pc \notin {"refused", "failed"}

\* A case that is done is covered.  While one is patched, the merchants that are
\* left to patch match no case, and as many as are missing make it covered.
CasesAreKept ==
    origin = "generator" /\ pc # "sampling" =>
        /\ \A k \in 1..4 : k < case => IsCoveredIn(EDGE_CASES[k], batch)
        /\ pc = "patching" => \A i \in eligible : MatchesNone(batch[i])
        /\ pc = "patching" /\ case <= 4 =>
               Cardinality(Covering(Case, batch)) + missing >= MIN_PER_EDGE_CASE

\* What is due is listed, at the offset or after it, unless the list has shrunk.
DueIsAhead ==
    /\ origin = "caller" =>
          DOMAIN rows \subseteq PostedIds /\ \A i \in DOMAIN batch : batch[i].id \in PostedIds
    /\ listing \in [limit : Nat, offset : Nat, category : {None} \cup MERCHANT_CATEGORIES,
                   due : SUBSET DOMAIN rows, shrunk : BOOLEAN]
    /\ listing.limit # 0 => origin = "caller"
    /\ ~listing.shrunk =>
          /\ \A id \in listing.due : id \in Listed /\ Position(id) >= listing.offset
          /\ listing.limit = 0 => listing.due = {}

GInv == TypeOK /\ GeneratedIsSound

LEMMA CasesAreFive ==
    DOMAIN EDGE_CASES = 1..5 /\ Len(EDGE_CASES) = 5
BY DEF EDGE_CASES

LEMMA BatchIs ==
    ASSUME TypeOK
    PROVE  /\ Len(batch) \in Nat /\ DOMAIN batch = 1..Len(batch)
           /\ \A i \in DOMAIN batch : batch[i] \in Merchant
BY LenProperties, ElementOfSeq DEF TypeOK

LEMMA InitIsSound == Init => GInv
<1> SUFFICES ASSUME Init
             PROVE  GInv
  OBVIOUS
<1>1. CHUNK_SIZE \in Nat \ {0}
  BY SeedingAssumption
<1>2. taken \in SUBSET Text /\ IsFiniteSet(taken) /\ IsFiniteSet(DOMAIN rows)
  <2>1. IsFiniteSet({})
    BY FS_EmptySet
  <2>2. taken = {} /\ rows = <<>>
    BY DEF Init
  <2>3. DOMAIN rows = {}
    BY <2>2
  <2> QED BY <2>1, <2>2, <2>3
<1>3. /\ next \in Nat \ {0} /\ next = 1 /\ case = 1 /\ missing \in Nat
      /\ eligible \subseteq DOMAIN batch
  BY DEF Init
<1>4. CASE pc = "sampling" /\ origin = "generator" /\ batch = <<>> /\ size = CHUNK_SIZE
  <2>1. batch \in Seq(Merchant) /\ DOMAIN batch = {} /\ size \in Nat \ {0}
    BY <1>1, <1>4
  <2>2. TypeOK
    BY <1>2, <1>3, <1>4, <2>1 DEF TypeOK, Phases, Generating
  <2>3. GeneratedIsSound
    BY <1>4, <2>1 DEF GeneratedIsSound
  <2> QED BY <2>2, <2>3 DEF GInv
<1>5. ASSUME NEW post \in Posts,
             pc = "posting" /\ origin = "caller" /\ batch = post.batch /\ size = post.size
      PROVE  GInv
  <2>1. batch \in Seq(Merchant) /\ size \in Nat \ {0}
    BY <1>5, SeedingAssumption
  <2>2. TypeOK
    BY <1>2, <1>3, <1>5, <2>1 DEF TypeOK, Phases, Generating
  <2>3. GeneratedIsSound
    BY <1>5 DEF GeneratedIsSound
  <2> QED BY <2>2, <2>3 DEF GInv
<1> QED BY <1>4, <1>5 DEF Init

LEMMA SampleKeeps ==
    ASSUME GInv, NEW draw \in DOMAIN Draws, Sample(draw)
    PROVE  GInv'
<1> DEFINE n == Len(batch) + 1
           m == BuildMerchant(n, Draws[draw], taken)
<1>1. TypeOK /\ GeneratedIsSound
  BY DEF GInv
<1>2. /\ Len(batch) \in Nat /\ DOMAIN batch = 1..Len(batch) /\ batch \in Seq(Merchant)
      /\ n \in Nat \ {0}
  BY <1>1, BatchIs DEF TypeOK
<1>3. /\ taken \in SUBSET Text /\ IsFiniteSet(taken) /\ origin = "generator" /\ next = 1
      /\ case = 1 /\ pc = "sampling"
  BY <1>1 DEF TypeOK, Sample, Generating
<1>4. Sound(m) /\ m.id = Id(n) /\ m.contactEmail.local \notin taken
  <2>1. IsDraw(Draws[draw])
    BY GeneratorAssumption
  <2>2. Indexable(Id(n))
    <3>1. Len(batch) < Count /\ Count \in Nat
      BY SeedingAssumption DEF Sample
    <3>2. n \in 1..Count
      BY <1>2, <3>1
    <3> QED BY <3>2, SeedingAssumption
  <2> QED BY <1>2, <1>3, <2>1, <2>2, BuiltIsSound
<1>5. batch' = Append(batch, m) /\ taken' = taken \cup {m.contactEmail.local}
  BY DEF Sample
<1>6. /\ pc' \in {"sampling", "forcing"}
      /\ UNCHANGED <<origin, case, missing, eligible, size, next, rows>>
  BY DEF Sample, sending
<1> HIDE DEF m
<1>7. m \in Merchant /\ m.contactEmail.local \in Text
  BY <1>4, SoundFields
<1>8. /\ batch' \in Seq(Merchant) /\ Len(batch') = n /\ DOMAIN batch' = 1..n
      /\ \A i \in DOMAIN batch : batch'[i] = batch[i]
      /\ batch'[n] = m
  <2>1. /\ Append(batch, m) \in Seq(Merchant)
        /\ Len(Append(batch, m)) = Len(batch) + 1
        /\ \A i \in 1..Len(batch) : Append(batch, m)[i] = batch[i]
        /\ Append(batch, m)[Len(batch) + 1] = m
    BY <1>2, <1>7, AppendProperties
  <2> QED BY <1>2, <1>5, <2>1, LenProperties
<1>9. taken' \in SUBSET Text /\ IsFiniteSet(taken')
  BY <1>3, <1>5, <1>7, FS_AddElement
<1>10. \A i \in DOMAIN batch' : i \in DOMAIN batch \/ i = n
  BY <1>2, <1>8
<1>11. DOMAIN batch \subseteq DOMAIN batch'
  BY <1>2, <1>8
<1>12. TypeOK'
  BY <1>1, <1>3, <1>6, <1>8, <1>9, <1>11 DEF TypeOK, Phases, Generating
<1>13. \A i \in DOMAIN batch :
           /\ Sound(batch[i]) /\ batch[i].id = Id(i)
           /\ batch[i].contactEmail.local \in taken
  BY <1>1, <1>3 DEF GeneratedIsSound
<1>14. \A i \in DOMAIN batch' :
           /\ Sound(batch'[i]) /\ batch'[i].id = Id(i)
           /\ batch'[i].contactEmail.local \in taken'
  BY <1>4, <1>5, <1>8, <1>10, <1>13
<1>15. \A i, j \in DOMAIN batch' :
           batch'[i].contactEmail.local = batch'[j].contactEmail.local => i = j
  <2>1. \A i, j \in DOMAIN batch :
            batch[i].contactEmail.local = batch[j].contactEmail.local => i = j
    BY <1>1, <1>3 DEF GeneratedIsSound
  <2> QED BY <1>4, <1>8, <1>10, <1>13, <2>1
<1>16. size = CHUNK_SIZE
  BY <1>1, <1>3 DEF GeneratedIsSound
<1>17. GeneratedIsSound'
  BY <1>2, <1>6, <1>8, <1>14, <1>15, <1>16 DEF GeneratedIsSound
<1> QED BY <1>12, <1>17 DEF GInv

LEMMA NextCaseKeeps ==
    ASSUME GInv, pc \in {"forcing", "patching"}, NextCase
    PROVE  GInv'
<1>1. TypeOK /\ GeneratedIsSound
  BY DEF GInv
<1>2. /\ origin = "generator" /\ next = 1 /\ case \in 1..5
  BY <1>1 DEF TypeOK, Generating
<1>3. /\ case' = case + 1 /\ missing' = 0 /\ eligible' = {}
      /\ pc' = IF case = 5 THEN "posting" ELSE "forcing"
      /\ UNCHANGED <<origin, batch, taken, size, next, rows>>
  BY CasesAreFive DEF NextCase, sending
<1>4. /\ case' \in Nat /\ case' >= 1 /\ (pc' = "forcing" => case' \in 1..5)
      /\ pc' \in {"forcing", "posting"}
  BY <1>2, <1>3
<1>5. TypeOK'
  BY <1>1, <1>2, <1>3, <1>4 DEF TypeOK, Phases, Generating
<1>6. Len(batch) >= 1
  BY <1>1, <1>2 DEF GeneratedIsSound
<1>7. GeneratedIsSound'
  BY <1>1, <1>2, <1>3, <1>4, <1>6 DEF GeneratedIsSound
<1> QED BY <1>5, <1>7 DEF GInv

LEMMA PatchKeeps ==
    ASSUME GInv, NEW i \in 1..Count, Patch(i)
    PROVE  GInv'
<1>1. TypeOK /\ GeneratedIsSound
  BY DEF GInv
<1>2. /\ pc = "patching" /\ origin = "generator" /\ next = 1 /\ case \in 1..5
      /\ i \in DOMAIN batch /\ missing \in Nat /\ missing > 0
      /\ batch \in Seq(Merchant) /\ taken \in SUBSET Text /\ IsFiniteSet(taken)
  BY <1>1 DEF TypeOK, Generating, Patch
<1>3. PICK f \in Forced(Case, batch[i], taken) :
          /\ batch' = [batch EXCEPT ![i] = f]
          /\ taken' = taken \cup {f.contactEmail.local}
  BY DEF Patch
<1>4. /\ eligible' = eligible \ {i} /\ missing' = missing - 1
      /\ UNCHANGED <<pc, origin, case, size, next, rows>>
  BY DEF Patch, sending
<1>5. \A j \in DOMAIN batch :
          /\ Sound(batch[j]) /\ batch[j].id = Id(j)
          /\ batch[j].contactEmail.local \in taken
  BY <1>1, <1>2 DEF GeneratedIsSound
<1>6. /\ Sound(f) /\ f.id = batch[i].id
      /\ \/ f.contactEmail.local = batch[i].contactEmail.local
         \/ f.contactEmail.local \notin taken
  <2>1. case \in DOMAIN EDGE_CASES /\ Sound(batch[i])
    BY <1>2, <1>5, CasesAreFive
  <2>2. f \in Forced(EDGE_CASES[case], batch[i], taken)
    BY DEF Case
  <2> DEFINE m == batch[i]
  <2> HIDE DEF m
  <2> QED BY <1>2, <2>1, <2>2, ForcedIsSound DEF m
<1>7. f \in Merchant /\ f.contactEmail.local \in Text
  BY <1>6, SoundFields
<1>8. /\ batch' \in Seq(Merchant) /\ Len(batch') = Len(batch) /\ DOMAIN batch' = DOMAIN batch
      /\ \A j \in DOMAIN batch : batch'[j] = IF j = i THEN f ELSE batch[j]
  <2>1. i \in 1..Len(batch) /\ DOMAIN batch = 1..Len(batch)
    BY <1>1, <1>2, BatchIs
  <2>2. /\ [batch EXCEPT ![i] = f] \in Seq(Merchant)
        /\ Len([batch EXCEPT ![i] = f]) = Len(batch)
        /\ \A j \in 1..Len(batch) : [batch EXCEPT ![i] = f][j] = IF j = i THEN f ELSE batch[j]
    BY <1>2, <1>7, <2>1, ExceptSeq
  <2> QED BY <1>3, <2>1, <2>2, LenProperties
<1>9. taken' \in SUBSET Text /\ IsFiniteSet(taken')
  BY <1>2, <1>3, <1>7, FS_AddElement
<1>10. missing' \in Nat /\ eligible' \subseteq DOMAIN batch'
  BY <1>1, <1>2, <1>4, <1>8 DEF TypeOK
<1>11. TypeOK'
  BY <1>1, <1>2, <1>4, <1>8, <1>9, <1>10 DEF TypeOK, Phases, Generating
<1>12. \A j \in DOMAIN batch' :
           /\ Sound(batch'[j]) /\ batch'[j].id = Id(j)
           /\ batch'[j].contactEmail.local \in taken'
  BY <1>2, <1>3, <1>5, <1>6, <1>8
<1>13. \A j, k \in DOMAIN batch' :
           batch'[j].contactEmail.local = batch'[k].contactEmail.local => j = k
  <2>1. \A j, k \in DOMAIN batch :
            batch[j].contactEmail.local = batch[k].contactEmail.local => j = k
    BY <1>1, <1>2 DEF GeneratedIsSound
  <2> QED BY <1>2, <1>5, <1>6, <1>8, <2>1
<1>14. size = CHUNK_SIZE /\ Len(batch) >= 1
  BY <1>1, <1>2 DEF GeneratedIsSound
<1>15. GeneratedIsSound'
  BY <1>2, <1>4, <1>8, <1>12, <1>13, <1>14 DEF GeneratedIsSound
<1> QED BY <1>11, <1>15 DEF GInv

LEMMA LandKeeps ==
    ASSUME GInv, NEW now \in Nows, Land(now)
    PROVE  GInv'
<1> DEFINE chunk == Chunk(next)
           new == {chunk[i].id : i \in DOMAIN chunk}
<1>1. TypeOK /\ GeneratedIsSound /\ pc = "posting"
  BY DEF GInv, Land
<1>2. /\ batch \in Seq(Merchant) /\ size \in Nat \ {0} /\ next \in Nat \ {0}
  BY <1>1 DEF TypeOK
<1>3. /\ Len(chunk) \in Nat /\ DOMAIN chunk = 1..Len(chunk)
      /\ next <= Len(batch) => next + Len(chunk) <= Len(batch) + 1
  BY <1>2, ChunkIs
<1>4. /\ DOMAIN rows' = DOMAIN rows \cup new
      /\ next' = next + Len(chunk)
      /\ pc' = IF next' > Len(batch) THEN "seeded" ELSE "posting"
      /\ UNCHANGED <<origin, batch, taken, case, missing, eligible, size>>
  BY DEF Land, generating
<1> HIDE DEF chunk
<1>5. IsFiniteSet(DOMAIN rows')
  <2>1. IsFiniteSet(DOMAIN chunk)
    BY <1>3, FS_Interval
  <2>2. IsFiniteSet(new)
    <3> DEFINE f == [i \in DOMAIN chunk |-> chunk[i].id]
    <3>1. f \in Surjection(DOMAIN chunk, new)
      BY DEF Surjection
    <3> HIDE DEF f, new
    <3> QED BY <2>1, <3>1, FS_Surjection
  <2> HIDE DEF new
  <2> QED BY <1>1, <1>4, <2>2, FS_Union DEF TypeOK
<1>6. next' \in Nat \ {0}
  BY <1>2, <1>3, <1>4
<1>7. TypeOK'
  BY <1>1, <1>4, <1>5, <1>6 DEF TypeOK, Phases, Generating
<1>8. Len(batch) \in Nat
  BY <1>1, BatchIs
<1>9. pc' = "posting" => next' <= Len(batch')
  BY <1>4, <1>6, <1>8
<1>10. GeneratedIsSound'
  BY <1>1, <1>4, <1>9 DEF GeneratedIsSound
<1> QED BY <1>7, <1>10 DEF GInv

LEMMA FailKeeps ==
    ASSUME GInv, Fail
    PROVE  GInv'
<1>1. TypeOK /\ GeneratedIsSound /\ pc = "posting" /\ Outcome(Chunk(next)) # "seeded"
  BY DEF GInv, Fail
<1>2. /\ pc' \in {"refused", "failed"}
      /\ UNCHANGED <<origin, batch, taken, case, missing, eligible, size, next, rows>>
  BY <1>1 DEF Fail, Outcome, generating, sending
<1>3. TypeOK'
  BY <1>1, <1>2 DEF TypeOK, Phases, Generating
<1>4. origin # "generator"
  <2> SUFFICES ASSUME origin = "generator"
               PROVE  FALSE
    OBVIOUS
  <2>1. /\ size = CHUNK_SIZE /\ next <= Len(batch)
        /\ \A i \in DOMAIN batch : Sound(batch[i]) /\ batch[i].id = Id(i)
    BY <1>1 DEF GeneratedIsSound
  <2>2. batch \in Seq(Merchant) /\ next \in Nat \ {0}
    BY <1>1 DEF TypeOK
  <2> QED BY <1>1, <2>1, <2>2, SoundIsSeeded
<1>5. GeneratedIsSound'
  BY <1>2, <1>4 DEF GeneratedIsSound
<1> QED BY <1>3, <1>5 DEF GInv

LEMMA StepKeeps == GInv /\ [Next]_vars => GInv'
<1> SUFFICES ASSUME GInv, [Next]_vars
             PROVE  GInv'
  OBVIOUS
<1>1. TypeOK /\ GeneratedIsSound
  BY DEF GInv
<1>2. CASE \E draw \in DOMAIN Draws : Sample(draw)
  BY <1>2, SampleKeeps
<1>3. CASE CaseIsCovered
  BY <1>3, NextCaseKeeps DEF CaseIsCovered
<1>4. CASE CannotGuarantee
  <2>1. /\ pc = "forcing" /\ pc' = "gave up"
        /\ UNCHANGED <<origin, batch, taken, case, missing, eligible, size, next, rows>>
    BY <1>4 DEF CannotGuarantee, generating, sending
  <2> QED BY <1>1, <2>1 DEF GInv, TypeOK, GeneratedIsSound, Phases, Generating
<1>5. CASE BeginPatching
  <2>1. /\ pc = "forcing" /\ pc' = "patching" /\ missing' = Lacking
        /\ Lacking \in 1..Cardinality(Neutral(Case, batch))
        /\ eligible' = Neutral(Case, batch)
        /\ UNCHANGED <<origin, batch, taken, case, size, next, rows>>
    BY <1>5 DEF BeginPatching, sending
  <2>2. missing' \in Nat
    BY <2>1
  <2>3. eligible' \subseteq DOMAIN batch
    BY <2>1 DEF Neutral
  <2>4. TypeOK'
    BY <1>1, <2>1, <2>2, <2>3 DEF TypeOK, Phases, Generating
  <2>5. GeneratedIsSound'
    BY <1>1, <2>1 DEF GeneratedIsSound
  <2> QED BY <2>4, <2>5 DEF GInv
<1>6. CASE \E i \in 1..Count : Patch(i)
  BY <1>6, PatchKeeps
<1>7. CASE CaseIsPatched
  BY <1>7, NextCaseKeeps DEF CaseIsPatched
<1>8. CASE \E now \in Nows : Land(now)
  BY <1>8, LandKeeps
<1>9. CASE Fail
  BY <1>9, FailKeeps
<1>10. ASSUME UNCHANGED <<pc, origin, batch, generating, size, next, rows>>
       PROVE  GInv'
  BY <1>1, <1>10 DEF GInv, TypeOK, GeneratedIsSound, generating
<1>11. CASE \E limit \in PageLimits, category \in PageCategories : BeginListing(limit, category)
  BY <1>10, <1>11 DEF BeginListing
<1>12. CASE ReadPage
  BY <1>10, <1>12 DEF ReadPage
<1>13. CASE UNCHANGED vars
  BY <1>10, <1>13 DEF vars, sending, generating
<1> QED BY <1>2, <1>3, <1>4, <1>5, <1>6, <1>7, <1>8, <1>9, <1>11, <1>12, <1>13 DEF Next

LEMMA TypesAndGenerated == Spec => []GInv
BY InitIsSound, StepKeeps, PTL DEF Spec

\* Of what validation accepts no statement fails for a CHECK, for any posts
\* (validateBatch and 1_merchants.up.sql).
THEOREM AcceptedAlwaysMeetsChecks == Spec => []AcceptedMeetsChecks
<1>1. Init => AcceptedMeetsChecks
  BY DEF Init, AcceptedMeetsChecks
<1>2. ASSUME GInv, AcceptedMeetsChecks, [Next]_vars
      PROVE  AcceptedMeetsChecks'
  <2> SUFFICES ASSUME pc' = "failed"
               PROVE  (\A i \in DOMAIN Chunk(next) : MeetsChecks(Chunk(next)[i]))'
    BY DEF AcceptedMeetsChecks
  <2>1. CASE Fail
    <3>1. /\ UNCHANGED <<batch, size, next>> /\ Outcome(Chunk(next)) = "failed"
          /\ batch \in Seq(Merchant) /\ size \in Nat \ {0} /\ next \in Nat \ {0}
      BY <1>2, <2>1 DEF Fail, sending, GInv, TypeOK
    <3>2. Chunk(next)' = Chunk(next)
      BY <3>1 DEF Chunk
    <3> QED BY <3>1, <3>2, FailedMeetsChecks
  <2>2. CASE UNCHANGED <<pc, batch, size, next>>
    <3>1. Chunk(next)' = Chunk(next)
      BY <2>2 DEF Chunk
    <3> QED BY <1>2, <2>2, <3>1 DEF AcceptedMeetsChecks
  <2>3. CASE UNCHANGED vars
    BY <2>2, <2>3 DEF vars, sending
  <2>4. ASSUME NEW draw \in DOMAIN Draws, Sample(draw)
        PROVE  FALSE
    BY <2>4 DEF Sample
  <2>5. CASE NextCase
    BY <2>5 DEF NextCase
  <2>6. ASSUME NEW now \in Nows, Land(now)
        PROVE  FALSE
    BY <2>6 DEF Land
  <2>7. ASSUME NEW i \in 1..Count, Patch(i)
        PROVE  FALSE
    BY <2>7 DEF Patch
  <2>8. ASSUME NEW limit \in PageLimits, NEW category \in PageCategories,
             BeginListing(limit, category)
        PROVE  UNCHANGED <<pc, batch, size, next>>
    BY <2>8 DEF BeginListing
  <2>9. ReadPage => UNCHANGED <<pc, batch, size, next>>
    BY DEF ReadPage
  <2>10. ~ CannotGuarantee /\ ~ BeginPatching
    BY DEF CannotGuarantee, BeginPatching
  <2> QED BY <1>2, <2>1, <2>2, <2>3, <2>4, <2>5, <2>6, <2>7, <2>8, <2>9, <2>10
          DEF Next, CaseIsCovered, CaseIsPatched
<1> QED BY <1>1, <1>2, TypesAndGenerated, PTL DEF Spec

\* What is generated goes through the validation and into the table, for any
\* draws and sizes.
THEOREM SeedIsAlwaysAccepted == Spec => []SeedIsAccepted
<1>1. GInv => SeedIsAccepted
  BY DEF GInv, GeneratedIsSound, SeedIsAccepted
<1> QED BY <1>1, TypesAndGenerated, PTL

\* No two generated merchants have one address, and a website is that of its
\* merchant's address, for any names.
THEOREM AddressesAreAlwaysOwn == Spec => []AddressesAreOwn
<1>1. ASSUME GInv
      PROVE  AddressesAreOwn
  <2> SUFFICES ASSUME origin = "generator", NEW i \in DOMAIN batch, NEW j \in DOMAIN batch
               PROVE  /\ batch[i].contactEmail = batch[j].contactEmail => i = j
                      /\ batch[i].websiteUrl # None =>
                             batch[i].websiteUrl.host = batch[i].contactEmail.local
    BY DEF AddressesAreOwn
  <2>1. /\ Sound(batch[i])
        /\ batch[i].contactEmail.local = batch[j].contactEmail.local => i = j
    BY <1>1 DEF GInv, GeneratedIsSound
  <2> QED BY <2>1 DEF Sound
<1> QED BY <1>1, TypesAndGenerated, PTL

-----------------------------------------------------------------------------
(* Edge cases. *)

LEMMA CoveringIsFinite ==
    ASSUME TypeOK, NEW k
    PROVE  IsFiniteSet(Covering(k, batch)) /\ Cardinality(Covering(k, batch)) \in Nat
<1>1. IsFiniteSet(DOMAIN batch)
  BY BatchIs, FS_Interval
<1>2. Covering(k, batch) \in SUBSET DOMAIN batch
  BY DEF Covering
<1>3. IsFiniteSet(Covering(k, batch))
  BY <1>1, <1>2, FS_Subset
<1> QED BY <1>3, FS_CardinalityType

KInv == GInv /\ CasesAreKept

\* Sampling is at the first case, and forces nothing.
LEMMA SampleKeepsCases ==
    ASSUME GInv, NEW draw \in DOMAIN Draws, Sample(draw)
    PROVE  CasesAreKept'
<1>1. pc' \in {"sampling", "forcing"} /\ case' = 1
  BY DEF GInv, TypeOK, Sample
<1> QED BY <1>1 DEF CasesAreKept

LEMMA NextCaseKeepsCases ==
    ASSUME KInv, pc \in {"forcing", "patching"}, NextCase,
           case <= 4 => IsCoveredIn(EDGE_CASES[case], batch)
    PROVE  CasesAreKept'
<1>1. /\ origin = "generator" /\ case \in 1..5
      /\ \A k \in 1..4 : k < case => IsCoveredIn(EDGE_CASES[k], batch)
  BY DEF KInv, GInv, TypeOK, Generating, CasesAreKept
<1>2. case' = case + 1 /\ UNCHANGED <<origin, batch>> /\ pc' \in {"posting", "forcing"}
  BY DEF NextCase
<1>3. ASSUME NEW k \in 1..4, k < case'
      PROVE  IsCoveredIn(EDGE_CASES[k], batch)
  <2>1. k < case \/ k = case
    BY <1>1, <1>2, <1>3
  <2> QED BY <1>1, <2>1
<1>4. \A k \in 1..4 : k < case' => IsCoveredIn(EDGE_CASES[k], batch')
  BY <1>2, <1>3
<1> QED BY <1>2, <1>4 DEF CasesAreKept, IsCoveredIn

\* The merchant that is patched matched no case, so none loses it, and the case
\* that it is forced into gains it.
LEMMA PatchKeepsCases ==
    ASSUME KInv, NEW i \in 1..Count, Patch(i)
    PROVE  CasesAreKept'
<1>1. TypeOK /\ GeneratedIsSound /\ CasesAreKept /\ GInv /\ GInv'
  BY PatchKeeps DEF KInv, GInv
<1>2. /\ pc = "patching" /\ origin = "generator" /\ case \in 1..5
      /\ i \in DOMAIN batch /\ i \in eligible /\ missing \in Nat /\ missing > 0
      /\ batch \in Seq(Merchant) /\ taken \in SUBSET Text /\ IsFiniteSet(taken)
  BY <1>1 DEF TypeOK, Generating, Patch
<1>3. PICK f \in Forced(Case, batch[i], taken) : batch' = [batch EXCEPT ![i] = f]
  BY DEF Patch
<1>4. /\ eligible' = eligible \ {i} /\ missing' = missing - 1
      /\ UNCHANGED <<pc, origin, case>>
  BY DEF Patch
<1>5. /\ DOMAIN batch' = DOMAIN batch /\ batch'[i] = f
      /\ \A j \in DOMAIN batch \ {i} : batch'[j] = batch[j]
  BY <1>2, <1>3
<1>6. /\ \A j \in eligible : MatchesNone(batch[j])
      /\ \A k \in 1..4 : k < case => IsCoveredIn(EDGE_CASES[k], batch)
      /\ case <= 4 => Cardinality(Covering(Case, batch)) + missing >= MIN_PER_EDGE_CASE
  BY <1>1, <1>2 DEF CasesAreKept
<1>7. ASSUME NEW k \in DOMAIN EDGE_CASES
      PROVE  /\ Covering(EDGE_CASES[k], batch) \subseteq Covering(EDGE_CASES[k], batch')
             /\ i \notin Covering(EDGE_CASES[k], batch)
  <2>1. ~ Matches(EDGE_CASES[k], batch[i])
    BY <1>2, <1>6 DEF MatchesNone
  <2> QED BY <1>5, <2>1 DEF Covering
<1>8. ASSUME NEW k \in DOMAIN EDGE_CASES
      PROVE  /\ IsFiniteSet(Covering(EDGE_CASES[k], batch))
             /\ IsFiniteSet(Covering(EDGE_CASES[k], batch'))
             /\ Cardinality(Covering(EDGE_CASES[k], batch)) \in Nat
             /\ Cardinality(Covering(EDGE_CASES[k], batch')) \in Nat
             /\ Cardinality(Covering(EDGE_CASES[k], batch))
                    <= Cardinality(Covering(EDGE_CASES[k], batch'))
  <2> DEFINE old == Covering(EDGE_CASES[k], batch)
             new == Covering(EDGE_CASES[k], batch')
  <2>1. IsFiniteSet(old)
    BY <1>1, CoveringIsFinite
  <2>2. IsFiniteSet(new)
    <3>1. new \in SUBSET DOMAIN batch /\ IsFiniteSet(DOMAIN batch)
      BY <1>1, <1>5, BatchIs, FS_Interval DEF Covering
    <3> HIDE DEF new
    <3> QED BY <3>1, FS_Subset
  <2>3. old \in SUBSET new
    BY <1>7
  <2> HIDE DEF old, new
  <2>4. Cardinality(old) <= Cardinality(new)
    BY <2>2, <2>3, FS_Subset
  <2> QED BY <2>1, <2>2, <2>4, FS_CardinalityType DEF old, new
<1>9. MIN_PER_EDGE_CASE \in Nat
  BY SeedingAssumption
<1>10. ASSUME NEW k \in 1..4, k < case
       PROVE  IsCoveredIn(EDGE_CASES[k], batch')
  <2>1. k \in DOMAIN EDGE_CASES /\ IsCoveredIn(EDGE_CASES[k], batch)
    BY <1>6, <1>10, CasesAreFive
  <2> QED BY <1>8, <1>9, <2>1 DEF IsCoveredIn
<1>11. ASSUME case <= 4
       PROVE  Cardinality(Covering(Case, batch')) + missing' >= MIN_PER_EDGE_CASE
  <2>1. case \in DOMAIN EDGE_CASES /\ case # 5 /\ Case = EDGE_CASES[case]
    BY <1>2, <1>11, CasesAreFive DEF Case
  <2> DEFINE old == Covering(EDGE_CASES[case], batch)
             new == Covering(EDGE_CASES[case], batch')
             m == batch[i]
  <2>2. Matches(EDGE_CASES[case], f)
    <3>1. Sound(m) /\ f \in Forced(EDGE_CASES[case], m, taken)
      BY <1>1, <1>2, <2>1 DEF GeneratedIsSound
    <3> HIDE DEF m
    <3> QED BY <1>2, <2>1, <3>1, ForcedIsSound
  <2>3. i \in new
    BY <1>2, <1>5, <2>2 DEF Covering
  <2>4. old \cup {i} \in SUBSET new /\ i \notin old
    BY <1>7, <2>1, <2>3
  <2>5. IsFiniteSet(old) /\ IsFiniteSet(new) /\ Cardinality(old) \in Nat /\ Cardinality(new) \in Nat
    BY <1>8, <2>1
  <2>6. Cardinality(old) + missing >= MIN_PER_EDGE_CASE
    BY <1>6, <1>11, <2>1
  <2> HIDE DEF old, new
  <2>7. Cardinality(old \cup {i}) = Cardinality(old) + 1
    BY <2>4, <2>5, FS_AddElement
  <2>8. Cardinality(old \cup {i}) <= Cardinality(new)
    BY <2>4, <2>5, FS_Subset
  <2>9. Cardinality(new) + missing' >= MIN_PER_EDGE_CASE
    BY <1>2, <1>4, <1>9, <2>5, <2>6, <2>7, <2>8
  <2> QED BY <2>1, <2>9 DEF new
<1>12. ASSUME NEW j \in eligible'
       PROVE  MatchesNone(batch'[j])
  <2>1. j \in eligible /\ j # i /\ j \in DOMAIN batch
    BY <1>1, <1>4, <1>12 DEF TypeOK
  <2> QED BY <1>5, <1>6, <2>1
<1>13. Case' = Case
  BY <1>4 DEF Case
<1>14. /\ \A k \in 1..4 : k < case' => IsCoveredIn(EDGE_CASES[k], batch')
       /\ case' <= 4 => Cardinality(Covering(Case', batch')) + missing' >= MIN_PER_EDGE_CASE
  BY <1>4, <1>10, <1>11, <1>13
<1> QED BY <1>12, <1>14 DEF CasesAreKept, IsCoveredIn

LEMMA StepKeepsCases == KInv /\ [Next]_vars => KInv'
<1> SUFFICES ASSUME KInv, [Next]_vars
             PROVE  KInv'
  OBVIOUS
<1>1. TypeOK /\ GInv /\ CasesAreKept
  BY DEF KInv, GInv
<1>2. GInv'
  BY <1>1, StepKeeps
<1>3. MIN_PER_EDGE_CASE \in Nat /\ Cardinality(Covering(Case, batch)) \in Nat
  BY <1>1, CoveringIsFinite, SeedingAssumption
<1>4. ASSUME UNCHANGED <<origin, batch, case, missing, eligible>>,
             pc' # "patching", pc # "sampling"
      PROVE  CasesAreKept'
  BY <1>1, <1>4 DEF CasesAreKept, IsCoveredIn
<1>5. ASSUME UNCHANGED <<pc, origin, batch, generating>>
      PROVE  CasesAreKept'
  BY <1>1, <1>5 DEF CasesAreKept, IsCoveredIn, generating, Case
<1>6. CASE \E draw \in DOMAIN Draws : Sample(draw)
  BY <1>1, <1>2, <1>6, SampleKeepsCases DEF KInv
<1>7. CASE CaseIsCovered
  <2>1. pc = "forcing" /\ Lacking <= 0 /\ NextCase
    BY <1>7 DEF CaseIsCovered
  <2>2. IsCoveredIn(EDGE_CASES[case], batch)
    BY <1>3, <2>1 DEF Lacking, IsCoveredIn, Case
  <2> QED BY <1>2, <2>1, <2>2, NextCaseKeepsCases DEF KInv
<1>8. CASE CannotGuarantee
  <2>1. /\ pc = "forcing" /\ pc' = "gave up"
        /\ UNCHANGED <<origin, batch, case, missing, eligible>>
    BY <1>8 DEF CannotGuarantee, generating
  <2> QED BY <1>2, <1>4, <2>1 DEF KInv
<1>9. CASE BeginPatching
  <2>1. /\ pc = "forcing" /\ pc' = "patching" /\ missing' = Lacking
        /\ eligible' = Neutral(Case, batch)
        /\ UNCHANGED <<origin, batch, case>>
    BY <1>9 DEF BeginPatching
  <2>2. Cardinality(Covering(Case, batch)) + Lacking >= MIN_PER_EDGE_CASE
    BY <1>3 DEF Lacking
  <2>3. \A i \in eligible' : MatchesNone(batch[i])
    BY <2>1 DEF Neutral
  <2>4. Case' = Case
    BY <2>1 DEF Case
  <2>5. CasesAreKept'
    BY <1>1, <2>1, <2>2, <2>3, <2>4 DEF CasesAreKept, IsCoveredIn
  <2> QED BY <1>2, <2>5 DEF KInv
<1>10. CASE \E i \in 1..Count : Patch(i)
  BY <1>2, <1>10, PatchKeepsCases DEF KInv
<1>11. CASE CaseIsPatched
  <2>1. pc = "patching" /\ missing = 0 /\ NextCase
    BY <1>11 DEF CaseIsPatched
  <2>2. origin = "generator"
    BY <1>1, <2>1 DEF TypeOK, Generating
  <2>3. case <= 4 => IsCoveredIn(EDGE_CASES[case], batch)
    BY <1>1, <1>3, <2>1, <2>2 DEF CasesAreKept, IsCoveredIn, Case
  <2> QED BY <1>2, <2>1, <2>3, NextCaseKeepsCases DEF KInv
<1>12. CASE \E now \in Nows : Land(now)
  <2>1. /\ pc = "posting" /\ pc' \in {"seeded", "posting"}
        /\ UNCHANGED <<origin, batch, case, missing, eligible>>
    BY <1>12 DEF Land, generating
  <2> QED BY <1>2, <1>4, <2>1 DEF KInv
<1>13. CASE Fail
  <2>1. /\ pc = "posting" /\ pc' \in {"refused", "failed"}
        /\ UNCHANGED <<origin, batch, case, missing, eligible>>
    BY <1>13 DEF Fail, Outcome, generating
  <2> QED BY <1>2, <1>4, <2>1 DEF KInv
<1>14. CASE \E limit \in PageLimits, category \in PageCategories : BeginListing(limit, category)
  BY <1>2, <1>5, <1>14 DEF BeginListing, KInv
<1>15. CASE ReadPage
  BY <1>2, <1>5, <1>15 DEF ReadPage, KInv
<1>16. CASE UNCHANGED vars
  BY <1>2, <1>5, <1>16 DEF vars, generating, KInv
<1> QED BY <1>6, <1>7, <1>8, <1>9, <1>10, <1>11, <1>12, <1>13, <1>14, <1>15, <1>16 DEF Next

\* A case that was covered once stays covered, whatever is forced in after it,
\* for any draws and any number of merchants that a case needs.
THEOREM CasesAlwaysStayCovered == Spec => []CasesStayCovered
<1>1. Init => KInv
  <2> SUFFICES ASSUME Init
               PROVE  CasesAreKept
    BY InitIsSound DEF KInv
  <2>1. origin = "generator" => pc = "sampling"
    BY DEF Init
  <2> QED BY <2>1 DEF CasesAreKept
<1>2. ASSUME KInv
      PROVE  CasesStayCovered
  <2> SUFFICES ASSUME NEW k \in DOMAIN EDGE_CASES, origin = "generator", pc # "sampling",
                      k < case, EDGE_CASES[k] # "diacritics_and_apostrophe"
               PROVE  IsCoveredIn(EDGE_CASES[k], batch)
    BY DEF CasesStayCovered
  <2>1. k \in 1..4
    BY DEF EDGE_CASES
  <2> QED BY <1>2, <2>1 DEF KInv, CasesAreKept
<1> QED BY <1>1, <1>2, StepKeepsCases, PTL DEF Spec

-----------------------------------------------------------------------------
(* The list, page by page. *)

\* The stored merchants stand at positions of their own, without a gap.
LEMMA PositionsAreAll ==
    ASSUME IsFiniteSet(DOMAIN rows), DOMAIN rows \subseteq PostedIds
    PROVE  /\ IsFiniteSet(Listed) /\ Cardinality(Listed) \in Nat
           /\ \A id \in Listed : Position(id) \in 0..(Cardinality(Listed) - 1)
           /\ \A k \in 0..(Cardinality(Listed) - 1) : \E id \in Listed : Position(id) = k
<1> DEFINE S == Listed
           below == [id \in S |-> {other \in S : Precedes(other, id)}]
           lo == 0
<1>1. IsFiniteSet(S) /\ Cardinality(S) \in Nat /\ lo \in Int /\ S \subseteq PostedIds
  <2>1. S \in SUBSET DOMAIN rows
    BY DEF Listed
  <2> HIDE DEF S
  <2> QED BY <2>1, FS_Subset, FS_CardinalityType
<1>2. below \in [S -> SUBSET S]
  OBVIOUS
<1>3. \A a, b \in S : /\ ~ Precedes(a, a)
                      /\ a # b => Precedes(a, b) \/ Precedes(b, a)
                      /\ \A c \in S : Precedes(a, b) /\ Precedes(b, c) => Precedes(a, c)
  BY <1>1, IdsAreOrdered DEF Precedes
<1>4. \A id \in S : Position(id) = Cardinality(below[id])
  BY DEF Position
<1>5. ASSUME NEW id \in S
      PROVE  Cardinality(below[id]) \in 0..(Cardinality(S) - 1)
  <2>1. below[id] \in SUBSET S /\ id \notin below[id]
    BY <1>3
  <2>2. IsFiniteSet(below[id]) /\ Cardinality(below[id]) <= Cardinality(S)
    BY <1>1, <2>1, FS_Subset
  <2>3. Cardinality(below[id]) # Cardinality(S)
    BY <1>1, <2>1, FS_Subset
  <2>4. Cardinality(below[id]) \in Nat
    BY <2>2, FS_CardinalityType
  <2> HIDE DEF below, S
  <2> QED BY <1>1, <2>2, <2>3, <2>4
<1>6. \A x, y \in S : x # y =>
          /\ below[x] # below[y]
          /\ below[x] \subseteq below[y] \/ below[y] \subseteq below[x]
  <2> SUFFICES ASSUME NEW x \in S, NEW y \in S, x # y
               PROVE  /\ below[x] # below[y]
                      /\ below[x] \subseteq below[y] \/ below[y] \subseteq below[x]
    OBVIOUS
  <2>1. CASE Precedes(x, y)
    <3>1. x \in below[y] /\ x \notin below[x]
      BY <1>3, <2>1
    <3>2. below[x] \subseteq below[y]
      BY <1>3, <2>1
    <3> QED BY <3>1, <3>2
  <2>2. CASE Precedes(y, x)
    <3>1. y \in below[x] /\ y \notin below[y]
      BY <1>3, <2>2
    <3>2. below[y] \subseteq below[x]
      BY <1>3, <2>2
    <3> QED BY <3>1, <3>2
  <2> QED BY <1>3, <2>1, <2>2
<1>7. \A k \in lo..(lo + Cardinality(S) - 1) : \E id \in S : Cardinality(below[id]) = k
  <2>1. \A x \in S : Cardinality(below[x]) \in lo..(lo + Cardinality(S) - 1)
    <3> HIDE DEF below, S
    <3> QED BY <1>1, <1>5
  <2> HIDE DEF below, S, lo
  <2>2. /\ \A k \in lo..(lo + Cardinality(S) - 1) : \E x \in S : Cardinality(below[x]) = k
        /\ \A x, y \in S : Cardinality(below[x]) = Cardinality(below[y]) => x = y
    BY <1>1, <1>2, <1>6, <2>1, RanksAreAll
  <2> QED BY <2>2
<1>8. \A k \in 0..(Cardinality(S) - 1) : \E id \in S : Cardinality(below[id]) = k
  <2> HIDE DEF S, below
  <2> QED BY <1>1, <1>7
<1> HIDE DEF below
<1> QED BY <1>1, <1>4, <1>5, <1>8

\* A page that is followed by another is full.
LEMMA PageIsFull ==
    ASSUME IsFiniteSet(DOMAIN rows), DOMAIN rows \subseteq PostedIds,
           NEW from \in Nat, NEW limit \in Nat,
           NEW id \in Listed, Position(id) >= from + limit
    PROVE  Cardinality({x \in Listed : Position(x) \in from..(from + limit - 1)}) >= limit
<1> DEFINE T == from..(from + limit - 1)
           page == {x \in Listed : Position(x) \in T}
           f == [x \in page |-> Position(x)]
<1>1. /\ IsFiniteSet(Listed) /\ Cardinality(Listed) \in Nat
      /\ Position(id) \in 0..(Cardinality(Listed) - 1)
      /\ \A k \in 0..(Cardinality(Listed) - 1) : \E x \in Listed : Position(x) = k
  BY PositionsAreAll
<1>2. T \subseteq 0..(Cardinality(Listed) - 1)
  BY <1>1
<1>3. IsFiniteSet(page)
  <2>1. page \in SUBSET Listed
    OBVIOUS
  <2> HIDE DEF page
  <2> QED BY <1>1, <2>1, FS_Subset
<1>4. Cardinality(T) = limit
  <2> DEFINE to == from + limit - 1
  <2>1. to \in Int /\ (IF from > to THEN 0 ELSE to - from + 1) = limit
    OBVIOUS
  <2>2. Cardinality(from..to) = IF from > to THEN 0 ELSE to - from + 1
    <3> HIDE DEF to
    <3> QED BY <2>1, FS_Interval
  <2> QED BY <2>1, <2>2
<1>5. f \in Surjection(page, T)
  <2>1. \A k \in T : \E x \in page : Position(x) = k
    BY <1>1, <1>2
  <2>2. f \in [page -> T]
    OBVIOUS
  <2> HIDE DEF T, page
  <2> QED BY <2>1, <2>2 DEF Surjection
<1>6. Cardinality(T) <= Cardinality(page)
  <2> HIDE DEF f, T, page
  <2> QED BY <1>3, <1>5, FS_Surjection
<1>7. Cardinality(page) \in Nat
  BY <1>3, FS_CardinalityType
<1> HIDE DEF T, page
<1> QED BY <1>4, <1>6, <1>7 DEF T, page

\* Who stands before another comes first.
LEMMA PositionsAreInOrder ==
    ASSUME IsFiniteSet(DOMAIN rows), DOMAIN rows \subseteq PostedIds,
           NEW a \in Listed, NEW b \in Listed, Position(a) < Position(b)
    PROVE  Precedes(a, b)
<1>1. IsFiniteSet(Listed) /\ Position(a) \in Int /\ Position(b) \in Int
  BY PositionsAreAll
<1>2. Listed \subseteq PostedIds
  BY DEF Listed
<1>3. a # b
  BY <1>1
<1>4. ASSUME Precedes(b, a)
      PROVE  FALSE
  <2> DEFINE A == {x \in Listed : Precedes(x, a)}
             B == {x \in Listed : Precedes(x, b)}
  <2>1. B \in SUBSET A /\ A \in SUBSET Listed
    BY <1>2, <1>4, IdsAreOrdered DEF Precedes
  <2>2. Position(a) = Cardinality(A) /\ Position(b) = Cardinality(B)
    BY DEF Position
  <2> HIDE DEF A, B
  <2>3. IsFiniteSet(A)
    BY <1>1, <2>1, FS_Subset
  <2>4. Cardinality(B) <= Cardinality(A)
    BY <2>1, <2>3, FS_Subset
  <2> QED BY <1>1, <2>2, <2>4
<1> QED BY <1>2, <1>3, <1>4, IdsAreOrdered DEF Precedes

PInv == GInv /\ DueIsAhead

\* When nothing leaves from before the offset, as many stay there: what was behind
\* them is behind them still.
LEMMA StayersStayAhead ==
    ASSUME IsFiniteSet(DOMAIN rows), DOMAIN rows \subseteq PostedIds,
           NEW from \in Nat, NEW id \in Listed, Position(id) >= from,
           NEW later, IsFiniteSet(later),
           \A x \in Listed : Position(x) < from => x \in later
    PROVE  Cardinality({x \in later : Precedes(x, id)}) >= from
<1> DEFINE zero == 0
           head == {x \in Listed : Position(x) \in zero..(zero + from - 1)}
           before == {x \in later : Precedes(x, id)}
<1>1. zero \in Nat /\ zero = 0
  OBVIOUS
<1>2. Position(id) \in Int /\ \A x \in Listed : Position(x) \in Int
  BY PositionsAreAll
<1> HIDE DEF zero
<1>3. Cardinality(head) >= from
  <2>1. Position(id) >= zero + from
    BY <1>1
  <2> HIDE DEF head
  <2>2. Cardinality({x \in Listed : Position(x) \in zero..(zero + from - 1)}) >= from
    BY <1>1, <2>1, PageIsFull
  <2> QED BY <2>2 DEF head
<1>4. head \in SUBSET before
  <2> SUFFICES ASSUME NEW x \in Listed, Position(x) \in zero..(zero + from - 1)
               PROVE  x \in later /\ Precedes(x, id)
    OBVIOUS
  <2>1. Position(x) < from
    BY <1>1
  <2>2. Position(x) < Position(id)
    BY <1>2, <2>1
  <2>3. Precedes(x, id)
    BY <2>2, PositionsAreInOrder
  <2> QED BY <2>1, <2>3
<1>5. before \in SUBSET later
  OBVIOUS
<1> HIDE DEF head, before
<1>6. IsFiniteSet(before) /\ IsFiniteSet(head) /\ Cardinality(head) <= Cardinality(before)
  BY <1>4, <1>5, FS_Subset
<1>7. Cardinality(head) \in Nat /\ Cardinality(before) \in Nat
  BY <1>6, FS_CardinalityType
<1>8. Cardinality(before) >= from
  BY <1>3, <1>6, <1>7
<1> QED BY <1>8 DEF before

\* What is stored stays, and what is listed leaves the list behind the offset only,
\* or the list has shrunk.
LEMMA LandKeepsDue ==
    ASSUME PInv, NEW now \in Nows, Land(now)
    PROVE  DueIsAhead'
<1> DEFINE chunk == Chunk(next)
           new == {chunk[i].id : i \in DOMAIN chunk}
           leaving == {id \in Listed : ~IsListed(rows'[id], listing.category)}
           shrinks == \E id \in leaving : Position(id) < listing.offset
<1>1. TypeOK /\ DueIsAhead /\ TypeOK'
  BY LandKeeps DEF PInv, GInv
<1>2. DOMAIN rows' = DOMAIN rows \cup new /\ UNCHANGED <<origin, batch>>
  BY DEF Land
<1>3. listing' = [listing EXCEPT !.due = @ \ leaving, !.shrunk = @ \/ shrinks]
  BY DEF Land, Relist
<1>4. origin = "caller" => new \subseteq PostedIds
  <2>1. batch \in Seq(Merchant) /\ size \in Nat \ {0} /\ next \in Nat \ {0}
    BY <1>1 DEF TypeOK
  <2>2. \A i \in DOMAIN chunk : next + i - 1 \in DOMAIN batch /\ chunk[i] = batch[next + i - 1]
    BY <2>1, ChunkIs
  <2> HIDE DEF chunk
  <2>3. origin = "caller" => \A i \in DOMAIN chunk : chunk[i].id \in PostedIds
    BY <1>1, <2>2 DEF DueIsAhead
  <2> QED BY <2>3
<1> HIDE DEF new
<1>5. /\ listing'.limit = listing.limit /\ listing'.offset = listing.offset
      /\ listing'.category = listing.category
      /\ listing'.due = listing.due \ leaving
      /\ listing'.shrunk = (listing.shrunk \/ shrinks)
      /\ listing' \in [limit : Nat, offset : Nat, category : {None} \cup MERCHANT_CATEGORIES,
                      due : SUBSET DOMAIN rows', shrunk : BOOLEAN]
  <2> HIDE DEF leaving, shrinks
  <2>1. (listing.shrunk \/ shrinks) \in BOOLEAN
    OBVIOUS
  <2>2. listing \in [limit : Nat, offset : Nat, category : {None} \cup MERCHANT_CATEGORIES,
                     due : SUBSET DOMAIN rows, shrunk : BOOLEAN]
    BY <1>1 DEF DueIsAhead
  <2>3. listing.due \ leaving \in SUBSET DOMAIN rows'
    BY <1>2, <2>2
  <2> QED BY <1>3, <2>1, <2>2, <2>3
<1>6. ASSUME ~listing'.shrunk
      PROVE  ~listing.shrunk /\ \A id \in leaving : ~ (Position(id) < listing.offset)
  BY <1>5, <1>6
<1>7. ASSUME ~listing'.shrunk, NEW id \in listing'.due
      PROVE  id \in Listed' /\ Position(id)' >= listing'.offset
  <2>1. id \in Listed /\ id \notin leaving /\ Position(id) >= listing.offset /\ listing.limit # 0
    BY <1>1, <1>5, <1>6, <1>7 DEF DueIsAhead
  <2>2. /\ DOMAIN rows \subseteq PostedIds /\ listing.offset \in Nat
        /\ IsFiniteSet(DOMAIN rows) /\ IsFiniteSet(DOMAIN rows')
    BY <1>1, <2>1 DEF DueIsAhead, TypeOK
  <2>3. ASSUME NEW x \in Listed, x \notin leaving
        PROVE  x \in Listed'
    <3>1. x \in DOMAIN rows' /\ IsListed(rows'[x], listing.category)
      BY <1>2, <2>3 DEF Listed
    <3> QED BY <1>5, <3>1 DEF Listed
  <2> DEFINE later == Listed'
  <2>4. \A x \in Listed : Position(x) < listing.offset => x \in later
    BY <1>6, <1>7, <2>3
  <2>5. IsFiniteSet(later)
    <3>1. later \in SUBSET DOMAIN rows'
      BY DEF Listed
    <3> HIDE DEF later
    <3> QED BY <2>2, <3>1, FS_Subset
  <2>6. Cardinality({x \in later : Precedes(x, id)}) >= listing.offset
    <3> HIDE DEF later
    <3> QED BY <2>1, <2>2, <2>4, <2>5, StayersStayAhead
  <2>7. Position(id)' = Cardinality({x \in later : Precedes(x, id)})
    BY DEF Position, Precedes
  <2> QED BY <1>5, <2>1, <2>3, <2>6, <2>7
<1>8. origin' = "caller" =>
          /\ DOMAIN rows' \subseteq PostedIds
          /\ \A i \in DOMAIN batch' : batch'[i].id \in PostedIds
  BY <1>1, <1>2, <1>4 DEF DueIsAhead
<1>9. /\ listing'.limit # 0 => origin' = "caller"
      /\ ~listing'.shrunk /\ listing'.limit = 0 => listing'.due = {}
  BY <1>1, <1>2, <1>5, <1>6 DEF DueIsAhead
<1> QED BY <1>5, <1>7, <1>8, <1>9 DEF DueIsAhead

LEMMA LimitIsPositive ==
    ASSUME NEW limit \in Int
    PROVE  Limit(limit) \in Nat /\ Limit(limit) # 0
<1> DEFINE a == Min({limit, MAX_LIST_LIMIT})
<1>1. MAX_LIST_LIMIT \in Int
  BY SeedingAssumption
<1>2. a \in Int
  BY <1>1, LeastOfTwo
<1> HIDE DEF a
<1>3. Max({1, a}) = IF 1 <= a THEN a ELSE 1
  <2> DEFINE one == 1
  <2>1. one \in Int
    OBVIOUS
  <2> HIDE DEF one
  <2>2. Max({one, a}) = IF one <= a THEN a ELSE one
    BY <1>2, <2>1, LeastOfTwo
  <2> QED BY <2>2 DEF one
<1> QED BY <1>2, <1>3 DEF Limit, a

\* What is due and not on the page stands after it, and a page that is not full
\* is followed by nothing.
LEMMA ReadPageKeepsDue ==
    ASSUME PInv, ReadPage
    PROVE  DueIsAhead'
<1> DEFINE from == listing.offset
           limit == listing.limit
           end == from + limit
           page == {x \in Listed : Position(x) \in from..(end - 1)}
<1>1. TypeOK /\ DueIsAhead
  BY DEF PInv, GInv
<1>2. /\ from \in Nat /\ limit \in Nat /\ limit # 0 /\ listing.due \subseteq DOMAIN rows
      /\ listing \in [limit : Nat, offset : Nat, category : {None} \cup MERCHANT_CATEGORIES,
                     due : SUBSET DOMAIN rows, shrunk : BOOLEAN]
  BY <1>1 DEF DueIsAhead, ReadPage
<1>3. /\ listing' = [listing EXCEPT !.limit = IF Cardinality(page) < @ THEN 0 ELSE @,
                                   !.offset = end, !.due = @ \ page]
      /\ UNCHANGED <<origin, batch, rows>>
  BY DEF ReadPage
<1>4. /\ origin = "caller"
      /\ DOMAIN rows \subseteq PostedIds /\ IsFiniteSet(DOMAIN rows)
      /\ \A i \in DOMAIN batch : batch[i].id \in PostedIds
  BY <1>1, <1>2 DEF DueIsAhead, TypeOK
<1>a. page = {x \in Listed : Position(x) \in from..(from + limit - 1)}
  <2>1. end - 1 = from + limit - 1
    BY <1>2
  <2> QED BY <2>1
<1>b. IsFiniteSet(Listed) /\ \A x \in Listed : Position(x) \in Int
  BY <1>4, PositionsAreAll
<1>c. page \in SUBSET Listed
  OBVIOUS
<1> HIDE DEF page
<1>5. /\ listing'.limit = IF Cardinality(page) < limit THEN 0 ELSE limit
      /\ listing'.offset = end
      /\ listing'.category = listing.category /\ listing'.shrunk = listing.shrunk
      /\ listing'.due = listing.due \ page
      /\ listing' \in [limit : Nat, offset : Nat, category : {None} \cup MERCHANT_CATEGORIES,
                      due : SUBSET DOMAIN rows, shrunk : BOOLEAN]
  <2>1. end \in Nat
    BY <1>2
  <2> QED BY <1>2, <1>3, <2>1
<1>6. ASSUME NEW id \in listing'.due, ~listing'.shrunk
      PROVE  id \in Listed /\ Position(id) >= end
  <2>1. id \in listing.due /\ id \notin page
    BY <1>2, <1>5, <1>6
  <2>2. id \in Listed /\ Position(id) >= from
    BY <1>1, <1>5, <1>6, <2>1 DEF DueIsAhead
  <2>3. Position(id) \in Int
    BY <1>b, <2>2
  <2>4. Position(id) \notin from..(end - 1)
    BY <2>1, <2>2 DEF page
  <2> QED BY <1>2, <2>2, <2>3, <2>4
<1>7. ASSUME listing'.limit = 0, ~listing'.shrunk
      PROVE  listing'.due = {}
  <2>1. Cardinality(page) < limit
    BY <1>2, <1>5, <1>7
  <2>2. ASSUME NEW id \in listing'.due
        PROVE  FALSE
    <3>1. id \in Listed /\ Position(id) >= from + limit
      BY <1>6, <1>7, <2>2
    <3> DEFINE all == {x \in Listed : Position(x) \in from..(from + limit - 1)}
    <3>2. Cardinality(all) >= limit
      BY <1>2, <1>4, <3>1, PageIsFull
    <3>3. page = all
      BY <1>a
    <3> HIDE DEF all
    <3>4. Cardinality(page) \in Nat
      BY <1>b, <1>c, FS_Subset, FS_CardinalityType
    <3> QED BY <1>2, <2>1, <3>2, <3>3, <3>4
  <2> QED BY <2>2
<1>8. ASSUME NEW id \in listing'.due, ~listing'.shrunk
      PROVE  id \in Listed' /\ Position(id)' >= listing'.offset
  <2>1. Listed' = Listed
    BY <1>3, <1>5 DEF Listed
  <2>2. Position(id)' = Position(id)
    BY <2>1 DEF Position, Precedes
  <2> QED BY <1>5, <1>6, <1>8, <2>1, <2>2
<1> QED BY <1>3, <1>4, <1>5, <1>7, <1>8 DEF DueIsAhead

LEMMA StepKeepsDue == PInv /\ [Next]_vars => PInv'
<1> SUFFICES ASSUME PInv, [Next]_vars
             PROVE  PInv'
  OBVIOUS
<1>1. TypeOK /\ GInv /\ DueIsAhead
  BY DEF PInv, GInv
<1>2. GInv'
  BY <1>1, StepKeeps
<1>3. ASSUME UNCHANGED <<origin, rows, listing>>, origin = "generator" \/ UNCHANGED batch
      PROVE  DueIsAhead'
  <2>1. Listed' = Listed
    BY <1>3 DEF Listed
  <2>2. \A id : Position(id)' = Position(id)
    BY <2>1 DEF Position, Precedes
  <2> QED BY <1>1, <1>3, <2>1, <2>2 DEF DueIsAhead
<1>4. ASSUME pc \in Generating, UNCHANGED <<origin, rows, listing>>
      PROVE  DueIsAhead'
  BY <1>1, <1>3, <1>4 DEF TypeOK
<1>5. CASE \E draw \in DOMAIN Draws : Sample(draw)
  BY <1>2, <1>4, <1>5 DEF Sample, sending, Generating, PInv
<1>6. CASE CaseIsCovered
  BY <1>2, <1>4, <1>6 DEF CaseIsCovered, NextCase, sending, Generating, PInv
<1>7. CASE CannotGuarantee
  BY <1>2, <1>4, <1>7 DEF CannotGuarantee, sending, Generating, PInv
<1>8. CASE BeginPatching
  BY <1>2, <1>4, <1>8 DEF BeginPatching, sending, Generating, PInv
<1>9. CASE \E i \in 1..Count : Patch(i)
  BY <1>2, <1>4, <1>9 DEF Patch, sending, Generating, PInv
<1>10. CASE CaseIsPatched
  BY <1>2, <1>4, <1>10 DEF CaseIsPatched, NextCase, sending, Generating, PInv
<1>11. CASE \E now \in Nows : Land(now)
  BY <1>2, <1>11, LandKeepsDue DEF PInv
<1>12. CASE Fail
  BY <1>2, <1>3, <1>12 DEF Fail, sending, PInv
<1>13. ASSUME NEW limit \in PageLimits, NEW category \in PageCategories,
             BeginListing(limit, category)
       PROVE  DueIsAhead'
  <2> DEFINE due == {id \in DOMAIN rows : IsListed(rows[id], category)}
  <2>1. /\ origin = "caller" /\ UNCHANGED <<origin, batch, rows>>
        /\ category \in {None} \cup MERCHANT_CATEGORIES
        /\ listing' = [limit |-> Limit(limit), offset |-> 0, category |-> category,
                      due |-> due, shrunk |-> FALSE]
    BY <1>13 DEF BeginListing, NotListing
  <2>2. Limit(limit) \in Nat /\ Limit(limit) # 0
    BY LimitIsPositive, SeedingAssumption
  <2>3. IsFiniteSet(DOMAIN rows) /\ DOMAIN rows \subseteq PostedIds
        /\ \A i \in DOMAIN batch : batch[i].id \in PostedIds
    BY <1>1, <2>1 DEF TypeOK, DueIsAhead
  <2>4. Listed' = due
    BY <2>1 DEF Listed
  <2>5. due \in SUBSET DOMAIN rows
    OBVIOUS
  <2> HIDE DEF due
  <2>6. ASSUME NEW id \in due
        PROVE  Position(id)' >= 0
    <3> DEFINE before == {x \in due : Precedes(x, id)}
    <3>1. Position(id)' = Cardinality(before)
      BY <2>4 DEF Position, Precedes
    <3>2. before \in SUBSET due
      OBVIOUS
    <3> HIDE DEF before
    <3>3. IsFiniteSet(due)
      BY <2>3, <2>5, FS_Subset
    <3>4. Cardinality(before) \in Nat
      BY <3>2, <3>3, FS_Subset, FS_CardinalityType
    <3> QED BY <3>1, <3>4
  <2> QED BY <2>1, <2>2, <2>3, <2>4, <2>5, <2>6 DEF DueIsAhead
<1>14. CASE ReadPage
  BY <1>2, <1>14, ReadPageKeepsDue DEF PInv
<1>15. CASE UNCHANGED vars
  BY <1>2, <1>3, <1>15 DEF vars, sending, PInv
<1> QED BY <1>2, <1>5, <1>6, <1>7, <1>8, <1>9, <1>10, <1>11, <1>12, <1>13, <1>14, <1>15 DEF Next, PInv

\* A reader that goes on to a page that is not full misses no merchant that was
\* listed when it began and is listed still, for any category and limit and any
\* posts between two pages, unless one before the offset has left the list.
THEOREM PagingNeverMisses == Spec => []PagingMissesNone
<1>1. ASSUME Init
      PROVE  PInv
  <2>1. GInv
    BY <1>1, InitIsSound
  <2>2. /\ listing = [limit |-> 0, offset |-> 0, category |-> None, due |-> {}, shrunk |-> FALSE]
        /\ rows = <<>>
    BY <1>1 DEF Init, NotListing
  <2>3. DOMAIN rows = {}
    BY <2>2
  <2>4. origin = "caller" => \A i \in DOMAIN batch : batch[i].id \in PostedIds
    BY <1>1 DEF Init, PostedIds
  <2>5. DueIsAhead
    BY <2>2, <2>3, <2>4 DEF DueIsAhead
  <2> QED BY <2>1, <2>5 DEF PInv
<1>2. PInv => PagingMissesNone
  BY DEF PInv, DueIsAhead, PagingMissesNone
<1> QED BY <1>1, <1>2, StepKeepsDue, PTL DEF Spec

-----------------------------------------------------------------------------
(* The texts of signals. *)

\* The characters of a signal and of a field.
Chars == Symbols \cup Figured \cup {"w", "T", ":", "Z", "-"}

\* The characters that the texts of signals are made of.
LEMMA CharsAre ==
    /\ Digits \subseteq Chars /\ Space \in Chars /\ Point \in Chars /\ Comma \in Chars
    /\ "w" \in Chars \ Figured /\ "-" \in Chars \ Figured /\ "T" \in Chars \ Figured
<1>1. /\ "w" \notin Figured /\ "-" \notin Figured /\ "T" \notin Figured
  BY DEF Figured, Digits, Space, Point, Comma
<1> QED BY <1>1 DEF Chars, Figured

\* The words end with a space that is behind a letter.
LEMMA WordsAre ==
    /\ Words \in Seq(Chars) /\ HasNoDigits(Words)
    /\ <<Space>> \in Seq(Chars) /\ HasNoDigits(<<Space>>)
    /\ Words = <<Space>> \o (<<"w">> \o <<Space>>)
<1> DEFINE sp == Space
           w == "w"
<1>1. sp \in Chars /\ w \in Chars /\ sp \notin Digits /\ w \notin Digits
  BY CharsAre DEF Space, Digits
<1>2. Words = <<sp, w, sp>>
  BY DEF Words
<1> HIDE DEF sp, w
<1>3. <<sp, w, sp>> \in Seq(Chars) /\ <<sp>> \in Seq(Chars)
  BY <1>1
<1>4. HasNoDigits(<<sp, w, sp>>) /\ HasNoDigits(<<sp>>)
  <2>1. \A i \in 1..Len(<<sp, w, sp>>) : <<sp, w, sp>>[i] \notin Digits
    BY <1>1
  <2>2. \A i \in 1..Len(<<sp>>) : <<sp>>[i] \notin Digits
    BY <1>1
  <2> QED BY <2>1, <2>2 DEF HasNoDigits
<1>5. <<sp, w, sp>> = <<sp>> \o (<<w>> \o <<sp>>)
  <2> DEFINE a == <<sp>>
             b == <<w>>
  <2>1. a \o b = <<sp, w>> /\ <<sp, w>> \o a = <<sp, w, sp>>
    BY <1>1, TuplesTogether
  <2>2. a \in Seq(Chars) /\ b \in Seq(Chars)
    BY <1>1
  <2> HIDE DEF a, b
  <2>3. (a \o b) \o a = a \o (b \o a)
    BY <2>2, ConcatAssociative
  <2> QED BY <2>1, <2>3 DEF a, b
<1> QED BY <1>2, <1>3, <1>4, <1>5 DEF sp, w

\* The tokens of a text that goes on after words.
LEMMA TokensAroundWords ==
    ASSUME NEW u \in Seq(Chars), NEW v \in Seq(Chars)
    PROVE  TokenTexts((u \o Words) \o v) = TokenTexts(u \o <<Space>>) \cup TokenTexts(v)
<1> DEFINE sp == <<Space>>
           h == "w"
           one == <<h>>
           us == u \o sp
           sv == sp \o v
<1>1. /\ sp \in Seq(Chars) /\ HasNoDigits(sp) /\ Words = sp \o (one \o sp)
      /\ h \in Chars /\ h \notin Figured
  BY WordsAre, CharsAre
<1>2. one \in Seq(Chars)
  BY <1>1
<1> HIDE DEF sp, h, one
<1>3. us \in Seq(Chars) /\ sv \in Seq(Chars) /\ one \o sp \in Seq(Chars)
  BY <1>1, <1>2, ConcatProperties
<1>4. ASSUME NEW a \in Seq(Chars), NEW b \in Seq(Chars), NEW c \in Seq(Chars)
      PROVE  (a \o b) \o c = a \o (b \o c)
  BY ConcatAssociative
<1>5. (u \o Words) \o v = us \o (one \o sv)
  <2> DEFINE os == one \o sp
  <2>0. os \in Seq(Chars)
    BY <1>3
  <2>4. us \in Seq(Chars) /\ v \in Seq(Chars)
    BY <1>3
  <2>1. us \o os = u \o (sp \o os)
    <3> HIDE DEF os
    <3> QED BY <1>1, <1>4, <2>0
  <2>2. os \o v = one \o sv
    BY <1>1, <1>2, <1>4
  <2>3. (us \o os) \o v = us \o (os \o v)
    <3> HIDE DEF os, us
    <3> QED BY <1>4, <2>0, <2>4
  <2> HIDE DEF us, sv
  <2> QED BY <1>1, <2>1, <2>2, <2>3
<1>6. TokenTexts(us \o (one \o sv)) = TokenTexts(us) \cup TokenTexts(sv)
  <2> HIDE DEF us, sv
  <2> QED BY <1>1, <1>3, TokensOfBoth DEF one
<1>7. TokenTexts(sv) = TokenTexts(v)
  BY <1>1, AfterNoDigits
<1> QED BY <1>5, <1>6, <1>7 DEF us, sp

\* A number that is written without spaces.
IsFigure(s) == s \in Seq(Chars) /\ BeginsWithDigit(s) /\ IsPlain(s)

\* The tokens of a text in which words and a number come last.
LEMMA TokensWithFigure ==
    ASSUME NEW u \in Seq(Chars), NEW s, IsFigure(s)
    PROVE  TokenTexts(((u \o Words) \o s) \o <<Space>>) = TokenTexts(u \o <<Space>>) \cup {s}
<1> DEFINE sp == <<Space>>
           uw == u \o Words
           v == s \o sp
<1>1. /\ s \in Seq(Chars) /\ sp \in Seq(Chars) /\ uw \in Seq(Chars) /\ v \in Seq(Chars)
  <2>1. s \in Seq(Chars) /\ sp \in Seq(Chars) /\ Words \in Seq(Chars)
    BY WordsAre DEF IsFigure
  <2> HIDE DEF sp
  <2> QED BY <2>1, ConcatProperties
<1>2. TokenTexts(v) = {s}
  BY CharsAre, TokenAndSpace DEF IsFigure
<1> HIDE DEF sp
<1>3. (uw \o s) \o sp = uw \o v
  <2> HIDE DEF uw
  <2>1. ASSUME NEW a \in Seq(Chars), NEW b \in Seq(Chars), NEW c \in Seq(Chars)
        PROVE  (a \o b) \o c = a \o (b \o c)
    BY ConcatAssociative
  <2>2. uw \in Seq(Chars) /\ s \in Seq(Chars) /\ sp \in Seq(Chars)
    BY <1>1
  <2> QED BY <2>1, <2>2
<1>4. TokenTexts(uw \o v) = TokenTexts(u \o <<Space>>) \cup TokenTexts(v)
  <2> HIDE DEF v
  <2> QED BY <1>1, TokensAroundWords
<1> QED BY <1>2, <1>3, <1>4 DEF sp

\* The tokens of a text that ends with words.
LEMMA TokensBeforeWords ==
    ASSUME NEW u \in Seq(Chars)
    PROVE  TokenTexts(u \o Words) = TokenTexts(u \o <<Space>>)
<1> DEFINE none == <<>>
           uw == u \o Words
<1>1. none \in Seq(Chars) /\ HasNoDigits(none)
  BY DEF HasNoDigits
<1>2. uw \in Seq(Chars)
  BY WordsAre, ConcatProperties
<1>3. uw \o none = uw
  <2> HIDE DEF uw
  <2> QED BY <1>2, ConcatEmptySeq
<1> HIDE DEF none
<1>4. TokenTexts(uw \o none) = TokenTexts(u \o <<Space>>) \cup TokenTexts(none)
  BY <1>1, TokensAroundWords
<1>5. TokenTexts(none) = {}
  BY <1>1, NothingToFind
<1> QED BY <1>3, <1>4, <1>5

\* Words alone have no token, and a number between words is the only one.
LEMMA TokensOfFramed ==
    ASSUME NEW s, IsFigure(s)
    PROVE  /\ TokenTexts(Words) = {} /\ TokenTexts(<<Space>>) = {}
           /\ TokenTexts((Words \o s) \o <<Space>>) = {s}
           /\ TokenTexts((Words \o s) \o Words) = {s}
           /\ Words \o s \in Seq(Chars)
<1> DEFINE none == <<>>
           ws == Words \o s
<1>1. none \in Seq(Chars) /\ none \o Words = Words /\ none \o <<Space>> = <<Space>>
  BY WordsAre
<1> HIDE DEF none
<1>2. TokenTexts(Words) = {} /\ TokenTexts(<<Space>>) = {}
  BY WordsAre, NothingToFind
<1>3. TokenTexts(((none \o Words) \o s) \o <<Space>>) = TokenTexts(none \o <<Space>>) \cup {s}
  BY <1>1, TokensWithFigure
<1>4. TokenTexts(ws \o <<Space>>) = {s}
  BY <1>1, <1>2, <1>3
<1>5. ws \in Seq(Chars)
  BY WordsAre, ConcatProperties DEF IsFigure
<1> HIDE DEF ws
<1>6. TokenTexts(ws \o Words) = TokenTexts(ws \o <<Space>>)
  BY <1>5, TokensBeforeWords
<1> QED BY <1>2, <1>4, <1>5, <1>6 DEF ws

-----------------------------------------------------------------------------
(* Numbers and dates in the texts. *)

\* A figure is a digit.
LEMMA CharIsDigit ==
    ASSUME NEW n \in 0..9
    PROVE  NumberChars[n + 1] \in Digits
<1> DEFINE i == n + 1
<1>1. i \in 1..10
  OBVIOUS
<1> HIDE DEF i
<1>2. NumberChars[i] \in Digits
  BY <1>1 DEF NumberChars, Digits
<1> QED BY <1>2 DEF i

\* A number is written in digits.
LEMMA WrittenIsDigits ==
    ASSUME NEW n \in Nat
    PROVE  Written(n) \in Seq(Digits) /\ IsDigits(Written(n))
<1> DEFINE rank == [i \in Nat |-> i]
           T == {i \in Nat : Written(i) \in Seq(Digits)}
<1>1. rank \in [Nat -> Nat]
  OBVIOUS
<1>2. ASSUME NEW i \in Nat, \A e \in Nat : rank[e] < rank[i] => e \in T
      PROVE  i \in T
  <2>1. CASE i < 10
    <3>1. Written(i) = <<NumberChars[i + 1]>>
      BY <2>1, WrittenIs
    <3>2. NumberChars[i + 1] \in Digits
      BY <2>1, CharIsDigit
    <3> DEFINE c == NumberChars[i + 1]
    <3>3. c \in Digits /\ Written(i) = <<c>>
      BY <3>1, <3>2
    <3> HIDE DEF c
    <3>4. Written(i) \in Seq(Digits)
      BY <3>3
    <3> QED BY <3>4
  <2>2. CASE i >= 10
    <3>1. Written(i) = Append(Written(i \div 10), NumberChars[(i % 10) + 1])
      BY <2>2, WrittenIs
    <3>2. i \div 10 \in Nat /\ i % 10 \in 0..9 /\ i \div 10 < i
      BY <2>2, Tenth
    <3>3. Written(i \div 10) \in Seq(Digits)
      BY <1>2, <3>2
    <3> DEFINE front == Written(i \div 10)
               last == i % 10
               c == NumberChars[last + 1]
    <3>4. last \in 0..9
      BY <3>2
    <3> HIDE DEF last
    <3>5. c \in Digits
      BY <3>4, CharIsDigit
    <3> HIDE DEF front, c
    <3>6. front \in Seq(Digits)
      BY <3>3 DEF front
    <3>7. Append(front, c) \in Seq(Digits)
      BY <3>5, <3>6, AppendProperties
    <3>8. Written(i) = Append(front, c)
      BY <3>1 DEF front, c, last
    <3> QED BY <3>7, <3>8
  <2> QED BY <2>1, <2>2
<1> HIDE DEF rank, T
<1>3. Nat \subseteq T
  BY <1>1, <1>2, RankInduction
<1>4. Written(n) \in Seq(Digits)
  BY <1>3 DEF T
<1>5. Len(Written(n)) \in Nat /\ Len(Written(n)) >= 1
  BY WrittenLength
<1>6. Written(n) # <<>>
  BY <1>5
<1>7. \A i \in 1..Len(Written(n)) : Written(n)[i] \in Digits
  BY <1>4, ElementOfSeq
<1> QED BY <1>4, <1>6, <1>7 DEF IsDigits

\* So it is when zeros come first.
LEMMA PaddedIsDigits ==
    ASSUME NEW n \in Nat, NEW w \in Nat
    PROVE  Padded(n, w) \in Seq(Digits) /\ IsDigits(Padded(n, w))
<1> DEFINE k == Len(Written(n))
           z == IF k < w THEN w - k ELSE 0
           p == Padded(n, w)
<1>1. /\ p \in PlainText /\ k \in Nat /\ z \in Nat /\ Len(p) = z + k
      /\ \A i \in 1..z : p[i] = "0"
      /\ \A i \in 1..k : p[z + i] = Written(n)[i]
  BY PaddedIs
<1>2. k >= 1 /\ \A i \in 1..k : Written(n)[i] \in Digits
  BY WrittenLength, WrittenIsDigits DEF IsDigits
<1> HIDE DEF z, k, p
<1>3. ASSUME NEW i \in 1..(z + k)
      PROVE  p[i] \in Digits
  <2>1. CASE i \in 1..z
    BY <1>1, <2>1 DEF Digits
  <2>2. CASE i \notin 1..z
    <3> DEFINE j == i - z
    <3>1. j \in 1..k /\ z + j = i
      BY <1>1, <2>2
    <3> HIDE DEF j
    <3>2. p[z + j] = Written(n)[j] /\ Written(n)[j] \in Digits
      BY <1>1, <1>2, <3>1
    <3> QED BY <3>1, <3>2
  <2> QED BY <2>1, <2>2
<1>4. p \in Seq(PlainChars)
  BY <1>1 DEF PlainText
<1>5. Len(p) \in Nat /\ Len(p) # 0
  BY <1>1, <1>2
<1>6. p # <<>>
  BY <1>4, <1>5, EmptySeq
<1>7. p \in Seq(Digits)
  <2>1. p \in [1..Len(p) -> PlainChars]
    BY <1>4, LenProperties
  <2>2. p \in [1..Len(p) -> Digits]
    BY <1>1, <1>3, <2>1
  <2> QED BY <1>5, <2>2
<1> QED BY <1>1, <1>3, <1>6, <1>7 DEF IsDigits, p

\* Digits are a figure, and can be read as what they are.
LEMMA DigitsAreFigure ==
    ASSUME NEW s \in Seq(Digits), IsDigits(s)
    PROVE  IsFigure(s) /\ Value(s, <<>>) \in Denoted(s)
<1> DEFINE mark == Comma
<1>1. mark \in {Space, Comma, Point} /\ mark # Space
  BY DEF Space, Comma, Point
<1>2. s \in Seq(Chars) /\ s # <<>>
  BY CharsAre DEF IsDigits
<1> HIDE DEF mark
<1>3. Spelt(s, s, mark)
  BY <1>2, DigitsAreSpelt
<1>4. /\ mark # Space => IsPlain(s)
      /\ Value(s, <<>>) \in Denoted(s)
  BY <1>1, <1>2, <1>3, WholeIsRead
<1>5. BeginsWithDigit(s)
  BY <1>3 DEF Spelt
<1> QED BY <1>1, <1>2, <1>4, <1>5 DEF IsFigure

\* Zeros after the decimal point do not count.
LEMMA ZerosAreNothing ==
    ASSUME NEW w, NEW p \in Seq(Digits), Len(p) = 2, p[2] = "0"
    PROVE  /\ p[1] = "0" => Value(w, p) = Value(w, <<>>)
           /\ p[1] # "0" => Value(w, p) = Value(w, <<p[1]>>)
<1> DEFINE r == Reverse(p)
           c == p[1]
           one == <<c>>
           t == Reverse(one)
           e == Reverse(<<>>)
<1>1. r \in Seq(Digits) /\ Len(r) = 2 /\ r[1] = "0" /\ r[2] = c /\ c \in Digits
  <2>1. /\ r \in Seq(Digits) /\ Len(r) = Len(p)
        /\ \A i \in 1..Len(p) : r[i] = p[(Len(p) - i) + 1]
    BY ReverseTwice
  <2>2. 1 \in 1..2 /\ 2 \in 1..2 /\ (2 - 1) + 1 = 2 /\ (2 - 2) + 1 = 1
    OBVIOUS
  <2>3. \A i \in 1..2 : r[i] = p[(2 - i) + 1]
    BY <2>1
  <2>4. p[1] \in Digits
    BY <2>2, ElementOfSeq
  <2> HIDE DEF r
  <2> QED BY <2>1, <2>2, <2>3, <2>4
<1>2. one \in Seq(Digits) /\ Len(one) = 1 /\ one[1] = c
  BY <1>1
<1> HIDE DEF r, one, c
<1>3. t = one
  <2>1. /\ t \in Seq(Digits) /\ Len(t) = Len(one)
        /\ \A i \in 1..Len(one) : t[i] = one[(Len(one) - i) + 1]
    <3>1. one \in Seq(Digits)
      BY <1>2
    <3> QED BY <3>1, ReverseTwice
  <2> HIDE DEF t
  <2>2. \A i \in 1..Len(t) : t[i] = one[i]
    BY <1>2, <2>1
  <2> QED BY <1>2, <2>1, <2>2, SeqEqual
<1>4. e = <<>>
  <2> DEFINE none == <<>>
  <2>1. none \in Seq(Digits) /\ Len(none) = 0
    OBVIOUS
  <2> HIDE DEF none
  <2>2. Reverse(none) \in Seq(Digits) /\ Len(Reverse(none)) = Len(none)
    <3>1. none \in Seq(Digits)
      BY <2>1
    <3> QED BY <3>1, ReverseTwice
  <2>3. Reverse(none) = <<>>
    BY <2>1, <2>2, EmptySeq
  <2> QED BY <2>3 DEF none
<1>5. WithoutLeading(<<>>) = <<>>
  <2> DEFINE none == <<>>
  <2>1. none \in Seq(Digits)
    OBVIOUS
  <2> HIDE DEF none
  <2>2. none = <<>> => WithoutLeading(none) = none
    BY <2>1, LeadingOnce
  <2> QED BY <2>2 DEF none
<1>6. ASSUME NEW k \in 0..2, \A i \in 1..k : r[i] = "0", k < 2 => r[k + 1] # "0"
      PROVE  WithoutLeading(r) = SubSeq(r, k + 1, 2)
  <2>1. \A j \in 0..Len(r) :
            (\A i \in 1..j : r[i] = "0") /\ (j < Len(r) => r[j + 1] # "0")
            => WithoutLeading(r) = SubSeq(r, j + 1, Len(r))
    <3>1. r \in Seq(Digits)
      BY <1>1
    <3> QED BY <3>1, LeadingIs
  <2>2. Len(r) = 2
    BY <1>1
  <2> QED BY <1>6, <2>1, <2>2
<1>7. CASE c = "0"
  <2>1. WithoutLeading(r) = SubSeq(r, 3, 2)
    <3> DEFINE k == 2
    <3>1. k \in 0..2 /\ (\A i \in 1..k : r[i] = "0") /\ ~(k < 2) /\ k + 1 = 3
      BY <1>1, <1>7
    <3> HIDE DEF k
    <3> QED BY <1>6, <3>1
  <2>2. SubSeq(r, 3, 2) = <<>>
    BY <1>1
  <2> QED BY <1>4, <1>5, <1>7, <2>1, <2>2 DEF Value, r, c
<1>8. CASE c # "0"
  <2>1. WithoutLeading(r) = SubSeq(r, 2, 2)
    <3> DEFINE k == 1
    <3>1. k \in 0..2 /\ (\A i \in 1..k : r[i] = "0") /\ r[k + 1] # "0" /\ k + 1 = 2
      BY <1>1, <1>8
    <3> HIDE DEF k
    <3> QED BY <1>6, <3>1
  <2>2. SubSeq(r, 2, 2) = <<c>>
    <3> DEFINE at == 2
    <3>1. r \in Seq(Digits)
      BY <1>1
    <3>2. at \in 1..Len(r) /\ at = 2
      BY <1>1
    <3> HIDE DEF at
    <3>3. SubSeq(r, at, at) = <<r[at]>>
      BY <3>1, <3>2, OneSymbol
    <3> QED BY <1>1, <3>2, <3>3
  <2>3. WithoutLeading(one) = one
    <3>1. one \in Seq(Digits) /\ one[1] # "0"
      BY <1>2, <1>8
    <3> QED BY <3>1, LeadingOnce
  <2>4. one = <<c>>
    BY DEF one
  <2> QED BY <1>3, <1>8, <2>1, <2>2, <2>3, <2>4 DEF Value, r, c, one
<1> QED BY <1>7, <1>8 DEF c

\* A number in hundredths is whole, or has one decimal.
LEMMA HundredthsOf ==
    ASSUME NEW v \in Nat, v % 10 = 0
    PROVE  /\ v \div 100 \in Nat /\ v % 100 \in Nat
           /\ (v % 100) \div 10 \in 0..9
           /\ v % 100 = 10 * ((v % 100) \div 10)
           /\ v % 100 # 0 => (v % 100) \div 10 \in 1..9
<1>1. v \div 100 \in Nat /\ v % 100 \in 0..99 /\ v = 100 * (v \div 100) + (v % 100)
  OBVIOUS
<1> DEFINE r == v % 100
           h == v \div 100
           q == r \div 10
<1>2. r % 10 = 0
  <2>1. v = 10 * (v \div 10)
    OBVIOUS
  <2> QED BY <1>1, <2>1
<1> HIDE DEF r, h
<1>3. r \in 0..99
  BY <1>1 DEF r
<1>4. q \in 0..9 /\ r = 10 * q
  BY <1>2, <1>3
<1> HIDE DEF q
<1>5. r # 0 => q \in 1..9
  BY <1>4
<1> QED BY <1>1, <1>3, <1>4, <1>5 DEF r, q

\* The figures of a single decimal digit, alone and padded.
LEMMA WrittenTenths ==
    ASSUME NEW q \in 0..9
    PROVE  \E c \in Digits :
              /\ Written(q) = <<c>> /\ (q # 0 => c # "0")
              /\ Len(Padded(10 * q, 2)) = 2
              /\ Padded(10 * q, 2)[1] = c /\ Padded(10 * q, 2)[2] = "0"
<1> DEFINE c == NumberChars[q + 1]
           o == NumberChars[0 + 1]
           n == 10 * q
           two == 2
           p == Padded(n, two)
           k == Len(Written(n))
           z == IF k < two THEN two - k ELSE 0
<1>1. c \in Digits
  BY CharIsDigit
<1>2. o = "0"
  BY DEF NumberChars
<1>3. q # 0 => c # "0"
  <2>1. q \in 0..9 /\ 0 \in 0..9
    OBVIOUS
  <2>2. c = o => q = 0
    BY <2>1, CharsDiffer
  <2> QED BY <1>2, <2>2
<1>4. Written(q) = <<c>>
  <2>1. q \in Nat /\ q < 10
    OBVIOUS
  <2> QED BY <2>1, WrittenIs
<1>5. n \in Nat /\ two \in Nat /\ two = 2
  OBVIOUS
<1>6. n >= 10 => n \div 10 = q /\ n % 10 = 0
  BY <1>5
<1>7. n < 10 => q = 0 /\ n = 0
  BY <1>5
<1>8. n >= 10 => Written(n) = Append(Written(q), o)
  BY <1>5, <1>6, WrittenIs
<1>9. n < 10 => Written(n) = <<o>> /\ c = o
  <2>1. n < 10 => Written(n) = <<NumberChars[n + 1]>>
    BY <1>5, WrittenIs
  <2> QED BY <1>7, <2>1
<1> HIDE DEF two, n
<1>10. /\ Len(p) = z + k
       /\ \A i \in 1..z : p[i] = "0"
       /\ \A i \in 1..k : p[z + i] = Written(n)[i]
  BY <1>5, PaddedIs
<1> HIDE DEF c, o
<1>11. CASE n >= 10
  <2>1. Written(n) = Append(<<c>>, o)
    BY <1>4, <1>8, <1>11
  <2>2. Append(<<c>>, o) = <<c, o>>
    <3>1. c \in Digits /\ o \in Digits
      BY <1>1, <1>2 DEF Digits
    <3> QED BY <3>1, AppendToOne
  <2>3. k = 2 /\ Written(n)[1] = c /\ Written(n)[2] = o
    BY <2>1, <2>2
  <2> HIDE DEF k, p
  <2>4. z = 0
    BY <1>5, <2>3
  <2>5. Len(p) = 2 /\ p[1] = c /\ p[2] = o
    BY <1>10, <2>3, <2>4
  <2> QED BY <1>1, <1>2, <1>3, <1>4, <2>5 DEF p, n, two
<1>12. CASE n < 10
  <2>1. k = 1 /\ Written(n)[1] = o
    BY <1>9, <1>12
  <2> HIDE DEF k, p
  <2>2. z = 1
    BY <1>5, <2>1
  <2>3. Len(p) = 2 /\ p[1] = "0" /\ p[2] = o
    <3>1. 1 \in 1..z /\ 1 \in 1..k /\ z + 1 = 2 /\ z + k = 2
      BY <2>1, <2>2
    <3>2. p[z + 1] = Written(n)[1]
      BY <1>10, <3>1
    <3> QED BY <1>10, <2>1, <3>1, <3>2
  <2> QED BY <1>1, <1>2, <1>3, <1>4, <1>9, <1>12, <2>3 DEF p, n, two
<1> QED BY <1>5, <1>11, <1>12 DEF n

\* The value of a number in hundredths.
NumberOf(v) == Value(Written(v \div 100), Padded(v % 100, 2))

\* String(number) is a figure, and can be read as the number.
LEMMA ShownIsRead ==
    ASSUME NEW v \in Nat, v % 10 = 0
    PROVE  IsFigure(Shown(v)) /\ NumberOf(v) \in Denoted(Shown(v))
<1> DEFINE h == v \div 100
           r == v % 100
           q == r \div 10
           w == Written(h)
           p == Padded(r, 2)
<1>1. h \in Nat /\ r \in Nat /\ q \in 0..9 /\ r = 10 * q /\ (r # 0 => q # 0)
  BY HundredthsOf
<1>2. w \in Seq(Digits) /\ IsDigits(w)
  BY <1>1, WrittenIsDigits
<1>3. Shown(v) = w \o (IF r = 0 THEN <<>> ELSE <<Point>> \o Written(q))
  BY DEF Shown
<1>4. NumberOf(v) = Value(w, p)
  BY DEF NumberOf
<1>5. p \in Seq(Digits)
  <2>1. 2 \in Nat
    OBVIOUS
  <2> QED BY <1>1, <2>1, PaddedIsDigits
<1> HIDE DEF h, r, q
<1>6. PICK c \in Digits :
          /\ Written(q) = <<c>> /\ (q # 0 => c # "0")
          /\ Len(Padded(10 * q, 2)) = 2
          /\ Padded(10 * q, 2)[1] = c /\ Padded(10 * q, 2)[2] = "0"
  BY <1>1, WrittenTenths
<1>7. Len(p) = 2 /\ p[1] = c /\ p[2] = "0"
  BY <1>1, <1>6
<1> HIDE DEF w, p
<1>8. /\ c = "0" => Value(w, p) = Value(w, <<>>)
      /\ c # "0" => Value(w, p) = Value(w, <<c>>)
  BY <1>5, <1>7, ZerosAreNothing
<1>9. CASE r = 0
  <2>1. Shown(v) = w
    BY <1>2, <1>3, <1>9, ConcatProperties
  <2>2. c = "0"
    <3>1. q = 0
      BY <1>1, <1>9
    <3>2. Written(0) = <<NumberChars[1]>> /\ NumberChars[1] = "0"
      BY WrittenIs DEF NumberChars
    <3> QED BY <1>6, <3>1, <3>2
  <2>3. IsFigure(w) /\ Value(w, <<>>) \in Denoted(w)
    BY <1>2, DigitsAreFigure
  <2> QED BY <1>4, <1>8, <2>1, <2>2, <2>3
<1>10. CASE r # 0
  <2> DEFINE one == <<c>>
             d == Point
             mark == Comma
             t == (w \o <<d>>) \o one
  <2>1. Shown(v) = w \o (<<d>> \o one)
    BY <1>3, <1>6, <1>10
  <2>2. c # "0"
    BY <1>1, <1>6, <1>10
  <2>3. one \in Seq(Chars) /\ IsDigits(one) /\ Len(one) <= 2
    BY <1>6, CharsAre DEF IsDigits
  <2>4. w \in Seq(Chars) /\ w # <<>>
    BY <1>2, CharsAre DEF IsDigits
  <2>5. /\ d \in Chars /\ d \in {Point, Comma} /\ d # mark
        /\ mark \in {Space, Comma, Point} /\ mark # Space
    BY CharsAre DEF Space, Comma, Point
  <2> HIDE DEF one, d, mark
  <2>6. Spelt(w, w, mark)
    BY <1>2, <2>4, DigitsAreSpelt
  <2>7. /\ IsPlain(t) /\ BeginsWithDigit(t)
        /\ Value(w, one) \in Denoted(t)
    BY <2>3, <2>4, <2>5, <2>6, DecimalIsRead
  <2>8. t \in Seq(Chars) /\ t = w \o (<<d>> \o one)
    <3> DEFINE dd == <<d>>
    <3>1. dd \in Seq(Chars) /\ w \in Seq(Chars) /\ one \in Seq(Chars)
      BY <2>3, <2>4, <2>5
    <3> HIDE DEF dd
    <3>2. (w \o dd) \o one = w \o (dd \o one) /\ (w \o dd) \o one \in Seq(Chars)
      BY <3>1, ConcatAssociative, ConcatProperties
    <3> QED BY <3>2 DEF dd
  <2>9. Value(w, p) = Value(w, one)
    BY <1>8, <2>2 DEF one
  <2> QED BY <1>4, <2>1, <2>7, <2>8, <2>9 DEF IsFigure
<1> QED BY <1>9, <1>10

\* What stands between two characters that are no part of a number is read alone.
LEMMA TokensBetween ==
    ASSUME NEW u \in Seq(Chars), NEW h \in Chars, h \notin Figured, NEW v \in Seq(Chars)
    PROVE  /\ (u \o <<h>>) \o v \in Seq(Chars)
           /\ TokenTexts((u \o <<h>>) \o v) = TokenTexts(u) \cup TokenTexts(v)
<1> DEFINE one == <<h>>
<1>1. one \in Seq(Chars)
  OBVIOUS
<1>2. TokenTexts(u \o (one \o v)) = TokenTexts(u) \cup TokenTexts(v)
  BY TokensOfBoth
<1> HIDE DEF one
<1>3. (u \o one) \o v = u \o (one \o v) /\ (u \o one) \o v \in Seq(Chars)
  BY <1>1, ConcatAssociative, ConcatProperties
<1> QED BY <1>2, <1>3 DEF one

\* Texts one after another.
LEMMA AfterTwo ==
    ASSUME NEW p \in Seq(Chars), NEW a \in Seq(Chars), NEW b \in Seq(Chars)
    PROVE  (p \o a) \o b = p \o (a \o b) /\ a \o b \in Seq(Chars) /\ (p \o a) \in Seq(Chars)
BY ConcatAssociative, ConcatProperties

\* Digits are a token of their own, also before a space.
LEMMA TokenOfDigits ==
    ASSUME NEW s \in Seq(Digits), IsDigits(s)
    PROVE  s \in Seq(Chars) /\ TokenTexts(s) = {s} /\ TokenTexts(s \o <<Space>>) = {s}
<1>1. IsFigure(s)
  BY DigitsAreFigure
<1>2. s \in Seq(Chars) /\ BeginsWithDigit(s) /\ IsPlain(s) /\ Space \in Chars
  BY <1>1, CharsAre DEF IsFigure
<1>3. TokenTexts(s) = {s}
  BY <1>2, WholeToken
<1>4. TokenTexts(s \o <<Space>>) = {s}
  BY <1>2, TokenAndSpace
<1> QED BY <1>2, <1>3, <1>4

\* A month, or a day of one.
LEMMA PaddedTwo ==
    ASSUME NEW n \in Nat
    PROVE  Padded(n, 2) \in Seq(Digits) /\ IsDigits(Padded(n, 2))
<1> DEFINE two == 2
<1>1. two \in Nat
  OBVIOUS
<1> HIDE DEF two
<1>2. Padded(n, two) \in Seq(Digits) /\ IsDigits(Padded(n, two))
  BY <1>1, PaddedIsDigits
<1> QED BY <1>2 DEF two

YearText(t) == Written(2000 + DayOf(LocalMinute(t)) \div 360)
MonthText(t) == Padded(MonthOf(LocalMinute(t)), 2)
DayText(t) == Padded((DayOf(LocalMinute(t)) % 30) + 1, 2)
DateTexts(t) == {YearText(t), MonthText(t), DayText(t)}

\* A local day of a year that an integer can hold.
Dated(t) ==
    LocalMinute(t) \in Int /\ 2000 + DayOf(LocalMinute(t)) \div 360 \in 0..MaxInteger

\* The parts of such a date are digits.
LEMMA DatePartsAreDigits ==
    ASSUME NEW t, Dated(t)
    PROVE  \A s \in DateTexts(t) : s \in Seq(Digits) /\ IsDigits(s)
<1> DEFINE m == LocalMinute(t)
           day == DayOf(m)
<1>1. day \in Int /\ 2000 + day \div 360 \in Nat
  BY DEF Dated, DayOf, MinutesPerDay
<1> HIDE DEF day
<1>2. 2000 + day \div 360 \in Nat /\ (day % 30) + 1 \in Nat
  BY <1>1
<1>3. MonthOf(m) \in Nat
  <2>1. MonthOf(m) = ((day \div 30) % 12) + 1
    BY DEF MonthOf, day
  <2>2. day \div 30 \in Int
    BY <1>1
  <2> QED BY <2>1, <2>2
<1> HIDE DEF m
<1>4. YearText(t) \in Seq(Digits) /\ IsDigits(YearText(t))
  BY <1>2, WrittenIsDigits DEF YearText, day, m
<1>5. MonthText(t) \in Seq(Digits) /\ IsDigits(MonthText(t))
  <2>1. Padded(MonthOf(m), 2) \in Seq(Digits) /\ IsDigits(Padded(MonthOf(m), 2))
    BY <1>3, PaddedTwo
  <2> QED BY <2>1 DEF MonthText, m
<1>6. DayText(t) \in Seq(Digits) /\ IsDigits(DayText(t))
  <2> DEFINE d == (day % 30) + 1
  <2>1. d \in Nat
    BY <1>2
  <2> HIDE DEF d
  <2>2. Padded(d, 2) \in Seq(Digits) /\ IsDigits(Padded(d, 2))
    BY <2>1, PaddedTwo
  <2> QED BY <2>2 DEF DayText, d, day, m
<1> QED BY <1>4, <1>5, <1>6 DEF DateTexts

\* A date is read as its year, its month and its day.
LEMMA TokensOfDate ==
    ASSUME NEW t, Dated(t)
    PROVE  /\ IsoDatePart(t) \in Seq(Chars)
           /\ TokenTexts(IsoDatePart(t)) = DateTexts(t)
           /\ TokenTexts((Words \o IsoDatePart(t)) \o Words) = DateTexts(t)
<1> DEFINE y == YearText(t)
           m == MonthText(t)
           d == DayText(t)
           h == "-"
           ym == (y \o <<h>>) \o m
           date == (ym \o <<h>>) \o d
           sp == <<Space>>
<1>1. IsoDatePart(t) = date
  BY DEF IsoDatePart, YearText, MonthText, DayText
<1>2. /\ y \in Seq(Digits) /\ IsDigits(y) /\ m \in Seq(Digits) /\ IsDigits(m)
      /\ d \in Seq(Digits) /\ IsDigits(d) /\ DateTexts(t) = {y, m, d}
  BY DatePartsAreDigits DEF DateTexts
<1> HIDE DEF y, m, d
<1>3. /\ y \in Seq(Chars) /\ TokenTexts(y) = {y}
      /\ m \in Seq(Chars) /\ TokenTexts(m) = {m}
      /\ d \in Seq(Chars) /\ TokenTexts(d) = {d} /\ TokenTexts(d \o sp) = {d}
  BY <1>2, TokenOfDigits
<1>4. h \in Chars /\ h \notin Figured
  BY CharsAre
<1> HIDE DEF h
<1>5. ym \in Seq(Chars) /\ TokenTexts(ym) = {y, m}
  <2>1. ym \in Seq(Chars) /\ TokenTexts(ym) = TokenTexts(y) \cup TokenTexts(m)
    BY <1>3, <1>4, TokensBetween
  <2> QED BY <1>3, <2>1
<1> HIDE DEF ym
<1>6. date \in Seq(Chars) /\ TokenTexts(date) = {y, m, d}
  <2>1. date \in Seq(Chars) /\ TokenTexts(date) = TokenTexts(ym) \cup TokenTexts(d)
    <3>1. ym \in Seq(Chars) /\ d \in Seq(Chars)
      BY <1>3, <1>5
    <3> QED BY <1>4, <3>1, TokensBetween
  <2> QED BY <1>3, <1>5, <2>1
<1>7. Words \in Seq(Chars) /\ HasNoDigits(Words) /\ sp \in Seq(Chars)
  BY WordsAre
<1> HIDE DEF sp
<1>8. TokenTexts(date \o sp) = {y, m, d}
  <2> DEFINE ymh == ym \o <<h>>
             ds == d \o sp
  <2>1. ymh \in Seq(Chars)
    <3> DEFINE hh == <<h>>
    <3>1. hh \in Seq(Chars)
      BY <1>4
    <3> HIDE DEF hh
    <3>2. ym \o hh \in Seq(Chars)
      BY <1>5, <3>1, ConcatProperties
    <3> QED BY <3>2 DEF hh
  <2>2. (ymh \o d) \o sp = ymh \o ds /\ ds \in Seq(Chars)
    <3> HIDE DEF ymh
    <3>1. ymh \in Seq(Chars) /\ d \in Seq(Chars) /\ sp \in Seq(Chars)
      BY <1>3, <1>7, <2>1
    <3> QED BY <3>1, AfterTwo
  <2> HIDE DEF ds
  <2>3. TokenTexts((ym \o <<h>>) \o ds) = TokenTexts(ym) \cup TokenTexts(ds)
    BY <1>4, <1>5, <2>2, TokensBetween
  <2>4. TokenTexts(ds) = {d}
    BY <1>3 DEF ds
  <2> QED BY <1>5, <2>2, <2>3, <2>4
<1> HIDE DEF date
<1>9. TokenTexts((Words \o date) \o Words) = {y, m, d}
  <2>1. Words \o date \in Seq(Chars)
    BY <1>6, <1>7, ConcatProperties
  <2>2. TokenTexts((Words \o date) \o Words) = TokenTexts((Words \o date) \o sp)
    BY <2>1, TokensBeforeWords DEF sp
  <2>3. (Words \o date) \o sp = Words \o (date \o sp) /\ date \o sp \in Seq(Chars)
    BY <1>6, <1>7, AfterTwo
  <2>4. TokenTexts(Words \o (date \o sp)) = TokenTexts(date \o sp)
    BY <1>7, <2>3, AfterNoDigits
  <2> QED BY <1>8, <2>2, <2>3, <2>4
<1> QED BY <1>1, <1>2, <1>6, <1>9

\* So is a timestamp, among other numbers.
LEMMA TokensOfTimestamp ==
    ASSUME NEW t, Dated(t)
    PROVE  DateTexts(t) \subseteq TokenTexts(IsoTimestamp(t))
<1> DEFINE local == LocalMinute(t)
           date == IsoDatePart(t)
           h == "T"
           hours == (local % MinutesPerDay) \div 60
           minutes == local % 60
           two == 2
           a == Padded(hours, two)
           b == <<":">>
           c == Padded(minutes, two)
           e == <<":", "0", "0", ".", "0", "0", "0", "Z">>
           p == date \o <<h>>
           rest == a \o (b \o (c \o e))
<1>1. IsoTimestamp(t) = (((p \o a) \o b) \o c) \o e
  BY DEF IsoTimestamp
<1>2. h \in Chars /\ h \notin Figured
  BY CharsAre
<1>3. b \in Seq(Chars) /\ e \in Seq(Chars)
  <2>1. ":" \in Chars /\ "0" \in Chars /\ "." \in Chars /\ "Z" \in Chars
    BY CharsAre DEF Chars, Digits, Point
  <2> QED BY <2>1
<1>4. hours \in Nat /\ minutes \in Nat /\ two \in Nat
  <2>1. local \in Int
    BY DEF Dated
  <2>2. local % MinutesPerDay \in Nat /\ local % 60 \in Nat
    BY <2>1 DEF MinutesPerDay
  <2> QED BY <2>2
<1> HIDE DEF hours, minutes, two, b, e, h, date
<1>5. a \in Seq(Chars) /\ c \in Seq(Chars)
  <2>1. a \in Seq(Digits) /\ c \in Seq(Digits)
    BY <1>4, PaddedIsDigits
  <2> QED BY <2>1, CharsAre
<1>6. date \in Seq(Chars) /\ TokenTexts(date) = DateTexts(t)
  BY TokensOfDate DEF date
<1>7. p \in Seq(Chars)
  <2> DEFINE hh == <<h>>
  <2>1. hh \in Seq(Chars)
    BY <1>2
  <2> HIDE DEF hh
  <2>2. date \o hh \in Seq(Chars)
    BY <1>6, <2>1, ConcatProperties
  <2> QED BY <2>2 DEF hh
<1>8. ASSUME NEW q \in Seq(Chars)
      PROVE  (((q \o a) \o b) \o c) \o e = q \o rest /\ rest \in Seq(Chars)
  <2> HIDE DEF a, c
  <2>1. q \o a \in Seq(Chars) /\ (q \o a) \o b \in Seq(Chars)
    BY <1>3, <1>5, ConcatProperties
  <2>2. (((q \o a) \o b) \o c) \o e = ((q \o a) \o b) \o (c \o e) /\ c \o e \in Seq(Chars)
    <3> DEFINE qab == (q \o a) \o b
    <3>1. qab \in Seq(Chars)
      BY <2>1
    <3> HIDE DEF qab
    <3>2. c \in Seq(Chars) /\ e \in Seq(Chars)
      BY <1>3, <1>5
    <3> HIDE DEF c
    <3>3. (qab \o c) \o e = qab \o (c \o e) /\ c \o e \in Seq(Chars)
      BY <3>1, <3>2, AfterTwo
    <3> QED BY <3>3 DEF qab
  <2> DEFINE ce == c \o e
  <2>3. ce \in Seq(Chars)
    BY <2>2
  <2> HIDE DEF ce
  <2>4. ((q \o a) \o b) \o ce = (q \o a) \o (b \o ce) /\ b \o ce \in Seq(Chars)
    <3> DEFINE qa == q \o a
    <3>1. qa \in Seq(Chars)
      BY <2>1
    <3> HIDE DEF qa
    <3>2. b \in Seq(Chars)
      BY <1>3
    <3>3. (qa \o b) \o ce = qa \o (b \o ce) /\ b \o ce \in Seq(Chars)
      BY <2>3, <3>1, <3>2, AfterTwo
    <3> QED BY <3>3 DEF qa
  <2> DEFINE bce == b \o ce
  <2>5. bce \in Seq(Chars)
    BY <2>4
  <2> HIDE DEF bce
  <2>6. (q \o a) \o bce = q \o (a \o bce) /\ a \o bce \in Seq(Chars)
    <3>1. a \in Seq(Chars)
      BY <1>5
    <3> QED BY <2>5, <3>1, AfterTwo
  <2> QED BY <2>2, <2>4, <2>6 DEF ce, bce
<1> HIDE DEF rest
<1>9. IsoTimestamp(t) = p \o rest /\ rest \in Seq(Chars)
  <2> HIDE DEF p, a, c
  <2> QED BY <1>1, <1>7, <1>8
<1>10. TokenTexts((date \o <<h>>) \o rest) = TokenTexts(date) \cup TokenTexts(rest)
  BY <1>2, <1>6, <1>9, TokensBetween
<1> QED BY <1>6, <1>9, <1>10

-----------------------------------------------------------------------------
(* The signals of a merchant. *)

\* The signals there can be of a merchant.
GapSignal == Signal("deal_gap", Words, "hasActiveOffer")
PeakSignal == Signal("seasonal_window", Words, "category")
FreshSignal == Signal("new_to_market", Words, "yearsInBusiness")
EndedSignal(ended) ==
    Signal("deal_gap", (Words \o IsoDatePart(ended)) \o Words, "lastOfferEndedAt")
RatingSignal(rating, reviews) ==
    Signal("high_rating_low_volume",
           (((((Words \o Shown(rating)) \o Words) \o RatingScale) \o Words) \o Shown(reviews)) \o Words,
           "rating")
SeatsSignal(seats) ==
    Signal("capacity_headroom", (Words \o Shown(seats)) \o Words, "seatsOrCapacity")
YearsSignal(years) ==
    Signal("new_to_market", (Words \o Shown(years)) \o Words, "yearsInBusiness")

IsSignalOf(s, m) ==
    \/ s \in {GapSignal, PeakSignal}
    \/ m.lastOfferEndedAt # None /\ s = EndedSignal(m.lastOfferEndedAt)
    \/ /\ m.rating # None /\ m.reviewCount # None
       /\ s = RatingSignal(m.rating, m.reviewCount)
    \/ m.seatsOrCapacity # None /\ s = SeatsSignal(m.seatsOrCapacity)
    \/ m.yearsInBusiness = 0 /\ m.yearsInBusiness # None /\ s = FreshSignal
    \/ m.yearsInBusiness # None /\ s = YearsSignal(m.yearsInBusiness)

\* Only those are derived.
LEMMA DerivedAre ==
    ASSUME NEW m, NEW now
    PROVE  \A s \in Range(DeriveSignals(m, now)) : IsSignalOf(s, m)
<1> DEFINE S == {s \in Range(DeriveSignals(m, now)) \cup {GapSignal, PeakSignal, FreshSignal,
                     EndedSignal(m.lastOfferEndedAt), RatingSignal(m.rating, m.reviewCount),
                     SeatsSignal(m.seatsOrCapacity), YearsSignal(m.yearsInBusiness)} :
                     IsSignalOf(s, m)}
           ended == m.lastOfferEndedAt
           years == m.yearsInBusiness
<1>1. /\ GapSignal \in S /\ PeakSignal \in S
      /\ ended # None => EndedSignal(ended) \in S
      /\ m.rating # None /\ m.reviewCount # None => RatingSignal(m.rating, m.reviewCount) \in S
      /\ m.seatsOrCapacity # None => SeatsSignal(m.seatsOrCapacity) \in S
      /\ years # None /\ years = 0 => FreshSignal \in S
      /\ years # None => YearsSignal(years) \in S
  BY DEF IsSignalOf
<1>2. \A s \in S : IsSignalOf(s, m)
  OBVIOUS
<1> HIDE DEF S
<1>3. <<>> \in Seq(S)
  OBVIOUS
<1>4. DealGapSignal(m, now) \in Seq(S)
  <2> DEFINE gap == GapSignal
             e == EndedSignal(ended)
             is == ~m.hasActiveOffer /\ ended = None
             was == /\ ~m.hasActiveOffer /\ ended # None
                    /\ WholeDaysBetween(ended.minute, now) >= DEAL_GAP_MIN_DAYS
             first == IF is THEN <<gap>> ELSE <<>>
             second == IF was THEN <<e>> ELSE <<>>
  <2>1. DealGapSignal(m, now) = first \o second
    BY DEF DealGapSignal, When, GapSignal, EndedSignal
  <2>2. gap \in S /\ (was => e \in S)
    BY <1>1
  <2> HIDE DEF gap, e, is, was
  <2>3. <<gap>> \in Seq(S) /\ (was => <<e>> \in Seq(S))
    BY <2>2
  <2>4. first \in Seq(S) /\ second \in Seq(S)
    BY <1>3, <2>3
  <2> QED BY <2>1, <2>4, ConcatProperties
<1>5. HighRatingLowVolumeSignal(m) \in Seq(S)
  <2> DEFINE r == RatingSignal(m.rating, m.reviewCount)
             is == /\ m.rating # None /\ m.reviewCount # None
                   /\ m.rating >= HIGH_RATING_MIN
                   /\ m.reviewCount <= LOW_REVIEW_COUNT_MAX
             first == IF is THEN <<r>> ELSE <<>>
  <2>1. HighRatingLowVolumeSignal(m) = first
    BY DEF HighRatingLowVolumeSignal, When, RatingSignal
  <2>2. is => r \in S
    BY <1>1
  <2> HIDE DEF r, is
  <2>3. is => <<r>> \in Seq(S)
    BY <2>2
  <2> QED BY <1>3, <2>1, <2>3
<1>6. SeasonalWindowSignal(m, now) \in Seq(S)
  <2> DEFINE r == PeakSignal
             is == {MonthOf(now), (MonthOf(now) % 12) + 1}
                       \cap SEASONAL_PEAK_MONTHS[m.category] # {}
             first == IF is THEN <<r>> ELSE <<>>
  <2>1. SeasonalWindowSignal(m, now) = first
    BY DEF SeasonalWindowSignal, When, PeakSignal
  <2>2. r \in S
    BY <1>1
  <2> HIDE DEF r, is
  <2>3. <<r>> \in Seq(S)
    BY <2>2
  <2> QED BY <1>3, <2>1, <2>3
<1>7. CapacityHeadroomSignal(m) \in Seq(S)
  <2> DEFINE r == SeatsSignal(m.seatsOrCapacity)
             is == /\ m.seatsOrCapacity # None
                   /\ m.seatsOrCapacity >= CAPACITY_HEADROOM_MIN[m.category]
             first == IF is THEN <<r>> ELSE <<>>
  <2>1. CapacityHeadroomSignal(m) = first
    BY DEF CapacityHeadroomSignal, When, SeatsSignal
  <2>2. is => r \in S
    BY <1>1
  <2> HIDE DEF r, is
  <2>3. is => <<r>> \in Seq(S)
    BY <2>2
  <2> QED BY <1>3, <2>1, <2>3
<1>8. NewToMarketSignal(m) \in Seq(S)
  <2> DEFINE r == IF years = 0 THEN FreshSignal ELSE YearsSignal(years)
             is == years # None /\ years <= NEW_TO_MARKET_MAX_YEARS
             first == IF is THEN <<r>> ELSE <<>>
  <2>1. NewToMarketSignal(m) = first
    BY DEF NewToMarketSignal, When, FreshSignal, YearsSignal
  <2>2. is => r \in S
    BY <1>1
  <2> HIDE DEF r, is
  <2>3. is => <<r>> \in Seq(S)
    BY <2>2
  <2> QED BY <1>3, <2>1, <2>3
<1>9. DeriveSignals(m, now) \in Seq(S)
  <2> DEFINE a == DealGapSignal(m, now)
             b == HighRatingLowVolumeSignal(m)
             c == SeasonalWindowSignal(m, now)
             d == CapacityHeadroomSignal(m)
             e == NewToMarketSignal(m)
  <2>1. DeriveSignals(m, now) = (((a \o b) \o c) \o d) \o e
    BY DEF DeriveSignals
  <2> HIDE DEF a, b, c, d, e
  <2>2. a \o b \in Seq(S)
    BY <1>4, <1>5, ConcatProperties DEF a, b
  <2>3. (a \o b) \o c \in Seq(S)
    BY <1>6, <2>2, ConcatProperties DEF c
  <2>4. ((a \o b) \o c) \o d \in Seq(S)
    BY <1>7, <2>3, ConcatProperties DEF d
  <2>5. (((a \o b) \o c) \o d) \o e \in Seq(S)
    BY <1>8, <2>4, ConcatProperties DEF e
  <2> QED BY <2>1, <2>5
<1>10. \A s \in Range(DeriveSignals(m, now)) : s \in S
  <2> DEFINE all == DeriveSignals(m, now)
  <2>1. all \in Seq(S)
    BY <1>9
  <2> HIDE DEF all
  <2>2. DOMAIN all = 1..Len(all) /\ \A i \in 1..Len(all) : all[i] \in S
    BY <2>1, LenProperties, ElementOfSeq
  <2>3. \A s \in Range(all) : s \in S
    BY <2>2 DEF Range
  <2> QED BY <2>3 DEF all
<1> QED BY <1>2, <1>10

\* A number with no more digits than a double keeps is what it is.
LEMMA LeadingShortens ==
    ASSUME NEW X, NEW s \in Seq(X)
    PROVE  /\ WithoutLeading(s) \in Seq(X)
           /\ Len(WithoutLeading(s)) \in Nat /\ Len(WithoutLeading(s)) <= Len(s)
<1> DEFINE none == {}
<1>1. "0" \notin none
  OBVIOUS
<1> HIDE DEF none
<1>2. WithoutLeading(s) \in Seq(X)
  BY <1>1, WithoutLeadingIs
<1>3. PICK k \in 0..Len(s) : WithoutLeading(s) = SubSeq(s, k + 1, Len(s))
  BY <1>1, WithoutLeadingIs
<1>4. Len(SubSeq(s, k + 1, Len(s))) = Len(s) - k
  BY CutInTwo
<1>5. Len(s) \in Nat
  BY LenProperties
<1> QED BY <1>2, <1>3, <1>4, <1>5

LEMMA ShortIsExact ==
    ASSUME NEW w \in Seq(Digits), NEW p \in Seq(Digits), Len(w) + Len(p) <= ExactDigits
    PROVE  AsDouble(Value(w, p)) = Value(w, p) /\ Value(w, p) # Infinity
<1> DEFINE W == WithoutLeading(w)
           r == Reverse(p)
           q == WithoutLeading(r)
           P == Reverse(q)
           i == "Infinity"
<1>1. W \in Seq(Digits) /\ Len(W) \in Nat /\ Len(W) <= Len(w)
  BY LeadingShortens
<1>2. r \in Seq(Digits) /\ Len(r) = Len(p)
  BY ReverseTwice DEF Reverse
<1>3. Value(w, p) = [whole |-> W, part |-> P]
  BY DEF Value
<1> HIDE DEF W, r
<1>4. q \in Seq(Digits) /\ Len(q) \in Nat /\ Len(q) <= Len(r)
  BY <1>2, LeadingShortens
<1> HIDE DEF q
<1>5. Len(P) = Len(q)
  BY <1>4 DEF Reverse
<1> HIDE DEF P
<1>6. Len(w) \in Nat /\ Len(p) \in Nat /\ ExactDigits \in Nat
  BY LenProperties, ExactDigitsAssumption
<1>7. Len(W) + Len(P) <= ExactDigits
  BY <1>1, <1>2, <1>4, <1>5, <1>6
<1>8. AsDouble(Value(w, p)) = Value(w, p)
  BY <1>3, <1>7 DEF AsDouble, IsExact
<1>9. i \notin Digits
  BY DEF Digits
<1> HIDE DEF i
<1>10. W # <<i>>
  <2> SUFFICES ASSUME W = <<i>>
               PROVE  FALSE
    OBVIOUS
  <2>1. W[1] = i /\ Len(W) = 1
    OBVIOUS
  <2>2. W[1] \in Digits
    BY <1>1, <2>1, ElementOfSeq
  <2> QED BY <1>9, <2>1, <2>2
<1>11. Infinity.whole = <<i>>
  BY DEF Infinity, i
<1>12. Value(w, p) # Infinity
  <2>1. Value(w, p).whole = W
    BY <1>3
  <2> QED BY <1>10, <1>11, <2>1
<1> QED BY <1>8, <1>12

LEMMA ExactIsRead ==
    ASSUME NEW s, NEW v \in Denoted(s), AsDouble(v) = v, v # Infinity
    PROVE  v \in NumericInterpretations(s)
BY DEF NumericInterpretations

\* Two digits are enough up to ninety-nine.
LEMMA TwoDigits ==
    ASSUME NEW n \in 0..99
    PROVE  Len(Padded(n, 2)) = 2
<1> DEFINE two == 2
           k == Len(Written(n))
           z == IF k < two THEN two - k ELSE 0
<1>1. n \in Nat /\ two \in Nat /\ two = 2
  OBVIOUS
<1> HIDE DEF two
<1>2. Len(Padded(n, two)) = z + k
  BY <1>1, PaddedIs
<1>3. k = IF n < 10 THEN 1 ELSE 2
  <2>1. CASE n < 10
    BY <1>1, <2>1, WrittenLength
  <2>2. CASE ~ (n < 10)
    <3> DEFINE t == n \div 10
               c == NumberChars[(n % 10) + 1]
               w == Written(t)
    <3>1. t \in Nat /\ t < 10 /\ n % 10 \in 0..9
      BY <1>1
    <3>2. n >= 10
      BY <1>1, <2>2
    <3>3. Written(n) = Append(w, c)
      BY <1>1, <3>2, WrittenIs
    <3>4. c \in PlainChars
      BY <3>1, CharOfDigit
    <3> HIDE DEF t, c
    <3>5. w \in Seq(PlainChars) /\ Len(w) = 1
      BY <3>1, WrittenIs, WrittenLength DEF PlainText
    <3> HIDE DEF w
    <3>6. Len(Append(w, c)) = Len(w) + 1
      BY <3>4, <3>5, AppendProperties
    <3> QED BY <2>2, <3>3, <3>5, <3>6
  <2> QED BY <2>1, <2>2
<1> HIDE DEF k
<1>4. z + k = 2
  BY <1>1, <1>3
<1> HIDE DEF z
<1>5. Len(Padded(n, two)) = 2
  BY <1>2, <1>4
<1> QED BY <1>5 DEF two

LEMMA NumberIsExact ==
    ASSUME NEW v \in Nat, v \div 100 \in 0..MaxInteger
    PROVE  AsDouble(NumberOf(v)) = NumberOf(v) /\ NumberOf(v) # Infinity
<1> DEFINE h == v \div 100
           r == v % 100
           w == Written(h)
           p == Padded(r, 2)
<1>1. h \in Nat /\ r \in 0..99 /\ r \in Nat
  OBVIOUS
<1>2. Len(w) + 2 <= ExactDigits
  BY IntegersAreExact
<1> HIDE DEF h, r
<1>3. w \in Seq(Digits) /\ p \in Seq(Digits) /\ Len(p) = 2
  BY <1>1, WrittenIsDigits, PaddedTwo, TwoDigits
<1>4. NumberOf(v) = Value(w, p)
  BY DEF NumberOf, h, r
<1> HIDE DEF w, p
<1> QED BY <1>2, <1>3, <1>4, ShortIsExact

\* The parts of a date are short.
LEMMA DatePartsAreShort ==
    ASSUME NEW t, Dated(t)
    PROVE  \A s \in DateTexts(t) : Len(s) <= ExactDigits
<1> DEFINE day == DayOf(LocalMinute(t))
           y == 2000 + day \div 360
           m == MonthOf(LocalMinute(t))
           d == (day % 30) + 1
<1>1. day \in Int /\ y \in 0..MaxInteger
  BY DEF Dated, DayOf, MinutesPerDay
<1>2. m \in 0..99
  <2>1. m = ((day \div 30) % 12) + 1
    BY DEF MonthOf
  <2> HIDE DEF day
  <2>2. day \div 30 \in Int
    BY <1>1
  <2> QED BY <2>1, <2>2
<1> HIDE DEF m
<1>3. d \in 0..99
  <2> HIDE DEF day
  <2> QED BY <1>1
<1> HIDE DEF d, y
<1>4. y \in Nat /\ ExactDigits \in Nat /\ 0 \in 0..MaxInteger
  BY <1>1, MaxIntegerIs, ExactDigitsAssumption
<1>5. Len(Written(y)) + 2 <= ExactDigits /\ Len(Written(y)) \in Nat
  BY <1>1, <1>4, IntegersAreExact, WrittenLength
<1>6. Len(YearText(t)) <= ExactDigits /\ 2 <= ExactDigits
  <2>1. YearText(t) = Written(y)
    BY DEF YearText, y
  <2> QED BY <1>4, <1>5, <2>1
<1>7. Len(MonthText(t)) <= ExactDigits
  <2>1. Len(Padded(m, 2)) = 2
    BY <1>2, TwoDigits
  <2> QED BY <1>6, <2>1 DEF MonthText, m
<1>8. Len(DayText(t)) <= ExactDigits
  <2>1. Len(Padded(d, 2)) = 2
    BY <1>3, TwoDigits
  <2> QED BY <1>6, <2>1 DEF DayText, d
<1> QED BY <1>6, <1>7, <1>8 DEF DateTexts

-----------------------------------------------------------------------------
\* What the record holds: its numbers, and the date of its last offer.
LEMMA NumberIsHeld ==
    ASSUME NEW m, NEW f \in {"rating", "reviewCount", "yearsInBusiness", "seatsOrCapacity"},
           m[f] # None
    PROVE  AsDouble(NumberOf(m[f])) \in GroundedNumbers(AsFields(m))
<1> DEFINE fields == AsFields(m)
<1>1. f \in MERCHANT_FIELDS /\ f \in IntegerColumns \cup {"rating"}
  BY DEF MERCHANT_FIELDS, IntegerColumns
<1>2. AsField(m, f) = [kind |-> "number", value |-> AsDouble(NumberOf(m[f]))]
  <2> DEFINE v == m[f]
  <2>1. /\ v # None
        /\ f # "lastOfferEndedAt" /\ f # "contactEmail" /\ f # "websiteUrl"
        /\ f \notin {"id", "name", "city"}
    OBVIOUS
  <2> QED BY <1>1, <2>1 DEF AsField, NumberOf
<1>3. DOMAIN fields = MERCHANT_FIELDS /\ fields[f] = AsField(m, f)
  BY <1>1 DEF AsFields
<1> HIDE DEF fields
<1>4. fields[f].kind = "number" /\ fields[f].value = AsDouble(NumberOf(m[f])) /\ f \in DOMAIN fields
  BY <1>1, <1>2, <1>3
<1>5. AsDouble(NumberOf(m[f])) \in GroundedNumbers(fields)
  BY <1>4 DEF GroundedNumbers
<1> QED BY <1>5 DEF fields

\* The numbers in the date of its last offer are those of the record.
LEMMA DateIsHeld ==
    ASSUME NEW m, m.lastOfferEndedAt # None
    PROVE  ReadIn(IsoTimestamp(m.lastOfferEndedAt)) \subseteq GroundedNumbers(AsFields(m))
<1> DEFINE fields == AsFields(m)
           f == "lastOfferEndedAt"
           text == IsoTimestamp(m.lastOfferEndedAt)
<1>1. f \in MERCHANT_FIELDS /\ f \notin IntegerColumns \cup {"rating"}
  BY DEF MERCHANT_FIELDS, IntegerColumns
<1>2. AsField(m, f) = [kind |-> "string", value |-> text]
  BY <1>1 DEF AsField
<1>3. DOMAIN fields = MERCHANT_FIELDS /\ fields[f] = AsField(m, f)
  BY <1>1 DEF AsFields
<1> HIDE DEF fields, f, text
<1>4. fields[f].kind = "string" /\ fields[f].value = text /\ f \in DOMAIN fields
  BY <1>1, <1>2, <1>3
<1>5. ReadIn(text) \subseteq GroundedNumbers(fields)
  BY <1>4 DEF GroundedNumbers
<1> QED BY <1>5 DEF fields, text

\* A text is read token by token.
LEMMA ReadTokens ==
    ASSUME NEW text, NEW s \in TokenTexts(text)
    PROVE  NumericInterpretations(s) \subseteq ReadIn(text)
BY DEF TokenTexts, TextsOf, ReadIn

\* A merchant whose numbers and date are written as gates read them.
NumberFields == {"rating", "reviewCount", "yearsInBusiness", "seatsOrCapacity"}
IsLegible(m) ==
    /\ \A f \in NumberFields : m[f] # None =>
           m[f] \in Nat /\ m[f] % 10 = 0 /\ m[f] \div 100 \in 0..MaxInteger
    /\ m.lastOfferEndedAt # None => Dated(m.lastOfferEndedAt)

IsGroundedIn(text, m) ==
    \A s \in TokenTexts(text) : s = RatingScale \/ IsGrounded(s, GroundedNumbers(AsFields(m)))

\* A number that the record holds is quoted, and is not invented.
LEMMA NumberIsQuoted ==
    ASSUME NEW m, IsLegible(m), NEW f \in NumberFields, m[f] # None
    PROVE  /\ IsFigure(Shown(m[f]))
           /\ IsGrounded(Shown(m[f]), GroundedNumbers(AsFields(m)))
           /\ \A text : Shown(m[f]) \in TokenTexts(text) => Shows(text, m[f])
<1> DEFINE v == m[f]
<1>1. v \in Nat /\ v % 10 = 0 /\ v \div 100 \in 0..MaxInteger
  BY DEF IsLegible
<1>2. AsDouble(NumberOf(v)) \in GroundedNumbers(AsFields(m))
  BY NumberIsHeld DEF NumberFields
<1> HIDE DEF v
<1>3. /\ IsFigure(Shown(v))
      /\ AsDouble(NumberOf(v)) \in NumericInterpretations(Shown(v))
  <2>1. IsFigure(Shown(v)) /\ NumberOf(v) \in Denoted(Shown(v))
    BY <1>1, ShownIsRead
  <2>2. AsDouble(NumberOf(v)) = NumberOf(v) /\ NumberOf(v) # Infinity
    BY <1>1, NumberIsExact
  <2> QED BY <2>1, <2>2, ExactIsRead
<1>4. IsGrounded(Shown(v), GroundedNumbers(AsFields(m)))
  BY <1>2, <1>3 DEF IsGrounded
<1>5. ASSUME NEW text, Shown(v) \in TokenTexts(text)
      PROVE  Shows(text, v)
  BY <1>3, <1>5, ReadTokens DEF Shows, NumberOf
<1> QED BY <1>3, <1>4, <1>5 DEF v

\* A date that the record holds is not invented.
LEMMA DateIsGrounded ==
    ASSUME NEW m, IsLegible(m), m.lastOfferEndedAt # None,
           NEW s \in DateTexts(m.lastOfferEndedAt)
    PROVE  IsGrounded(s, GroundedNumbers(AsFields(m)))
<1> DEFINE t == m.lastOfferEndedAt
<1>1. Dated(t)
  BY DEF IsLegible
<1>2. ReadIn(IsoTimestamp(t)) \subseteq GroundedNumbers(AsFields(m))
  BY DateIsHeld
<1>3. s \in DateTexts(t)
  OBVIOUS
<1> HIDE DEF t
<1>4. s \in Seq(Digits) /\ IsDigits(s)
  BY <1>1, <1>3, DatePartsAreDigits
<1>5. Value(s, <<>>) \in NumericInterpretations(s)
  <2> DEFINE e == <<>>
  <2>1. e \in Seq(Digits) /\ Len(e) = 0 /\ Len(s) \in Nat
    BY <1>4, LenProperties
  <2>2. Value(s, e) \in Denoted(s)
    BY <1>4, DigitsAreFigure
  <2> HIDE DEF e
  <2>3. Len(s) + Len(e) <= ExactDigits
    BY <1>1, <1>3, <2>1, DatePartsAreShort
  <2>4. AsDouble(Value(s, e)) = Value(s, e) /\ Value(s, e) # Infinity
    BY <1>4, <2>1, <2>3, ShortIsExact
  <2>5. Value(s, e) \in NumericInterpretations(s)
    BY <2>2, <2>4, ExactIsRead
  <2> QED BY <2>5 DEF e
<1>6. s \in TokenTexts(IsoTimestamp(t))
  BY <1>1, <1>3, TokensOfTimestamp
<1>7. NumericInterpretations(s) \subseteq ReadIn(IsoTimestamp(t))
  BY <1>6, ReadTokens
<1> QED BY <1>2, <1>5, <1>7 DEF IsGrounded

\* What ends in words is not empty.
LEMMA NotEmpty ==
    ASSUME NEW u \in Seq(Chars)
    PROVE  u \o Words \in Seq(Chars) /\ u \o Words # <<>> /\ Words # <<>>
<1> DEFINE w == Words
<1>1. w \in Seq(Chars) /\ Len(w) = 3
  BY WordsAre DEF Words
<1> HIDE DEF w
<1>2. u \o w \in Seq(Chars) /\ Len(u \o w) = Len(u) + Len(w)
  <2>1. w \in Seq(Chars)
    BY <1>1
  <2> QED BY <2>1, ConcatProperties
<1>3. Len(u) \in Nat
  BY LenProperties
<1>4. Len(u \o w) # 0 /\ Len(w) # 0
  BY <1>1, <1>2, <1>3
<1>5. u \o w # <<>> /\ w # <<>>
  BY <1>4
<1> QED BY <1>2, <1>5 DEF w

\* The texts with one number, and with three.
LEMMA TokensOfOne ==
    ASSUME NEW s, IsFigure(s)
    PROVE  (Words \o s) \o Words # <<>> /\ TokenTexts((Words \o s) \o Words) = {s}
<1> DEFINE ws == Words \o s
<1>1. ws \in Seq(Chars) /\ TokenTexts(ws \o Words) = {s}
  BY TokensOfFramed
<1> HIDE DEF ws
<1> QED BY <1>1, NotEmpty DEF ws

\* The scale of ratings is a number.
LEMMA ScaleIsFigure == IsFigure(RatingScale)
<1> DEFINE d == "5"
           s == <<d>>
<1>1. d \in Digits
  BY DEF Digits
<1> HIDE DEF d
<1>2. s \in Seq(Digits) /\ IsDigits(s)
  BY <1>1 DEF IsDigits
<1> HIDE DEF s
<1>3. IsFigure(s)
  BY <1>2, DigitsAreFigure
<1> QED BY <1>3 DEF s, d, RatingScale

\* The text with a rating, its scale and a number of reviews.
LEMMA TokensOfThree ==
    ASSUME NEW r, IsFigure(r), NEW n, IsFigure(n)
    PROVE  LET text == (((((Words \o r) \o Words) \o RatingScale) \o Words) \o n) \o Words
           IN  text # <<>> /\ TokenTexts(text) = {r, RatingScale, n}
<1> DEFINE x == RatingScale
           a == Words \o r
           b == (a \o Words) \o x
           c == (b \o Words) \o n
           sp == <<Space>>
<1>1. a \in Seq(Chars) /\ TokenTexts(a \o sp) = {r}
  BY TokensOfFramed
<1>2. IsFigure(x)
  BY ScaleIsFigure
<1>3. x \in Seq(Chars) /\ n \in Seq(Chars) /\ Words \in Seq(Chars)
  BY <1>2, WordsAre DEF IsFigure
<1> HIDE DEF x, a
<1>4. b \in Seq(Chars)
  <2>1. a \o Words \in Seq(Chars)
    BY <1>1, <1>3, ConcatProperties
  <2> QED BY <1>3, <2>1, ConcatProperties
<1>5. TokenTexts(b \o sp) = {r, x}
  <2>1. TokenTexts(b \o sp) = TokenTexts(a \o sp) \cup {x}
    BY <1>1, <1>2, TokensWithFigure
  <2> QED BY <1>1, <2>1
<1> HIDE DEF b
<1>6. c \in Seq(Chars)
  <2>1. b \o Words \in Seq(Chars)
    BY <1>3, <1>4, ConcatProperties
  <2> QED BY <1>3, <2>1, ConcatProperties
<1>7. TokenTexts(c \o sp) = {r, x, n}
  <2>1. TokenTexts(c \o sp) = TokenTexts(b \o sp) \cup {n}
    BY <1>4, TokensWithFigure
  <2> QED BY <1>5, <2>1
<1> HIDE DEF c
<1>8. TokenTexts(c \o Words) = {r, x, n} /\ c \o Words # <<>>
  <2>1. TokenTexts(c \o Words) = TokenTexts(c \o sp)
    BY <1>6, TokensBeforeWords
  <2> QED BY <1>6, <1>7, <2>1, NotEmpty
<1> QED BY <1>8 DEF c, b, a, x

\* Every signal of a legible merchant can be read, quotes its field, and has no
\* number that is not in the record.
LEMMA SignalsAreGrounded ==
    ASSUME NEW m, IsLegible(m), NEW s, IsSignalOf(s, m)
    PROVE  IsReadable(s) /\ QuotesItsField(s, m) /\ IsGroundedIn(s.value, m)
<1>1. CASE s \in {GapSignal, PeakSignal} \/ (m.yearsInBusiness = 0 /\ m.yearsInBusiness # None /\ s = FreshSignal)
  <2>1. s.value = Words
    BY <1>1 DEF GapSignal, PeakSignal, FreshSignal, Signal
  <2>2. /\ s.sourceField \in {"hasActiveOffer", "category", "yearsInBusiness"}
        /\ s.key \in SIGNAL_KEYS
        /\ s.sourceField = "yearsInBusiness" =>
               m.yearsInBusiness = 0 /\ m.yearsInBusiness # None
    BY <1>1 DEF GapSignal, PeakSignal, FreshSignal, Signal, SIGNAL_KEYS
  <2>3. TokenTexts(Words) = {}
    BY ScaleIsFigure, TokensOfFramed
  <2>4. Words # <<>>
    BY WordsAre, NotEmpty
  <2>5. IsReadable(s)
    BY <2>1, <2>2, <2>4 DEF IsReadable, MERCHANT_FIELDS
  <2>6. QuotesItsField(s, m)
    BY <2>2 DEF QuotesItsField
  <2>7. IsGroundedIn(s.value, m)
    BY <2>1, <2>3 DEF IsGroundedIn
  <2> QED BY <2>5, <2>6, <2>7
<1>2. CASE m.lastOfferEndedAt # None /\ s = EndedSignal(m.lastOfferEndedAt)
  <2> DEFINE t == m.lastOfferEndedAt
             text == (Words \o IsoDatePart(t)) \o Words
  <2>1. s.key = "deal_gap" /\ s.value = text /\ s.sourceField = "lastOfferEndedAt"
    BY <1>2 DEF EndedSignal, Signal
  <2>2. Dated(t)
    BY <1>2 DEF IsLegible
  <2>3. \A x \in DateTexts(t) : IsGrounded(x, GroundedNumbers(AsFields(m)))
    BY <1>2, DateIsGrounded
  <2>4. text # <<>> /\ TokenTexts(text) = DateTexts(t)
    <3> HIDE DEF t
    <3>1. IsoDatePart(t) \in Seq(Chars) /\ TokenTexts(text) = DateTexts(t)
      BY <2>2, TokensOfDate
    <3>2. Words \o IsoDatePart(t) \in Seq(Chars)
      BY <3>1, WordsAre, ConcatProperties
    <3> QED BY <3>1, <3>2, NotEmpty
  <2>5. IsReadable(s)
    BY <2>1, <2>4 DEF IsReadable, MERCHANT_FIELDS, SIGNAL_KEYS
  <2>6. QuotesItsField(s, m)
    BY <1>2, <2>1 DEF QuotesItsField
  <2>7. IsGroundedIn(s.value, m)
    BY <2>1, <2>3, <2>4 DEF IsGroundedIn
  <2> QED BY <2>5, <2>6, <2>7
<1>3. CASE m.rating # None /\ m.reviewCount # None /\ s = RatingSignal(m.rating, m.reviewCount)
  <2> DEFINE r == Shown(m.rating)
             n == Shown(m.reviewCount)
             text == (((((Words \o r) \o Words) \o RatingScale) \o Words) \o n) \o Words
  <2>1. s.key = "high_rating_low_volume" /\ s.value = text /\ s.sourceField = "rating"
    BY <1>3 DEF RatingSignal, Signal
  <2>2. /\ IsFigure(r) /\ IsGrounded(r, GroundedNumbers(AsFields(m)))
        /\ \A x : r \in TokenTexts(x) => Shows(x, m.rating)
    BY <1>3, NumberIsQuoted DEF NumberFields
  <2>3. IsFigure(n) /\ IsGrounded(n, GroundedNumbers(AsFields(m)))
    BY <1>3, NumberIsQuoted DEF NumberFields
  <2>4. text # <<>> /\ TokenTexts(text) = {r, RatingScale, n}
    <3> HIDE DEF r, n
    <3> QED BY <2>2, <2>3, TokensOfThree
  <2> HIDE DEF r, n, text
  <2>5. IsReadable(s)
    BY <2>1, <2>4 DEF IsReadable, MERCHANT_FIELDS, SIGNAL_KEYS
  <2>6. QuotesItsField(s, m)
    BY <1>3, <2>1, <2>2, <2>4 DEF QuotesItsField
  <2>7. IsGroundedIn(s.value, m)
    BY <2>1, <2>2, <2>3, <2>4 DEF IsGroundedIn
  <2> QED BY <2>5, <2>6, <2>7
<1>4. CASE m.seatsOrCapacity # None /\ s = SeatsSignal(m.seatsOrCapacity)
  <2> DEFINE r == Shown(m.seatsOrCapacity)
             text == (Words \o r) \o Words
  <2>1. s.key = "capacity_headroom" /\ s.value = text /\ s.sourceField = "seatsOrCapacity"
    BY <1>4 DEF SeatsSignal, Signal
  <2>2. /\ IsFigure(r) /\ IsGrounded(r, GroundedNumbers(AsFields(m)))
        /\ \A x : r \in TokenTexts(x) => Shows(x, m.seatsOrCapacity)
    BY <1>4, NumberIsQuoted DEF NumberFields
  <2>3. text # <<>> /\ TokenTexts(text) = {r}
    <3> HIDE DEF r
    <3> QED BY <2>2, TokensOfOne
  <2> HIDE DEF r, text
  <2>4. IsReadable(s)
    BY <2>1, <2>3 DEF IsReadable, MERCHANT_FIELDS, SIGNAL_KEYS
  <2>5. QuotesItsField(s, m)
    BY <1>4, <2>1, <2>2, <2>3 DEF QuotesItsField
  <2>6. IsGroundedIn(s.value, m)
    BY <2>1, <2>2, <2>3 DEF IsGroundedIn
  <2> QED BY <2>4, <2>5, <2>6
<1>5. CASE m.yearsInBusiness # None /\ s = YearsSignal(m.yearsInBusiness)
  <2> DEFINE r == Shown(m.yearsInBusiness)
             text == (Words \o r) \o Words
  <2>1. s.key = "new_to_market" /\ s.value = text /\ s.sourceField = "yearsInBusiness"
    BY <1>5 DEF YearsSignal, Signal
  <2>2. /\ IsFigure(r) /\ IsGrounded(r, GroundedNumbers(AsFields(m)))
        /\ \A x : r \in TokenTexts(x) => Shows(x, m.yearsInBusiness)
    BY <1>5, NumberIsQuoted DEF NumberFields
  <2>3. text # <<>> /\ TokenTexts(text) = {r}
    <3> HIDE DEF r
    <3> QED BY <2>2, TokensOfOne
  <2> HIDE DEF r, text
  <2>4. IsReadable(s)
    BY <2>1, <2>3 DEF IsReadable, MERCHANT_FIELDS, SIGNAL_KEYS
  <2>5. QuotesItsField(s, m)
    BY <1>5, <2>1, <2>2, <2>3 DEF QuotesItsField
  <2>6. IsGroundedIn(s.value, m)
    BY <2>1, <2>2, <2>3 DEF IsGroundedIn
  <2> QED BY <2>4, <2>5, <2>6
<1> QED BY <1>1, <1>2, <1>3, <1>4, <1>5 DEF IsSignalOf

-----------------------------------------------------------------------------
(* The rows of generated merchants. *)

\* The columns change nothing of a merchant whose rating has one decimal and whose
\* last offer ended at a moment given in UTC.
IsMoment(t) == t.zone = 0 /\ t.stored = t.minute /\ Dated(t)
IsRounded(m) ==
    /\ m.rating # None => m.rating % 10 = 0
    /\ m.lastOfferEndedAt # None => IsMoment(m.lastOfferEndedAt)

\* The rows are merchants of the batch, with signals of a moment.
RowsAreOfBatch ==
    origin = "generator" =>
        /\ \A i \in DOMAIN batch : IsRounded(batch[i])
        /\ pc \in Generating => DOMAIN rows = {}
        /\ \A id \in DOMAIN rows : \E i \in DOMAIN batch, now \in Nows :
               rows[id] = Stored(batch[i], now)

RInv == GInv /\ RowsAreOfBatch

\* What is in tenths stays as it is.
LEMMA RoundedOnce ==
    ASSUME NEW n \in Nat
    PROVE  n % 10 = 0 => ToTenths(n) = n
<1> DEFINE q == n \div 10
<1>1. q \in Nat /\ n = 10 * q + (n % 10)
  OBVIOUS
<1> HIDE DEF q
<1>2. n % 10 = 0 => n = 10 * q
  <2>1. n % 10 = 0 => n = 10 * q + 0
    BY <1>1
  <2> QED BY <1>1, <2>1
<1>3. n = 10 * q => (n + 5) \div 10 = q
  BY <1>1
<1> QED BY <1>2, <1>3 DEF ToTenths

\* What is rounded is in tenths.
LEMMA TenthsAreRounded ==
    ASSUME NEW n \in Int
    PROVE  ToTenths(n) % 10 = 0
<1> DEFINE q == (n + 5) \div 10
<1>1. q \in Int
  OBVIOUS
<1> HIDE DEF q
<1>2. (10 * q) % 10 = 0
  BY <1>1
<1> QED BY <1>2 DEF ToTenths, q

\* A count has no decimals.
LEMMA CountIsWhole ==
    ASSUME NEW n \in Int, n >= 0, IsWhole(n)
    PROVE  n \in Nat /\ n % 10 = 0
<1> DEFINE q == n \div 100
<1>1. q \in Int /\ n = 100 * q
  BY DEF IsWhole
<1> HIDE DEF q
<1>2. (100 * q) % 10 = 0
  BY <1>1
<1> QED BY <1>1, <1>2

\* Such a merchant is read back as it was posted, and is legible.
LEMMA RoundedIsLegible ==
    ASSUME NEW m, Sound(m), IsRounded(m)
    PROVE  IsLegible(m) /\ ReadBack(m) = m
<1>1. m \in Merchant /\ IsValid(m)
  BY DEF Sound
<1>2. m.rating # None => /\ m.rating \in Nat /\ m.rating % 10 = 0
                         /\ m.rating \div 100 \in 0..MaxInteger
  <2>1. m.rating # None => m.rating \in 0..500
    BY <1>1 DEF IsValid, NoneOr, InRange
  <2>2. \A n \in 0..500 : n \in Nat /\ n \div 100 \in 0..MaxInteger
    <3>1. \A n \in 0..500 : n \in Nat /\ n \div 100 \in 0..5
      OBVIOUS
    <3> QED BY <3>1, MaxIntegerIs
  <2> QED BY <2>1, <2>2 DEF IsRounded
<1>3. m.reviewCount # None => m.reviewCount \in Nat /\ m.reviewCount % 10 = 0
  <2>1. m.reviewCount # None =>
            m.reviewCount \in Int /\ m.reviewCount >= 0 /\ IsWhole(m.reviewCount)
    BY <1>1 DEF IsValid, NoneOr, IsCount, Merchant, Amount
  <2> QED BY <2>1, CountIsWhole
<1>4. m.yearsInBusiness # None => m.yearsInBusiness \in Nat /\ m.yearsInBusiness % 10 = 0
  <2>1. m.yearsInBusiness # None =>
            m.yearsInBusiness \in Int /\ m.yearsInBusiness >= 0 /\ IsWhole(m.yearsInBusiness)
    BY <1>1 DEF IsValid, NoneOr, IsCount, Merchant, Amount
  <2> QED BY <2>1, CountIsWhole
<1>5. m.seatsOrCapacity # None => m.seatsOrCapacity \in Nat /\ m.seatsOrCapacity % 10 = 0
  <2>1. m.seatsOrCapacity # None =>
            m.seatsOrCapacity \in Int /\ m.seatsOrCapacity > 0 /\ IsWhole(m.seatsOrCapacity)
    BY <1>1 DEF IsValid, NoneOr, IsCapacity, Merchant, Amount
  <2>2. m.seatsOrCapacity # None => m.seatsOrCapacity >= 0
    BY <2>1
  <2> QED BY <2>1, <2>2, CountIsWhole
<1>6. IsLegible(m)
  <2>1. /\ m.reviewCount # None => m.reviewCount \div 100 \in 0..MaxInteger
        /\ m.yearsInBusiness # None => m.yearsInBusiness \div 100 \in 0..MaxInteger
        /\ m.seatsOrCapacity # None => m.seatsOrCapacity \div 100 \in 0..MaxInteger
    BY FitsColumnsIs DEF Sound, Columns, FitsInteger
  <2> QED BY <1>2, <1>3, <1>4, <1>5, <2>1 DEF IsLegible, NumberFields, IsRounded, IsMoment
<1>7. (IF m.rating = None THEN None ELSE ToTenths(m.rating)) = m.rating
  BY <1>2, RoundedOnce
<1>8. (IF m.lastOfferEndedAt = None THEN None
       ELSE Instant(m.lastOfferEndedAt.stored)) = m.lastOfferEndedAt
  <2> DEFINE t == m.lastOfferEndedAt
  <2>1. t # None => t \in Timestamp /\ t.zone = 0 /\ t.stored = t.minute
    BY <1>1 DEF Merchant, IsRounded, IsMoment
  <2> HIDE DEF t
  <2>2. t # None => Instant(t.stored) = t
    BY <2>1 DEF Timestamp, Instant
  <2> QED BY <2>2 DEF t
<1>9. ReadBack(m) = m
  <2> DEFINE rating == IF m.rating = None THEN None ELSE ToTenths(m.rating)
             ended == IF m.lastOfferEndedAt = None THEN None
                      ELSE Instant(m.lastOfferEndedAt.stored)
  <2>1. ReadBack(m) = [m EXCEPT !.rating = rating, !.lastOfferEndedAt = ended]
    BY <1>1 DEF ReadBack, Merchant
  <2>2. rating = m.rating /\ ended = m.lastOfferEndedAt
    BY <1>7, <1>8
  <2> HIDE DEF rating, ended
  <2>3. [m EXCEPT !.rating = rating, !.lastOfferEndedAt = ended] = m
    BY <1>1, <2>2 DEF Merchant
  <2> QED BY <2>1, <2>3
<1> QED BY <1>6, <1>9

\* A midnight not long before the reference date.
LEMMA MidnightIsDated ==
    ASSUME NEW ago \in DaysDrawn
    PROVE  LET ended == Midnight(ReferenceDate - ago * MinutesPerDay)
           IN  IsMoment(ended)
<1> DEFINE minute == ReferenceDate - ago * 1440
           day == minute \div 1440
           start == minute - (minute % 1440)
           ended == Midnight(ReferenceDate - ago * MinutesPerDay)
<1>1. ReferenceDate \in Nat /\ ReferenceDate <= 2000 * 360 * 1440
  <2> DEFINE limit == 2000 * 360 * MinutesPerDay
  <2>1. ReferenceDate \in 0..limit
    BY GeneratorAssumption
  <2>2. limit \in Int
    BY DEF MinutesPerDay
  <2>3. limit = 2000 * 360 * 1440
    BY DEF MinutesPerDay
  <2> HIDE DEF limit
  <2>4. ReferenceDate \in Nat /\ ReferenceDate <= limit
    BY <2>1, <2>2
  <2> QED BY <2>3, <2>4
<1>2. MinutesPerDay = 1440
  BY DEF MinutesPerDay
<1>3. minute \in Int /\ minute >= 0 - 900 * 1440 /\ minute <= 2000 * 360 * 1440
  BY <1>1 DEF DaysDrawn
<1>4. ended = [minute |-> start, zone |-> 0, stored |-> start]
  BY <1>2 DEF Midnight, Instant
<1> HIDE DEF minute
<1>5. day \in Int /\ start = 1440 * day /\ day >= 0 - 900 /\ day <= 2000 * 360
  BY <1>3
<1> HIDE DEF day, start, ended
<1>6. LocalMinute(ended) = start
  <2>1. ended.minute = start /\ ended.zone = 0 /\ start \in Int
    BY <1>4, <1>5
  <2> QED BY <2>1 DEF LocalMinute
<1>7. DayOf(start) = day
  <2>1. (1440 * day) \div 1440 = day
    BY <1>5
  <2> QED BY <1>2, <1>5, <2>1 DEF DayOf
<1>8. 2000 + day \div 360 \in 0..MaxInteger
  <2> DEFINE year == 2000 + day \div 360
  <2>1. year \in 0..4000
    BY <1>5
  <2> HIDE DEF year
  <2>2. year \in 0..MaxInteger
    BY <2>1, MaxIntegerIs
  <2> QED BY <2>2 DEF year
<1>9. start \in Int
  BY <1>5
<1>10. ended.zone = 0 /\ ended.stored = ended.minute
  BY <1>4
<1>11. Dated(ended)
  BY <1>6, <1>7, <1>8, <1>9 DEF Dated
<1> QED BY <1>10, <1>11 DEF ended, IsMoment

\* A merchant is generated rounded.
LEMMA BuiltIsRounded ==
    ASSUME NEW number, NEW draw, IsDraw(draw), NEW used
    PROVE  IsRounded(BuildMerchant(number, draw, used))
<1> DEFINE m == BuildMerchant(number, draw, used)
           rating == BuiltRating(draw.raw)
           ended == IF draw.active \/ draw.endedDaysAgo = None THEN None
                    ELSE Midnight(ReferenceDate - draw.endedDaysAgo * MinutesPerDay)
<1>1. m.rating = rating /\ m.lastOfferEndedAt = ended
  BY DEF BuildMerchant
<1>2. rating # None => rating % 10 = 0
  <2>1. draw.raw # None => draw.raw \in RawsDrawn
    BY DrawIs DEF IsDrawn
  <2>2. draw.raw # None => draw.raw \in Int
    BY <2>1 DEF RawsDrawn
  <2> QED BY <2>2, TenthsAreRounded DEF BuiltRating
<1>3. ended # None => IsMoment(ended)
  <2>1. draw.endedDaysAgo # None => draw.endedDaysAgo \in DaysDrawn
    BY DrawIs DEF IsDrawn
  <2> QED BY <2>1, MidnightIsDated
<1> QED BY <1>1, <1>2, <1>3 DEF IsRounded

\* Forcing keeps it so.
LEMMA ForcedIsRounded ==
    ASSUME NEW m \in Merchant, IsRounded(m), NEW used,
           NEW k \in DOMAIN EDGE_CASES, NEW f \in Forced(EDGE_CASES[k], m, used)
    PROVE  IsRounded(f)
<1>1. /\ k \in 1..5
      /\ EDGE_CASES[1] = "no_website_no_rating" /\ EDGE_CASES[2] = "high_rating_few_reviews"
      /\ EDGE_CASES[3] = "non_default_locale" /\ EDGE_CASES[4] = "active_offer"
      /\ EDGE_CASES[5] = "diacritics_and_apostrophe"
  BY DEF EDGE_CASES
<1>2. CASE k = 1
  <2>1. f \in Forced("no_website_no_rating", m, used)
    BY <1>1, <1>2
  <2>2. f.rating = None /\ f.lastOfferEndedAt = m.lastOfferEndedAt
    BY <2>1, ForcedFirst
  <2> QED BY <2>2 DEF IsRounded
<1>3. CASE k = 2
  <2>1. f \in Forced("high_rating_few_reviews", m, used)
    BY <1>1, <1>3
  <2>2. f.rating = 490 /\ f.lastOfferEndedAt = m.lastOfferEndedAt
    BY <2>1, ForcedSecond
  <2>3. 490 % 10 = 0
    OBVIOUS
  <2> QED BY <2>2, <2>3 DEF IsRounded
<1>4. CASE k = 3
  <2>1. f \in Forced("non_default_locale", m, used)
    BY <1>1, <1>4
  <2>2. f.rating = m.rating /\ f.lastOfferEndedAt = m.lastOfferEndedAt
    BY <2>1, ForcedThird
  <2> QED BY <2>2 DEF IsRounded
<1>5. CASE k = 4
  <2>1. f = [m EXCEPT !.hasActiveOffer = TRUE, !.lastOfferEndedAt = None]
    BY <1>1, <1>5 DEF Forced
  <2>2. f.rating = m.rating /\ f.lastOfferEndedAt = None
    BY <2>1 DEF Merchant
  <2> QED BY <2>2 DEF IsRounded
<1>6. CASE k = 5
  <2>1. PICK owner \in AccentedOwnerNames, noun \in Nouns[m.category] :
            f = Renamed(m, OwnedBy(owner, noun), used)
    BY <1>1, <1>6 DEF Forced
  <2>2. f.rating = m.rating /\ f.lastOfferEndedAt = m.lastOfferEndedAt
    BY <2>1 DEF Renamed, Merchant
  <2> QED BY <2>2 DEF IsRounded
<1> QED BY <1>1, <1>2, <1>3, <1>4, <1>5, <1>6

\* Nothing is stored yet while merchants are drawn or patched.
LEMMA SampleKeepsRows ==
    ASSUME RInv, NEW draw \in DOMAIN Draws, Sample(draw)
    PROVE  RowsAreOfBatch'
<1> DEFINE n == Len(batch) + 1
           m == BuildMerchant(n, Draws[draw], taken)
<1>1. TypeOK /\ RowsAreOfBatch
  BY DEF RInv, GInv
<1>2. /\ Len(batch) \in Nat /\ DOMAIN batch = 1..Len(batch) /\ batch \in Seq(Merchant)
      /\ n \in Nat \ {0} /\ taken \in SUBSET Text /\ IsFiniteSet(taken)
  BY <1>1, BatchIs DEF TypeOK
<1>3. pc = "sampling" /\ origin = "generator" /\ DOMAIN rows = {}
  BY <1>1 DEF TypeOK, Sample, Generating, RowsAreOfBatch
<1>4. Sound(m) /\ IsRounded(m)
  <2>1. IsDraw(Draws[draw])
    BY GeneratorAssumption
  <2>2. Indexable(Id(n))
    <3>1. Len(batch) < Count /\ Count \in Nat /\ \A i \in 1..Count : Indexable(Id(i))
      BY SeedingAssumption DEF Sample
    <3>2. n \in 1..Count
      BY <1>2, <3>1
    <3> HIDE DEF n
    <3> QED BY <3>1, <3>2
  <2> QED BY <1>2, <2>1, <2>2, BuiltIsSound, BuiltIsRounded
<1>5. batch' = Append(batch, m) /\ UNCHANGED rows
  BY DEF Sample, sending
<1> HIDE DEF m
<1>6. m \in Merchant
  BY <1>4, SoundFields
<1>7. /\ DOMAIN batch' = 1..n /\ batch'[n] = m
      /\ \A i \in DOMAIN batch : batch'[i] = batch[i]
  <2>1. /\ Append(batch, m) \in Seq(Merchant)
        /\ Len(Append(batch, m)) = Len(batch) + 1
        /\ \A i \in 1..Len(batch) : Append(batch, m)[i] = batch[i]
        /\ Append(batch, m)[Len(batch) + 1] = m
    BY <1>2, <1>6, AppendProperties
  <2> QED BY <1>2, <1>5, <2>1, LenProperties
<1>8. \A i \in DOMAIN batch' : i \in DOMAIN batch \/ i = n
  BY <1>2, <1>7
<1>9. \A i \in DOMAIN batch' : IsRounded(batch'[i])
  BY <1>1, <1>3, <1>4, <1>7, <1>8 DEF RowsAreOfBatch
<1> QED BY <1>3, <1>5, <1>9 DEF RowsAreOfBatch

\* A patched merchant is rounded, too.
LEMMA PatchKeepsRows ==
    ASSUME RInv, NEW i \in 1..Count, Patch(i)
    PROVE  RowsAreOfBatch'
<1>1. TypeOK /\ GeneratedIsSound /\ RowsAreOfBatch
  BY DEF RInv, GInv
<1>2. /\ pc = "patching" /\ origin = "generator" /\ case \in 1..5 /\ i \in DOMAIN batch
      /\ DOMAIN rows = {}
  BY <1>1 DEF TypeOK, Generating, Patch, RowsAreOfBatch
<1>3. PICK f \in Forced(Case, batch[i], taken) : batch' = [batch EXCEPT ![i] = f]
  BY DEF Patch
<1>4. UNCHANGED rows
  BY DEF Patch, sending
<1>5. batch[i] \in Merchant /\ IsRounded(batch[i])
  BY <1>1, <1>2, BatchIs DEF RowsAreOfBatch
<1>6. IsRounded(f)
  <2>1. case \in DOMAIN EDGE_CASES /\ f \in Forced(EDGE_CASES[case], batch[i], taken)
    BY <1>2, CasesAreFive DEF Case
  <2> DEFINE m == batch[i]
  <2>2. m \in Merchant /\ IsRounded(m) /\ f \in Forced(EDGE_CASES[case], m, taken)
    BY <1>5, <2>1
  <2> HIDE DEF m
  <2> QED BY <2>1, <2>2, ForcedIsRounded
<1>7. \A j \in DOMAIN batch' : IsRounded(batch'[j])
  BY <1>1, <1>2, <1>3, <1>6 DEF RowsAreOfBatch
<1> QED BY <1>2, <1>4, <1>7 DEF RowsAreOfBatch

\* What a request stores is of the batch.
LEMMA LandKeepsRows ==
    ASSUME RInv, NEW now \in Nows, Land(now)
    PROVE  RowsAreOfBatch'
<1> DEFINE chunk == Chunk(next)
           new == {chunk[i].id : i \in DOMAIN chunk}
           of(id) == CHOOSE i \in DOMAIN chunk : chunk[i].id = id
<1>1. TypeOK /\ RowsAreOfBatch
  BY DEF RInv, GInv
<1>2. /\ pc' \in {"seeded", "posting"} /\ UNCHANGED <<origin, batch>>
      /\ rows' = [id \in DOMAIN rows \cup new |->
                     IF id \in new THEN Stored(chunk[of(id)], now) ELSE rows[id]]
  BY DEF Land
<1> SUFFICES ASSUME origin = "generator"
             PROVE  RowsAreOfBatch'
  BY <1>2 DEF RowsAreOfBatch
<1>3. \A i \in DOMAIN chunk : next + i - 1 \in DOMAIN batch /\ chunk[i] = batch[next + i - 1]
  <2>1. batch \in Seq(Merchant) /\ size \in Nat \ {0} /\ next \in Nat \ {0}
    BY <1>1 DEF TypeOK
  <2> QED BY <2>1, ChunkIs
<1> HIDE DEF chunk
<1>4. ASSUME NEW id \in DOMAIN rows'
      PROVE  \E i \in DOMAIN batch, at \in Nows : rows'[id] = Stored(batch[i], at)
  <2>1. CASE id \in new
    <3>1. of(id) \in DOMAIN chunk
      BY <2>1
    <3>2. PICK j \in DOMAIN batch : chunk[of(id)] = batch[j]
      BY <1>3, <3>1
    <3>3. rows'[id] = Stored(batch[j], now)
      BY <1>2, <2>1, <3>2
    <3> QED BY <3>3
  <2>2. CASE id \notin new
    <3>1. id \in DOMAIN rows /\ rows'[id] = rows[id]
      BY <1>2, <1>4, <2>2
    <3> QED BY <1>1, <3>1 DEF RowsAreOfBatch
  <2> QED BY <2>1, <2>2
<1>5. \A i \in DOMAIN batch : IsRounded(batch[i])
  BY <1>1 DEF RowsAreOfBatch
<1>6. pc' \notin Generating
  BY <1>2 DEF Generating
<1> QED BY <1>2, <1>4, <1>5, <1>6 DEF RowsAreOfBatch

\* Every step keeps the rows what they are.
LEMMA StepKeepsRows == RInv /\ [Next]_vars => RInv'
<1> SUFFICES ASSUME RInv, [Next]_vars
             PROVE  RInv'
  OBVIOUS
<1>1. TypeOK /\ GInv /\ RowsAreOfBatch
  BY DEF RInv, GInv
<1>2. GInv'
  BY <1>1, StepKeeps
<1>3. ASSUME UNCHANGED <<origin, batch, rows>>, pc' \in Generating => pc \in Generating
      PROVE  RInv'
  BY <1>1, <1>2, <1>3 DEF RInv, RowsAreOfBatch
<1>4. CASE \E draw \in DOMAIN Draws : Sample(draw)
  BY <1>2, <1>4, SampleKeepsRows DEF RInv
<1>5. CASE CaseIsCovered \/ CaseIsPatched
  <2>1. pc \in Generating /\ UNCHANGED <<origin, batch, rows>>
    BY <1>5 DEF CaseIsCovered, CaseIsPatched, NextCase, Generating, sending
  <2> QED BY <1>3, <2>1
<1>6. CASE CannotGuarantee \/ BeginPatching
  <2>1. pc \in Generating /\ UNCHANGED <<origin, batch, rows>>
    BY <1>6 DEF CannotGuarantee, BeginPatching, Generating, sending
  <2> QED BY <1>3, <2>1
<1>7. CASE \E i \in 1..Count : Patch(i)
  BY <1>2, <1>7, PatchKeepsRows DEF RInv
<1>8. CASE \E now \in Nows : Land(now)
  BY <1>2, <1>8, LandKeepsRows DEF RInv
<1>9. CASE Fail
  <2>1. pc' \in {"refused", "failed"} /\ UNCHANGED <<origin, batch, rows>>
    BY <1>9 DEF Fail, Outcome, sending
  <2> QED BY <1>3, <2>1 DEF Generating
<1>10. CASE \E limit \in PageLimits, category \in PageCategories : BeginListing(limit, category)
  <2>1. UNCHANGED <<pc, origin, batch, rows>>
    BY <1>10 DEF BeginListing
  <2> QED BY <1>3, <2>1
<1>11. CASE ReadPage
  <2>1. UNCHANGED <<pc, origin, batch, rows>>
    BY <1>11 DEF ReadPage
  <2> QED BY <1>3, <2>1
<1>12. CASE UNCHANGED vars
  <2>1. UNCHANGED <<pc, origin, batch, rows>>
    BY <1>12 DEF vars, sending
  <2> QED BY <1>3, <2>1
<1> QED BY <1>4, <1>5, <1>6, <1>7, <1>8, <1>9, <1>10, <1>11, <1>12 DEF Next

\* The stored signals of a generated merchant can be read, quote the stored fields
\* and have no number that gate G06 would find invented, for any draws and moments.
THEOREM GeneratedSignalsAreAlwaysGrounded == Spec => []GeneratedSignalsAreGrounded
<1>1. Init => RInv
  <2> SUFFICES ASSUME Init
               PROVE  RowsAreOfBatch
    BY InitIsSound DEF RInv
  <2>1. rows = <<>> /\ (origin = "generator" => batch = <<>>)
    BY DEF Init
  <2>2. DOMAIN rows = {} /\ (origin = "generator" => DOMAIN batch = {})
    <3>1. DOMAIN <<>> = {}
      OBVIOUS
    <3> QED BY <2>1, <3>1
  <2> QED BY <2>2 DEF RowsAreOfBatch
<1>2. ASSUME RInv
      PROVE  GeneratedSignalsAreGrounded
  <2> SUFFICES ASSUME origin = "generator", NEW id \in DOMAIN rows, NEW s \in SignalsOf(id)
               PROVE  LET m == rows[id].merchant
                      IN  /\ IsReadable(s) /\ QuotesItsField(s, m)
                          /\ \A token \in NumberTokens(s.value) :
                                \/ TextOf(s.value, token) = RatingScale
                                \/ IsGrounded(TextOf(s.value, token), GroundedNumbers(AsFields(m)))
    BY DEF GeneratedSignalsAreGrounded
  <2>1. PICK i \in DOMAIN batch, now \in Nows : rows[id] = Stored(batch[i], now)
    BY <1>2 DEF RInv, RowsAreOfBatch
  <2> DEFINE m == batch[i]
  <2>2. Sound(m) /\ IsRounded(m)
    BY <1>2 DEF RInv, GInv, GeneratedIsSound, RowsAreOfBatch
  <2>3. rows[id] = Stored(m, now)
    BY <2>1
  <2> HIDE DEF m
  <2>4. IsLegible(m) /\ ReadBack(m) = m
    BY <2>2, RoundedIsLegible
  <2>5. rows[id].merchant = m /\ rows[id].signals = DeriveSignals(m, now)
    BY <2>3, <2>4 DEF Stored
  <2>6. s \in Range(DeriveSignals(m, now))
    BY <2>5 DEF SignalsOf
  <2>7. IsSignalOf(s, m)
    BY <2>6, DerivedAre
  <2>8. IsReadable(s) /\ QuotesItsField(s, m) /\ IsGroundedIn(s.value, m)
    BY <2>4, <2>7, SignalsAreGrounded
  <2>9. \A token \in NumberTokens(s.value) : TextOf(s.value, token) \in TokenTexts(s.value)
    BY DEF TokenTexts, TextsOf
  <2> QED BY <2>5, <2>8, <2>9 DEF IsGroundedIn
<1> QED BY <1>1, <1>2, StepKeepsRows, PTL DEF Spec
===============================================================================
