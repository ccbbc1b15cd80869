----------------------------- MODULE NumbersProofs -----------------------------
(***************************************************************************)
(* Lemmas about Numbers, for texts of any characters.                      *)
(***************************************************************************)
EXTENDS Numbers, DataLemmas, SequenceTheorems

-----------------------------------------------------------------------------
(* Where the numbers of a text begin and end. *)

\* The least place.
LEMMA FirstPlace ==
    ASSUME NEW P \in (SUBSET Nat) \ {{}}
    PROVE  Min(P) \in P /\ \A n \in P : Min(P) <= n
<1>1. \E n \in P : \A m \in P : n <= m
  BY LeastNatural
<1> QED BY <1>1 DEF Min

\* The greatest of some numbers of a range.
LEMMA MaxIsGreatest ==
    ASSUME NEW lo \in Int, NEW hi \in Int, NEW S \in (SUBSET (lo..hi)) \ {{}}
    PROVE  Max(S) \in S /\ \A n \in S : Max(S) >= n
<1> DEFINE T == {hi - n : n \in S}
<1>1. T \in SUBSET Nat /\ T # {}
  <2>1. \A n \in S : hi - n \in Nat
    OBVIOUS
  <2> QED BY <2>1
<1>2. PICK k \in T : \A m \in T : k <= m
  <2> HIDE DEF T
  <2> QED BY <1>1, LeastNatural
<1>3. PICK n \in S : k = hi - n
  OBVIOUS
<1>4. \A m \in S : n >= m
  <2>1. \A m \in S : hi - m \in T /\ m \in Int
    OBVIOUS
  <2> HIDE DEF T
  <2> QED BY <1>2, <1>3, <2>1
<1> HIDE DEF T
<1> QED BY <1>4 DEF Max

\* Nothing is left of a sequence if nothing passes the test.
LEMMA NothingIsAscending == Ascending({}) = <<>>
<1>1. Cardinality({}) = 0 /\ 1..0 = {}
  BY FS_EmptySet
<1> QED BY <1>1 DEF Ascending

\* A piece from a place to the same place.
LEMMA OneSymbol ==
    ASSUME NEW S, NEW text \in Seq(S), NEW at \in 1..Len(text)
    PROVE  SubSeq(text, at, at) = <<text[at]>> /\ <<text[at]>> # <<>>
<1>1. at \in Int /\ text[at] \in S /\ \A i \in at..at : i = at
  BY LenProperties
<1>2. /\ SubSeq(text, at, at) \in Seq(S)
      /\ Len(SubSeq(text, at, at)) = 1
      /\ SubSeq(text, at, at)[1] = text[at]
  <2>1. /\ SubSeq(text, at, at) \in Seq(S)
        /\ Len(SubSeq(text, at, at)) = IF at <= at THEN at - at + 1 ELSE 0
        /\ \A i \in 1..(at - at + 1) : SubSeq(text, at, at)[i] = text[at + i - 1]
    BY <1>1, SubSeqProperties
  <2> QED BY <1>1, <2>1
<1>3. <<text[at]>> \in Seq(S) /\ Len(<<text[at]>>) = 1 /\ <<text[at]>>[1] = text[at]
  BY <1>1
<1>4. SubSeq(text, at, at) = <<text[at]>>
  <2> DEFINE one == SubSeq(text, at, at)
             this == <<text[at]>>
  <2>1. /\ one \in Seq(S) /\ this \in Seq(S) /\ Len(one) = Len(this)
        /\ \A i \in 1..Len(one) : one[i] = this[i]
    BY <1>2, <1>3
  <2> HIDE DEF one, this
  <2>2. one = this
    BY <2>1, SeqEqual
  <2> QED BY <2>2 DEF one, this
<1> QED BY <1>3, <1>4

\* A digit is a number.
LEMMA DigitIsPlain ==
    ASSUME NEW digit \in Digits
    PROVE  IsPlain(<<digit>>)
<1> DEFINE piece == <<digit>>
           places == [i \in DOMAIN piece |-> i]
           none == [n \in DOMAIN Ascending({}) |-> places[Ascending({})[n]]]
           cuts == <<0>> \o none \o <<Len(piece) + 1>>
<1>1. DOMAIN piece = {1} /\ piece[1] = digit /\ piece \in Seq(Digits) /\ Len(piece) = 1
  OBVIOUS
<1>2. {i \in DOMAIN piece : ~IsDigit(piece[i])} = {} /\ {i \in DOMAIN places : ~IsDigit(piece[places[i]])} = {}
  BY <1>1 DEF IsDigit
<1>3. Marks(piece) = <<>>
  <2>1. Marks(piece) = [n \in DOMAIN Ascending({}) |-> piece[Ascending({})[n]]]
    BY <1>2 DEF Marks, Filter
  <2> QED BY <2>1, NothingIsAscending
<1>4. none = <<>>
  BY NothingIsAscending
<1>5. Groups(piece) = [i \in 1..(Len(cuts) - 1) |-> SubSeq(piece, cuts[i] + 1, cuts[i + 1] - 1)]
  <2> DEFINE other == {i \in DOMAIN places : ~IsDigit(piece[places[i]])}
             theirs == [n \in DOMAIN Ascending(other) |-> places[Ascending(other)[n]]]
             ends == <<0>> \o theirs \o <<Len(piece) + 1>>
  <2>1. Groups(piece) = [i \in 1..(Len(ends) - 1) |-> SubSeq(piece, ends[i] + 1, ends[i + 1] - 1)]
    BY DEF Groups, Filter
  <2>2. other = {}
    BY <1>2
  <2> HIDE DEF other
  <2>3. theirs = none
    BY <2>2
  <2> HIDE DEF theirs, none, piece
  <2> QED BY <2>1, <2>3
<1>6. cuts = <<0, 2>>
  <2> HIDE DEF none
  <2>1. <<0>> \in Seq(Int) /\ <<2>> \in Seq(Int) /\ <<0>> \o <<>> = <<0>>
    BY ConcatEmptySeq
  <2>2. <<0>> \o <<2>> = <<0, 2>>
    <3> DEFINE both == <<0>> \o <<2>>
    <3>1. /\ both \in Seq(Int) /\ Len(both) = Len(<<0>>) + Len(<<2>>)
          /\ \A i \in 1..(Len(<<0>>) + Len(<<2>>)) :
                both[i] = IF i <= Len(<<0>>) THEN <<0>>[i] ELSE <<2>>[i - Len(<<0>>)]
      BY <2>1, ConcatProperties
    <3>2. Len(both) = 2 /\ both[1] = 0 /\ both[2] = 2 /\ <<0, 2>> \in Seq(Int)
      BY <3>1
    <3> HIDE DEF both
    <3>3. both = <<0, 2>>
      BY <3>1, <3>2, SeqEqual
    <3> QED BY <3>3 DEF both
  <2>3. <<0>> \o none = <<0>> /\ Len(piece) + 1 = 2
    BY <1>1, <1>4, <2>1
  <2> QED BY <2>2, <2>3
<1>7. Groups(piece) = [i \in 1..1 |-> SubSeq(piece, 1, 1)]
  <2> HIDE DEF cuts
  <2>1. Len(cuts) - 1 = 1 /\ cuts[1] = 0 /\ cuts[2] = 2
    BY <1>6
  <2>2. \A i \in 1..1 : cuts[i] + 1 = 1 /\ cuts[i + 1] - 1 = 1
    BY <2>1
  <2> HIDE DEF piece
  <2> QED BY <1>5, <2>1, <2>2
<1>8. SubSeq(piece, 1, 1) # <<>>
  BY <1>1, OneSymbol
<1>9. <<>> \notin Range(Groups(piece))
  <2> HIDE DEF piece
  <2> QED BY <1>7, <1>8 DEF Range
<1>10. Range(Marks(piece)) = {}
  BY <1>3 DEF Range
<1> HIDE DEF piece
<1>11. IsPlain(piece)
  BY <1>9, <1>10 DEF IsPlain
<1> QED BY <1>11 DEF piece

\* A token begins at its digit and ends after it, in the text.
LEMMA TokenIs ==
    ASSUME NEW X, NEW text \in Seq(X), NEW at \in 0..(Len(text) - 1), IsDigit(text[at + 1])
    PROVE  /\ TokenAt(text, at) = [start |-> at, end |-> TokenAt(text, at).end]
           /\ TokenAt(text, at).end \in (at + 1)..Len(text)
<1> DEFINE spaced == {end \in (at + 1)..Len(text) : IsSpaced(SubSeq(text, at + 1, end))}
           plain == {end \in (at + 1)..Len(text) : IsPlain(SubSeq(text, at + 1, end))}
           ends == IF spaced # {} THEN spaced ELSE plain
<1>1. TokenAt(text, at) = [start |-> at, end |-> Max(ends)]
  BY DEF TokenAt, TokenEnd
<1>2. Len(text) \in Nat /\ at + 1 \in 1..Len(text) /\ at + 1 \in (at + 1)..Len(text) /\ at + 1 \in Int
  OBVIOUS
<1>3. SubSeq(text, at + 1, at + 1) = <<text[at + 1]>>
  BY <1>2, OneSymbol
<1>4. at + 1 \in plain
  BY <1>2, <1>3, DigitIsPlain DEF IsDigit
<1>5. ends \in (SUBSET ((at + 1)..Len(text))) \ {{}}
  BY <1>4
<1> DEFINE lo == at + 1
<1>6. lo \in Int /\ Len(text) \in Int /\ ends \in (SUBSET (lo..Len(text))) \ {{}}
  BY <1>2, <1>5
<1> HIDE DEF ends, lo
<1>7. Max(ends) \in ends
  BY <1>6, MaxIsGreatest
<1>8. Max(ends) \in (at + 1)..Len(text)
  BY <1>5, <1>7
<1> QED BY <1>1, <1>8

\* The tokens that may begin in a text, one at each digit.
TokensIn(text) == {TokenAt(text, at) : at \in {i \in 0..(Len(text) - 1) : IsDigit(text[i + 1])}}

\* The digits that are not read yet.
DigitsFrom(text, from) == {at \in from..(Len(text) - 1) : IsDigit(text[at + 1])}
NextToken(text, from) == TokenAt(text, Min(DigitsFrom(text, from)))

\* The next token begins at the first of them.
LEMMA NextTokenIs ==
    ASSUME NEW X, NEW text \in Seq(X), NEW from \in 0..Len(text), DigitsFrom(text, from) # {}
    PROVE  /\ NextToken(text, from) \in TokensIn(text)
           /\ NextToken(text, from).start \in from..(Len(text) - 1)
           /\ \A at \in from..(NextToken(text, from).start - 1) : ~IsDigit(text[at + 1])
           /\ NextToken(text, from).end \in (NextToken(text, from).start + 1)..Len(text)
<1> DEFINE S == DigitsFrom(text, from)
           m == Min(S)
<1>1. S \in (SUBSET Nat) \ {{}} /\ Len(text) \in Nat /\ from \in Nat
  BY DEF DigitsFrom
<1>2. m \in S /\ \A n \in S : m <= n
  <2> HIDE DEF S
  <2> QED BY <1>1, FirstPlace
<1>3. m \in from..(Len(text) - 1) /\ IsDigit(text[m + 1]) /\ m \in 0..(Len(text) - 1)
  BY <1>1, <1>2 DEF DigitsFrom
<1>4. ASSUME NEW at \in from..(m - 1)
      PROVE  ~IsDigit(text[at + 1])
  <2>1. at \in from..(Len(text) - 1) /\ ~(m <= at)
    BY <1>1, <1>3
  <2> HIDE DEF m
  <2>2. at \notin S
    BY <1>2, <2>1
  <2> QED BY <2>1, <2>2 DEF DigitsFrom
<1> HIDE DEF m
<1>5. /\ TokenAt(text, m) = [start |-> m, end |-> TokenAt(text, m).end]
      /\ TokenAt(text, m).end \in (m + 1)..Len(text)
  BY <1>3, TokenIs
<1>6. TokenAt(text, m).start = m
  BY <1>5
<1>7. TokenAt(text, m) \in TokensIn(text)
  BY <1>3 DEF TokensIn
<1> QED BY <1>3, <1>4, <1>5, <1>6, <1>7 DEF NextToken, m

\* Reading goes from left to right, one token after the other.
LEMMA ScanIs ==
    ASSUME NEW X, NEW text \in Seq(X)
    PROVE  \E scan : /\ NumberTokens(text) = scan[0]
                     /\ \A d \in 0..Len(text) :
                           scan[d] = IF DigitsFrom(text, d) = {} THEN {}
                                     ELSE {NextToken(text, d)} \cup scan[NextToken(text, d).end]
<1> DEFINE D == 0..Len(text)
           V == SUBSET TokensIn(text)
           digits(d) == DigitsFrom(text, d)
           token(d) == NextToken(text, d)
           leaves == {d \in D : digits(d) = {}}
           rank == [d \in D |-> Len(text) - d]
           base == [d \in D |-> {}]
           down == [d \in D |-> token(d).end]
           step == [p \in D \X V |-> {token(p[1])} \cup p[2]]
           Scans(s) == s = [d \in D |-> IF digits(d) = {} THEN {} ELSE {token(d)} \cup s[token(d).end]]
<1>1. Len(text) \in Nat
  OBVIOUS
<1>2. rank \in [D -> Nat] /\ \A d \in D : base[d] \in V
  BY <1>1
<1>3. ASSUME NEW d \in D \ leaves
      PROVE  /\ down[d] = token(d).end /\ token(d) \in TokensIn(text)
             /\ down[d] \in D /\ rank[down[d]] < rank[d]
  <2>1. /\ token(d) \in TokensIn(text)
        /\ token(d).start \in d..(Len(text) - 1)
        /\ token(d).end \in (token(d).start + 1)..Len(text)
    BY NextTokenIs
  <2>2. down[d] = token(d).end
    OBVIOUS
  <2> HIDE DEF token, digits, down
  <2>3. down[d] \in D /\ rank[down[d]] = Len(text) - down[d] /\ rank[d] = Len(text) - d
    BY <1>1, <2>1, <2>2
  <2> QED BY <1>1, <2>1, <2>2, <2>3
<1>4. ASSUME NEW d \in D \ leaves, NEW v \in V
      PROVE  step[<<d, v>>] = {token(d)} \cup v /\ step[<<d, v>>] \in V
  <2>1. <<d, v>> \in D \X V
    OBVIOUS
  <2>2. step[<<d, v>>] = {token(d)} \cup v
    BY <2>1
  <2> HIDE DEF step, digits, leaves, D, token
  <2> QED BY <1>3, <2>2
<1>5. PICK f \in [D -> V] : Computes(f, leaves, base, down, step)
  <2>1. rank \in [D -> Nat] /\ \A d \in D \cap leaves : base[d] \in V
    BY <1>2
  <2>2. \A d \in D \ leaves : down[d] \in D /\ rank[down[d]] < rank[d]
    BY <1>3
  <2>3. \A d \in D \ leaves : \A v \in V : step[<<d, v>>] \in V
    BY <1>4
  <2> HIDE DEF D, V, leaves, rank, base, down, step
  <2> QED BY <2>1, <2>2, <2>3, RecursionExists
<1>6. Scans(f)
  <2>1. ASSUME NEW d \in D
        PROVE  f[d] = IF digits(d) = {} THEN {} ELSE {token(d)} \cup f[token(d).end]
    <3>1. f[d] = IF d \in leaves THEN base[d] ELSE step[<<d, f[down[d]]>>]
      BY <1>5 DEF Computes
    <3>2. CASE d \in leaves
      BY <3>1, <3>2
    <3>3. CASE d \notin leaves
      <4>1. digits(d) # {}
        BY <3>3
      <4> HIDE DEF D, V, leaves, rank, base, down, step, digits, token
      <4>2. down[d] = token(d).end /\ f[down[d]] \in V
        BY <1>3, <3>3
      <4>3. step[<<d, f[down[d]]>>] = {token(d)} \cup f[down[d]]
        BY <1>4, <3>3, <4>2
      <4> QED BY <3>1, <3>3, <4>1, <4>2, <4>3
    <3> QED BY <3>2, <3>3
  <2> HIDE DEF digits, token
  <2> QED BY <2>1
<1> DEFINE c == CHOOSE s : Scans(s)
<1>7. Scans(c)
  <2> HIDE DEF Scans
  <2> QED BY <1>6
<1>8. NumberTokens(text) = c[0]
  BY DEF NumberTokens, DigitsFrom, NextToken
<1> HIDE DEF c
<1>9. \A d \in D : c[d] = IF digits(d) = {} THEN {} ELSE {token(d)} \cup c[token(d).end]
  <2> HIDE DEF digits, token
  <2> QED BY <1>7
<1> QED BY <1>8, <1>9

-----------------------------------------------------------------------------
(* What a number may denote has its digits. *)

\* A sequence cut in two at a place.
LEMMA CutInTwo ==
    ASSUME NEW X, NEW s \in Seq(X), NEW k \in 0..Len(s)
    PROVE  /\ SubSeq(s, 1, k) \in Seq(X) /\ Len(SubSeq(s, 1, k)) = k
           /\ \A i \in 1..k : SubSeq(s, 1, k)[i] = s[i]
           /\ SubSeq(s, k + 1, Len(s)) \in Seq(X) /\ Len(SubSeq(s, k + 1, Len(s))) = Len(s) - k
           /\ \A i \in 1..(Len(s) - k) : SubSeq(s, k + 1, Len(s))[i] = s[k + i]
           /\ s = SubSeq(s, 1, k) \o SubSeq(s, k + 1, Len(s))
<1> DEFINE one == 1
           L == Len(s)
           from == k + 1
<1>1. L \in Nat /\ k \in 0..L /\ one = 1 /\ from \in Int /\ \A i \in 1..L : s[i] \in X
  BY LenProperties, ElementOfSeq
<1>2. (\A i \in one..k : s[i] \in X) /\ (\A i \in from..L : s[i] \in X)
  BY <1>1
<1>3. /\ SubSeq(s, one, k) \in Seq(X)
      /\ Len(SubSeq(s, one, k)) = IF one <= k THEN k - one + 1 ELSE 0
      /\ \A i \in 1..(k - one + 1) : SubSeq(s, one, k)[i] = s[one + i - 1]
  <2> HIDE DEF one, L, from
  <2> QED BY <1>1, <1>2, SubSeqProperties
<1>4. /\ SubSeq(s, from, L) \in Seq(X)
      /\ Len(SubSeq(s, from, L)) = IF from <= L THEN L - from + 1 ELSE 0
      /\ \A i \in 1..(L - from + 1) : SubSeq(s, from, L)[i] = s[from + i - 1]
  <2> HIDE DEF one, L, from
  <2> QED BY <1>1, <1>2, SubSeqProperties
<1>5. SubSeq(s, one, k) \o SubSeq(s, k + 1, L) = SubSeq(s, one, L)
  <2>1. one \in 1..(Len(s) + 1) /\ k \in (one - 1)..Len(s) /\ L \in k..Len(s)
    BY <1>1
  <2> HIDE DEF one, L
  <2> QED BY <2>1, ConcatAdjacentSubSeq
<1>6. SubSeq(s, one, L) = s
  BY SubSeqFull
<1>7. k - one + 1 = k /\ (IF one <= k THEN k - one + 1 ELSE 0) = k
      /\ L - from + 1 = L - k /\ (IF from <= L THEN L - from + 1 ELSE 0) = L - k
  BY <1>1
<1>8. ASSUME NEW i \in 1..k
      PROVE  SubSeq(s, 1, k)[i] = s[i]
  <2>1. one + i - 1 = i
    OBVIOUS
  <2> QED BY <1>3, <1>7, <2>1
<1>9. ASSUME NEW i \in 1..(L - k)
      PROVE  SubSeq(s, from, L)[i] = s[k + i]
  <2>1. from + i - 1 = k + i
    BY <1>1
  <2> QED BY <1>4, <1>7, <2>1
<1> QED BY <1>3, <1>4, <1>5, <1>6, <1>7, <1>8, <1>9

\* Zeros that do not count are dropped, and nothing else.
LEMMA WithoutLeadingIs ==
    ASSUME NEW X, NEW s \in Seq(X), NEW S, "0" \notin S
    PROVE  /\ WithoutLeading(s) \in Seq(X)
           /\ Kept(WithoutLeading(s), S) = Kept(s, S)
           /\ \E k \in 0..Len(s) :
                 /\ WithoutLeading(s) = SubSeq(s, k + 1, Len(s))
                 /\ \A i \in 1..k : s[i] = "0"
<1> DEFINE P == {i \in DOMAIN s : s[i] # "0"}
           L == Len(s)
<1>1. L \in Nat /\ DOMAIN s = 1..L
  BY LenProperties
<1>2. PICK k \in 0..L : /\ WithoutLeading(s) = SubSeq(s, k + 1, L)
                        /\ \A i \in 1..k : s[i] = "0"
  <2>1. CASE P = {}
    <3>1. WithoutLeading(s) = <<>>
      BY <2>1 DEF WithoutLeading
    <3>2. SubSeq(s, L + 1, L) = <<>>
      <4> DEFINE m == L + 1
      <4>1. m \in Int /\ L \in Int /\ L < m
        BY <1>1
      <4> HIDE DEF m, L
      <4>2. SubSeq(s, m, L) = <<>>
        BY <4>1, SubSeqEmpty
      <4> QED BY <4>2 DEF m
    <3>3. L \in 0..L /\ \A i \in 1..L : s[i] = "0"
      BY <1>1, <2>1
    <3> QED BY <3>1, <3>2, <3>3
  <2>2. CASE P # {}
    <3>1. P \in (SUBSET Nat) \ {{}} /\ WithoutLeading(s) = SubSeq(s, Min(P), L)
      <4>1. \A i \in P : i \in Nat
        BY <1>1
      <4>2. WithoutLeading(s) = IF P = {} THEN <<>> ELSE SubSeq(s, Min(P), L)
        BY DEF WithoutLeading
      <4> HIDE DEF P
      <4> QED BY <2>2, <4>1, <4>2
    <3>2. Min(P) \in P /\ \A n \in P : Min(P) <= n
      <4> HIDE DEF P
      <4> QED BY <3>1, FirstPlace
    <3> DEFINE m == Min(P)
               k == m - 1
    <3>3. m \in 1..L /\ \A n \in P : m <= n
      BY <1>1, <3>2
    <3> HIDE DEF m
    <3>4. k \in 0..L /\ k + 1 = m
      BY <1>1, <3>3
    <3>5. \A i \in 1..k : i \in 1..L /\ i < m
      BY <1>1, <3>3
    <3>6. \A i \in 1..k : s[i] = "0"
      BY <1>1, <3>3, <3>5
    <3> QED BY <3>1, <3>4, <3>6 DEF m
  <2> QED BY <2>1, <2>2
<1> DEFINE a == SubSeq(s, 1, k)
           b == SubSeq(s, k + 1, L)
<1>3. /\ a \in Seq(X) /\ Len(a) = k /\ \A i \in 1..k : a[i] = s[i]
      /\ b \in Seq(X) /\ s = a \o b
  BY <1>2, CutInTwo
<1> HIDE DEF a, b
<1>4. Kept(a, S) = <<>>
  <2>1. \A i \in 1..Len(a) : a[i] \notin S
    BY <1>2, <1>3
  <2> QED BY <1>3, <2>1, KeptOfNone
<1>5. Kept(a \o b, S) = Kept(a, S) \o Kept(b, S)
  BY <1>3, KeptOfBoth
<1>6. Kept(b, S) \in Seq(X)
  BY <1>3, KeptIsIn
<1>7. Kept(s, S) = Kept(b, S)
  BY <1>3, <1>4, <1>5, <1>6, ConcatEmptySeq
<1> QED BY <1>2, <1>3, <1>7 DEF b

\* And so at the end.
LEMMA WithoutTrailingIs ==
    ASSUME NEW X, NEW s \in Seq(X), NEW S, "0" \notin S
    PROVE  /\ Reverse(WithoutLeading(Reverse(s))) \in Seq(X)
           /\ Kept(Reverse(WithoutLeading(Reverse(s))), S) = Kept(s, S)
<1> DEFINE L == Len(s)
           q == Reverse(s)
<1>1. L \in Nat /\ \A i \in 1..L : s[i] \in X
  BY LenProperties, ElementOfSeq
<1>2. q \in Seq(X) /\ Len(q) = L /\ \A i \in 1..L : q[i] = s[(L - i) + 1]
  <2>1. q = [i \in 1..L |-> s[(L - i) + 1]]
    BY DEF Reverse
  <2>2. \A i \in 1..L : (L - i) + 1 \in 1..L
    BY <1>1
  <2> HIDE DEF q, L
  <2> QED BY <1>1, <2>1, <2>2
<1> HIDE DEF q
<1>3. PICK k \in 0..Len(q) : /\ WithoutLeading(q) = SubSeq(q, k + 1, Len(q))
                             /\ \A i \in 1..k : q[i] = "0"
  BY <1>2, WithoutLeadingIs
<1> DEFINE w == WithoutLeading(q)
           h == L - k
           a == SubSeq(s, 1, h)
           b == SubSeq(s, h + 1, L)
<1>4. w \in Seq(X) /\ Len(w) = h /\ \A i \in 1..h : w[i] = q[k + i]
  <2>1. /\ SubSeq(q, k + 1, Len(q)) \in Seq(X) /\ Len(SubSeq(q, k + 1, Len(q))) = Len(q) - k
        /\ \A i \in 1..(Len(q) - k) : SubSeq(q, k + 1, Len(q))[i] = q[k + i]
    BY <1>2, <1>3, CutInTwo
  <2> QED BY <1>2, <1>3, <2>1
<1>5. h \in 0..L /\ k = L - h /\ k \in 0..L
  BY <1>1, <1>2, <1>3
<1> HIDE DEF w, h
<1>6. /\ a \in Seq(X) /\ Len(a) = h /\ \A i \in 1..h : a[i] = s[i]
      /\ b \in Seq(X) /\ Len(b) = L - h /\ (\A i \in 1..(L - h) : b[i] = s[h + i])
      /\ s = a \o b
  <2>1. h \in 0..Len(s)
    BY <1>5
  <2>2. /\ SubSeq(s, 1, h) \in Seq(X) /\ Len(SubSeq(s, 1, h)) = h
        /\ \A i \in 1..h : SubSeq(s, 1, h)[i] = s[i]
        /\ SubSeq(s, h + 1, Len(s)) \in Seq(X) /\ Len(SubSeq(s, h + 1, Len(s))) = Len(s) - h
        /\ \A i \in 1..(Len(s) - h) : SubSeq(s, h + 1, Len(s))[i] = s[h + i]
        /\ s = SubSeq(s, 1, h) \o SubSeq(s, h + 1, Len(s))
    BY <2>1, CutInTwo, Zenon
  <2> QED BY <2>2
<1> HIDE DEF a, b
<1>7. Reverse(w) = a
  <2> DEFINE r == Reverse(w)
  <2>1. r = [i \in 1..h |-> w[(h - i) + 1]]
    BY <1>4 DEF Reverse
  <2>2. ASSUME NEW i \in 1..h
        PROVE  r[i] = a[i] /\ r[i] \in X
    <3>1. (h - i) + 1 \in 1..h /\ k + ((h - i) + 1) \in 1..L
          /\ (L - (k + ((h - i) + 1))) + 1 = i /\ i \in 1..L
      BY <1>1, <1>5
    <3> DEFINE j == (h - i) + 1
    <3>2. r[i] = w[j]
      BY <2>1
    <3>3. w[j] = q[k + j]
      BY <1>4, <3>1
    <3>4. q[k + j] = s[(L - (k + j)) + 1]
      BY <1>2, <3>1
    <3> HIDE DEF r
    <3> QED BY <1>1, <1>6, <3>1, <3>2, <3>3, <3>4
  <2>3. r \in Seq(X) /\ Len(r) = h
    <3>1. h \in Nat /\ DOMAIN r = 1..h
      BY <1>5, <2>1
    <3> HIDE DEF r
    <3>2. r = [i \in 1..h |-> r[i]]
      BY <2>1
    <3> QED BY <2>2, <3>1, <3>2
  <2> HIDE DEF r
  <2>4. r = a
    BY <1>6, <2>2, <2>3, SeqEqual
  <2> QED BY <2>4 DEF r
<1>8. Kept(b, S) = <<>>
  <2>1. ASSUME NEW i \in 1..Len(b)
        PROVE  b[i] \notin S
    <3>1. i \in 1..(L - h) /\ (L - (h + i)) + 1 \in 1..k /\ (L - (h + i)) + 1 \in 1..L
          /\ (L - ((L - (h + i)) + 1)) + 1 = h + i
      BY <1>1, <1>5, <1>6
    <3> DEFINE j == (L - (h + i)) + 1
    <3>2. q[j] = "0" /\ q[j] = s[(L - j) + 1]
      BY <1>2, <1>3, <3>1
    <3>3. b[i] = s[h + i]
      BY <1>6, <3>1
    <3> QED BY <3>1, <3>2, <3>3
  <2> QED BY <1>6, <2>1, KeptOfNone
<1>9. Kept(s, S) = Kept(a, S) \o Kept(b, S) /\ Kept(a, S) \in Seq(X)
  <2>1. Kept(a \o b, S) = Kept(a, S) \o Kept(b, S)
    BY <1>6, KeptOfBoth
  <2>2. Kept(a, S) \in Seq(X)
    BY <1>6, KeptIsIn
  <2> QED BY <1>6, <2>1, <2>2
<1>10. Kept(s, S) = Kept(a, S)
  BY <1>8, <1>9, ConcatEmptySeq
<1> QED BY <1>6, <1>7, <1>10 DEF w, q

\* The places in a piece where there is no digit.
Others(piece) == {i \in DOMAIN piece : ~IsDigit(piece[i])}

\* Where a piece with n marks is cut into its groups.
AreCuts(piece, n, cuts) ==
    /\ cuts[1] = 0 /\ cuts[n + 2] = Len(piece) + 1
    /\ \A i \in 1..(n + 1) :
          cuts[i] \in 0..Len(piece) /\ cuts[i] < cuts[i + 1] /\ cuts[i + 1] <= Len(piece) + 1
    /\ \A i \in 2..(n + 1) : cuts[i] \in 1..Len(piece) /\ piece[cuts[i]] \notin Digits
    /\ Groups(piece) = [i \in 1..(n + 1) |-> SubSeq(piece, cuts[i] + 1, cuts[i + 1] - 1)]
    /\ Len(Marks(piece)) = n
    /\ n = Cardinality(Others(piece))
    /\ \A i \in 2..(n + 1) : cuts[i] = Ascending(Others(piece))[i - 1]

\* The groups of a piece are what is between its marks.
LEMMA GroupsAre ==
    ASSUME NEW X, NEW piece \in Seq(X)
    PROVE  /\ Marks(piece) \in Seq(X)
           /\ Marks(piece) = AtPlaces(piece, Others(piece))
           /\ \E n \in Nat : \E cuts \in [1..(n + 2) -> Int] : AreCuts(piece, n, cuts)
<1> DEFINE L == Len(piece)
           places == [i \in DOMAIN piece |-> i]
           A == {i \in DOMAIN piece : ~IsDigit(piece[i])}
           at == Ascending(A)
           n == Cardinality(A)
           other == {i \in DOMAIN places : ~IsDigit(piece[places[i]])}
           theirs == [k \in DOMAIN Ascending(other) |-> places[Ascending(other)[k]]]
           front == <<0>> \o theirs
           cuts == front \o <<L + 1>>
<1>1. L \in Nat /\ DOMAIN piece = 1..L /\ A \in SUBSET (1..Len(piece)) /\ other = A
  BY LenProperties
<1>2. /\ IsFiniteSet(A) /\ n \in Nat /\ A \in SUBSET Int
      /\ AtPlaces(piece, A) \in Seq(X) /\ Len(AtPlaces(piece, A)) = n
  <2> HIDE DEF A
  <2> QED BY <1>1, PlacesIs
<1>3. Marks(piece) = AtPlaces(piece, A)
  BY DEF Marks, Filter, AtPlaces
<1>4. /\ at \in [1..n -> A]
      /\ \A k, m \in 1..n : k < m => at[k] < at[m]
  <2> HIDE DEF A
  <2> QED BY <1>2, AscendingIs
<1>5. \A i \in A : i \in 1..L /\ i \in Int /\ piece[i] \notin Digits
  BY <1>1 DEF IsDigit
<1>6. theirs = [k \in 1..n |-> at[k]]
  <2>1. DOMAIN at = 1..n /\ \A k \in 1..n : at[k] \in DOMAIN piece
    <3> HIDE DEF A, at
    <3> QED BY <1>1, <1>4, <1>5
  <2>2. theirs = [k \in DOMAIN at |-> places[at[k]]]
    <3>1. Ascending(other) = at
      BY <1>1
    <3>2. theirs = [k \in DOMAIN Ascending(other) |-> places[Ascending(other)[k]]]
      OBVIOUS
    <3> HIDE DEF other, at, places, theirs
    <3> QED BY <3>1, <3>2
  <2> HIDE DEF theirs, at, n, A, other
  <2>3. theirs = [k \in 1..n |-> places[at[k]]]
    BY <2>1, <2>2
  <2>4. \A k \in 1..n : places[at[k]] = at[k]
    BY <2>1
  <2> HIDE DEF places
  <2> QED BY <2>3, <2>4
<1>7. Groups(piece) = [i \in 1..(Len(cuts) - 1) |-> SubSeq(piece, cuts[i] + 1, cuts[i + 1] - 1)]
  BY DEF Groups, Filter
<1> HIDE DEF theirs, at, n, A, other, places
<1>8. theirs \in Seq(Int) /\ Len(theirs) = n /\ \A k \in 1..n : theirs[k] = at[k]
  <2>1. \A k \in 1..n : at[k] \in Int
    BY <1>4, <1>5
  <2>2. [k \in 1..n |-> at[k]] \in Seq(Int) /\ Len([k \in 1..n |-> at[k]]) = n
    BY <1>2, <2>1
  <2>3. \A k \in 1..n : [j \in 1..n |-> at[j]][k] = at[k]
    OBVIOUS
  <2> QED BY <1>6, <2>2, <2>3
<1>9. /\ front \in Seq(Int) /\ Len(front) = n + 1 /\ front[1] = 0
      /\ \A i \in 2..(n + 1) : front[i] = at[i - 1]
  <2> DEFINE zero == <<0>>
  <2>1. zero \in Seq(Int) /\ Len(zero) = 1 /\ zero[1] = 0
    OBVIOUS
  <2> HIDE DEF zero
  <2>2. /\ zero \o theirs \in Seq(Int) /\ Len(zero \o theirs) = Len(zero) + Len(theirs)
        /\ \A i \in 1..(Len(zero) + Len(theirs)) :
              (zero \o theirs)[i] = IF i <= Len(zero) THEN zero[i] ELSE theirs[i - Len(zero)]
    BY <1>8, <2>1, ConcatProperties
  <2>3. (zero \o theirs)[1] = 0 /\ Len(zero \o theirs) = n + 1
    BY <1>2, <1>8, <2>1, <2>2
  <2>4. ASSUME NEW i \in 2..(n + 1)
        PROVE  (zero \o theirs)[i] = at[i - 1]
    <3>1. i \in 1..(Len(zero) + Len(theirs)) /\ ~(i <= Len(zero)) /\ i - 1 \in 1..n
      BY <1>2, <1>8, <2>1
    <3> QED BY <1>8, <2>1, <2>2, <3>1
  <2> QED BY <2>2, <2>3, <2>4 DEF zero
<1> HIDE DEF front
<1>10. /\ cuts \in Seq(Int) /\ Len(cuts) = n + 2 /\ cuts[1] = 0 /\ cuts[n + 2] = L + 1
       /\ \A i \in 2..(n + 1) : cuts[i] = at[i - 1]
  <2> DEFINE end == <<L + 1>>
  <2>1. end \in Seq(Int) /\ Len(end) = 1 /\ end[1] = L + 1
    BY <1>1
  <2> HIDE DEF end
  <2>2. /\ front \o end \in Seq(Int) /\ Len(front \o end) = Len(front) + Len(end)
        /\ \A i \in 1..(Len(front) + Len(end)) :
              (front \o end)[i] = IF i <= Len(front) THEN front[i] ELSE end[i - Len(front)]
    BY <1>9, <2>1, ConcatProperties
  <2>3. Len(front \o end) = n + 2 /\ (front \o end)[1] = 0 /\ (front \o end)[n + 2] = L + 1
    BY <1>2, <1>9, <2>1, <2>2
  <2>4. ASSUME NEW i \in 2..(n + 1)
        PROVE  (front \o end)[i] = at[i - 1]
    <3>1. i \in 1..(Len(front) + Len(end)) /\ i <= Len(front)
      BY <1>2, <1>9, <2>1
    <3> QED BY <1>9, <2>2, <3>1
  <2> QED BY <2>2, <2>3, <2>4 DEF end
<1> HIDE DEF cuts
<1>11. ASSUME NEW i \in 2..(n + 1)
       PROVE  cuts[i] \in 1..L /\ piece[cuts[i]] \notin Digits
  <2>1. i - 1 \in 1..n
    BY <1>2
  <2> QED BY <1>4, <1>5, <1>10, <2>1
<1>12. ASSUME NEW i \in 1..(n + 1)
       PROVE  cuts[i] \in 0..L /\ cuts[i] < cuts[i + 1] /\ cuts[i + 1] <= L + 1
  <2>1. cuts[i] \in 0..L
    BY <1>1, <1>2, <1>10, <1>11
  <2>2. CASE i = n + 1
    <3>1. cuts[i + 1] = L + 1
      BY <1>2, <1>10, <2>2
    <3> QED BY <1>1, <2>1, <3>1
  <2>3. CASE i # n + 1
    <3>1. i + 1 \in 2..(n + 1)
      BY <1>2, <2>3
    <3>2. cuts[i + 1] \in 1..L
      BY <1>11, <3>1
    <3>3. CASE i = 1
      BY <1>1, <1>10, <3>2, <3>3
    <3>4. CASE i # 1
      <4>1. i \in 2..(n + 1) /\ i - 1 \in 1..n /\ i \in 1..n /\ i - 1 < i /\ (i + 1) - 1 = i
        BY <1>2, <2>3, <3>4
      <4>2. cuts[i] = at[i - 1] /\ cuts[i + 1] = at[i]
        BY <1>10, <3>1, <4>1
      <4>3. at[i - 1] < at[i]
        BY <1>4, <4>1
      <4> QED BY <1>1, <2>1, <3>2, <4>2, <4>3
    <3> QED BY <3>3, <3>4
  <2> QED BY <2>2, <2>3
<1>13. cuts \in [1..(n + 2) -> Int] /\ Len(cuts) - 1 = n + 1
  BY <1>2, <1>10, LenProperties
<1>14. Others(piece) = A /\ Ascending(Others(piece)) = at
  BY DEF Others, A, at
<1>15. n = Cardinality(Others(piece)) /\ \A i \in 2..(n + 1) : cuts[i] = Ascending(Others(piece))[i - 1]
  <2>1. n = Cardinality(Others(piece))
    BY <1>14 DEF n
  <2> QED BY <1>10, <1>14, <2>1
<1>16. AreCuts(piece, n, cuts)
  BY <1>2, <1>3, <1>7, <1>10, <1>11, <1>12, <1>13, <1>15 DEF AreCuts
<1> QED BY <1>2, <1>3, <1>13, <1>14, <1>16

\* The same after sequences of which the same is kept.
LEMMA KeptAfterEqual ==
    ASSUME NEW X, NEW S, NEW u \in Seq(X), NEW w \in Seq(X), NEW v \in Seq(X)
    PROVE  Kept(u, S) = Kept(w, S) => Kept(u \o v, S) = Kept(w \o v, S)
<1>1. Kept(u \o v, S) = Kept(u, S) \o Kept(v, S)
  BY KeptOfBoth
<1>2. Kept(w \o v, S) = Kept(w, S) \o Kept(v, S)
  BY KeptOfBoth
<1> QED BY <1>1, <1>2

\* No digit is lost between the groups.
LEMMA GroupsKeepDigits ==
    ASSUME NEW X, NEW piece \in Seq(X), NEW S, S \subseteq Digits
    PROVE  /\ Groups(piece) \in Seq(Seq(X))
           /\ Len(Groups(piece)) = Len(Marks(piece)) + 1
           /\ FlattenSeq(Groups(piece)) \in Seq(X)
           /\ Kept(FlattenSeq(Groups(piece)), S) = Kept(piece, S)
<1> DEFINE L == Len(piece)
           G == Groups(piece)
           V == Seq(X)
<1>a. PICK n \in Nat : \E cuts \in [1..(n + 2) -> Int] : AreCuts(piece, n, cuts)
  BY GroupsAre
<1>1. PICK cuts \in [1..(n + 2) -> Int] :
         /\ cuts[1] = 0 /\ cuts[n + 2] = L + 1
         /\ \A i \in 1..(n + 1) :
               cuts[i] \in 0..L /\ cuts[i] < cuts[i + 1] /\ cuts[i + 1] <= L + 1
         /\ \A i \in 2..(n + 1) : cuts[i] \in 1..L /\ piece[cuts[i]] \notin Digits
         /\ G = [i \in 1..(n + 1) |-> SubSeq(piece, cuts[i] + 1, cuts[i + 1] - 1)]
         /\ Len(Marks(piece)) = n
         /\ n = Cardinality(Others(piece))
         /\ \A i \in 2..(n + 1) : cuts[i] = Ascending(Others(piece))[i - 1]
  BY <1>a DEF AreCuts
<1>2. L \in Nat /\ \A i \in 1..L : piece[i] \in X
  BY LenProperties, ElementOfSeq
<1>3. ASSUME NEW i \in 1..(n + 1)
      PROVE  /\ G[i] = SubSeq(piece, cuts[i] + 1, cuts[i + 1] - 1)
             /\ G[i] \in V
             /\ SubSeq(piece, 1, cuts[i]) \in V /\ SubSeq(piece, 1, cuts[i + 1] - 1) \in V
             /\ SubSeq(piece, 1, cuts[i]) \o G[i] = SubSeq(piece, 1, cuts[i + 1] - 1)
  <2> DEFINE one == 1
             from == cuts[i] + 1
             to == cuts[i + 1] - 1
             k == cuts[i]
  <2>1. k \in 0..L /\ to \in k..L /\ from \in Int /\ to \in Int /\ one = 1
    <3>1. i + 1 \in 1..(n + 2) /\ i \in 1..(n + 2)
      OBVIOUS
    <3>2. cuts[i] \in Int /\ cuts[i + 1] \in Int /\ cuts[i] \in 0..L /\ cuts[i] < cuts[i + 1] /\ cuts[i + 1] <= L + 1
      BY <1>1, <3>1
    <3> QED BY <1>2, <3>2
  <2>2. G[i] = SubSeq(piece, from, to) /\ from = k + 1
    BY <1>1
  <2> HIDE DEF one, from, to, k, G, V
  <2>3. /\ \A j \in from..to : piece[j] \in X
        /\ \A j \in one..k : piece[j] \in X
        /\ \A j \in one..to : piece[j] \in X
    BY <1>2, <2>1, <2>2
  <2>4. SubSeq(piece, from, to) \in Seq(X) /\ SubSeq(piece, one, k) \in Seq(X)
        /\ SubSeq(piece, one, to) \in Seq(X)
    BY <2>1, <2>3, SubSeqProperties
  <2>5. SubSeq(piece, one, k) \o SubSeq(piece, k + 1, to) = SubSeq(piece, one, to)
    <3>1. one \in 1..(Len(piece) + 1) /\ k \in (one - 1)..Len(piece) /\ to \in k..Len(piece)
      BY <1>2, <2>1
    <3> QED BY <3>1, ConcatAdjacentSubSeq
  <2> QED BY <2>2, <2>4, <2>5 DEF one, from, to, k, V
<1>4. G \in Seq(V) /\ Len(G) = n + 1
  <2>1. \A i \in 1..(n + 1) : G[i] \in V
    BY <1>3
  <2> DEFINE m == n + 1
             Between(i) == SubSeq(piece, cuts[i] + 1, cuts[i + 1] - 1)
  <2>2. G = [i \in 1..m |-> Between(i)]
    BY <1>1
  <2>3. \A i \in 1..m : G[i] = Between(i)
    BY <1>3
  <2>4. m \in Nat
    OBVIOUS
  <2> HIDE DEF G, V, Between, m
  <2>5. \A i \in 1..m : Between(i) \in V
    BY <2>1, <2>3 DEF m
  <2>6. [i \in 1..m |-> Between(i)] \in Seq(V) /\ Len([i \in 1..m |-> Between(i)]) = m
    BY <2>4, <2>5
  <2> QED BY <2>2, <2>6 DEF m
<1> DEFINE F(i) == FlattenSeq(SubSeq(G, 1, i))
<1> HIDE DEF G
<1>5. ASSUME NEW i \in 0..n
      PROVE  F(i) \in V /\ F(i + 1) = F(i) \o G[i + 1]
  <2> DEFINE one == 1
             m == i + 1
             before == SubSeq(G, one, i)
  <2>1. m \in 1..(n + 1) /\ one = 1 /\ m \in one..Len(G) /\ one \in 1..Len(G) /\ m - 1 = i /\ i \in Int
    BY <1>4
  <2>2. SubSeq(G, one, m) = SubSeq(G, one, m - 1) \o <<G[m]>>
    <3> HIDE DEF one, m, V
    <3> QED BY <1>4, <2>1, SubSeqRecursiveSecond
  <2>3. before \in Seq(V)
    <3>1. \A j \in one..i : G[j] \in V
      BY <1>3, <2>1
    <3> HIDE DEF one, V
    <3> QED BY <2>1, <3>1, SubSeqProperties
  <2>4. G[m] \in V
    BY <1>3, <2>1
  <2> HIDE DEF one, m, before
  <2>5. SubSeq(G, one, m) = Append(before, G[m])
    <3> HIDE DEF V
    <3>1. before \o <<G[m]>> = Append(before, G[m])
      BY <2>3, <2>4, AppendIsConcat
    <3> QED BY <2>1, <2>2, <3>1 DEF before
  <2>6. FlattenSeq(before) \in Seq(X) /\ FlattenSeq(Append(before, G[m])) = FlattenSeq(before) \o G[m]
    BY <2>3, <2>4, FlattenOneMore
  <2> QED BY <2>5, <2>6 DEF one, m, before
<1>6. ASSUME NEW i \in 0..n, Kept(F(i), S) = Kept(SubSeq(piece, 1, cuts[i + 1]), S)
      PROVE  Kept(F(i + 1), S) = Kept(SubSeq(piece, 1, cuts[i + 2] - 1), S)
  <2> DEFINE j == i + 1
             a == SubSeq(piece, 1, cuts[j])
  <2>1. j \in 1..(n + 1) /\ j + 1 = i + 2
    OBVIOUS
  <2>2. a \in V /\ G[j] \in V /\ a \o G[j] = SubSeq(piece, 1, cuts[j + 1] - 1)
    BY <1>3, <2>1
  <2>3. F(i) \in V /\ F(j) = F(i) \o G[j]
    BY <1>5
  <2> HIDE DEF F, j, a
  <2>4. Kept(F(i) \o G[j], S) = Kept(a \o G[j], S)
    <3>1. F(i) \in Seq(X) /\ a \in Seq(X) /\ G[j] \in Seq(X)
      BY <2>2, <2>3
    <3>2. Kept(F(i), S) = Kept(a, S)
      BY <1>6 DEF a, j
    <3> QED BY <3>1, <3>2, KeptAfterEqual
  <2> QED BY <2>1, <2>2, <2>3, <2>4 DEF j, a
<1> DEFINE T == {i \in 0..n : Kept(F(i), S) = Kept(SubSeq(piece, 1, cuts[i + 1]), S)}
           rank == [i \in 0..n |-> i]
<1>7. 0 \in T
  <2> DEFINE one == 1
             zero == 0
  <2>1. one \in Int /\ zero \in Int /\ zero < one /\ one = 1 /\ zero = 0
    OBVIOUS
  <2> HIDE DEF one, zero
  <2>2. SubSeq(G, one, zero) = <<>> /\ SubSeq(piece, one, zero) = <<>>
    BY <2>1, SubSeqEmpty
  <2>3. FlattenSeq(<<>>) = <<>>
    <3>1. Len(<<>>) = 0
      OBVIOUS
    <3> QED BY <3>1 DEF FlattenSeq
  <2>4. SubSeq(G, 1, 0) = <<>> /\ SubSeq(piece, 1, 0) = <<>>
    BY <2>1, <2>2
  <2>5. F(0) = <<>>
    BY <2>3, <2>4
  <2>6. cuts[0 + 1] = 0
    BY <1>1
  <2>7. SubSeq(piece, 1, cuts[0 + 1]) = <<>>
    BY <2>4, <2>6
  <2> HIDE DEF F
  <2>8. 0 \in 0..n
    OBVIOUS
  <2> HIDE DEF T
  <2>9. F(0) = SubSeq(piece, 1, cuts[0 + 1])
    BY <2>5, <2>7
  <2> QED BY <2>8, <2>9 DEF T
<1>8. ASSUME NEW i \in 0..n, \A j \in 0..n : rank[j] < rank[i] => j \in T
      PROVE  i \in T
  <2>1. CASE i = 0
    BY <1>7, <2>1
  <2>2. CASE i # 0
    <3> DEFINE h == i - 1
               c == cuts[i + 1]
               one == 1
    <3>1. h \in 0..n /\ rank[h] < rank[i] /\ h + 1 = i /\ h + 2 = i + 1 /\ i + 1 \in 2..(n + 1)
      BY <2>2
    <3>2. Kept(F(h), S) = Kept(SubSeq(piece, 1, cuts[h + 1]), S)
      BY <1>8, <3>1
    <3>3. Kept(F(i), S) = Kept(SubSeq(piece, 1, c - 1), S)
      <4> HIDE DEF F, h
      <4> QED BY <1>6, <3>1, <3>2
    <3>4. c \in 1..L /\ piece[c] \notin Digits
      BY <1>1, <3>1
    <3> HIDE DEF h, c, F
    <3>5. SubSeq(piece, 1, c) = SubSeq(piece, 1, c - 1) \o <<piece[c]>>
      <4>1. one \in 1..Len(piece) /\ c \in one..Len(piece) /\ one = 1
        BY <1>2, <3>4
      <4> HIDE DEF one
      <4>2. SubSeq(piece, one, c) = SubSeq(piece, one, c - 1) \o <<piece[c]>>
        BY <4>1, SubSeqRecursiveSecond
      <4> QED BY <4>1, <4>2
    <3> DEFINE b == SubSeq(piece, 1, c - 1)
    <3>6. b \in Seq(X) /\ piece[c] \in X
      <4> DEFINE k == c - 1
      <4>1. k \in 0..Len(piece)
        BY <1>2, <3>4
      <4> HIDE DEF k
      <4>2. SubSeq(piece, 1, k) \in Seq(X)
        BY <4>1, CutInTwo
      <4> QED BY <1>2, <3>4, <4>2 DEF k
    <3> HIDE DEF b
    <3>7. Kept(Append(b, piece[c]), S) = Kept(b, S) /\ Append(b, piece[c]) = b \o <<piece[c]>>
      BY <3>4, <3>6, KeptOneMore, AppendIsConcat
    <3> QED BY <3>3, <3>5, <3>7 DEF b, c
  <2> QED BY <2>1, <2>2
<1>9. n \in T
  <2> DEFINE D == 0..n
  <2>1. rank \in [D -> Nat] /\ \A i \in D : (\A j \in D : rank[j] < rank[i] => j \in T) => i \in T
    BY <1>8
  <2>2. n \in D
    OBVIOUS
  <2> HIDE DEF D, rank, T
  <2>3. D \subseteq T
    BY <2>1, RankInduction
  <2> QED BY <2>2, <2>3
<1>10. Kept(F(n + 1), S) = Kept(SubSeq(piece, 1, L), S)
  <2>1. Kept(F(n), S) = Kept(SubSeq(piece, 1, cuts[n + 1]), S)
    BY <1>9
  <2>2. cuts[n + 2] - 1 = L
    BY <1>1, <1>2
  <2>3. n \in 0..n
    OBVIOUS
  <2> HIDE DEF F
  <2> QED BY <1>6, <2>1, <2>2, <2>3
<1>11. SubSeq(piece, 1, L) = piece /\ SubSeq(G, 1, n + 1) = G
  <2>1. SubSeq(piece, 1, L) = piece
    BY SubSeqFull
  <2>2. SubSeq(G, 1, Len(G)) = G
    <3> HIDE DEF V
    <3> QED BY <1>4, SubSeqFull
  <2> QED BY <1>4, <2>1, <2>2
<1>12. F(n + 1) \in Seq(X)
  <2>1. n \in 0..n /\ n + 1 \in 1..(n + 1)
    OBVIOUS
  <2>2. F(n) \in Seq(X) /\ F(n + 1) = F(n) \o G[n + 1]
    <3> HIDE DEF F
    <3> QED BY <1>5, <2>1
  <2>3. G[n + 1] \in Seq(X)
    BY <1>3, <2>1
  <2> HIDE DEF F
  <2> QED BY <2>2, <2>3, ConcatProperties
<1> QED BY <1>1, <1>4, <1>10, <1>11, <1>12 DEF G

\* The groups but the last, and the last.
LEMMA FrontAndLast ==
    ASSUME NEW X, NEW groups \in Seq(Seq(X)), Len(groups) >= 1
    PROVE  /\ Front(groups) \in Seq(Seq(X)) /\ Last(groups) \in Seq(X)
           /\ FlattenSeq(Front(groups)) \in Seq(X)
           /\ FlattenSeq(groups) = FlattenSeq(Front(groups)) \o Last(groups)
<1> DEFINE V == Seq(X)
           n == Len(groups)
           one == 1
           m == n - 1
           f == SubSeq(groups, one, m)
           g == groups[n]
<1>1. n \in Nat /\ n >= 1 /\ one = 1 /\ m \in Int /\ \A i \in 1..n : groups[i] \in V
  <2>1. n \in Nat /\ n >= 1 /\ one = 1 /\ m \in Int
    <3>1. n \in Nat
      <4> HIDE DEF V
      <4>1. groups \in Seq(V)
        BY DEF V
      <4> QED BY <4>1, LenProperties
    <3> QED BY <3>1
  <2>2. groups \in Seq(V)
    OBVIOUS
  <2> HIDE DEF V
  <2>3. \A i \in 1..n : groups[i] \in V
    BY <2>2, ElementOfSeq
  <2> QED BY <2>1, <2>3
<1>2. Front(groups) = f /\ Last(groups) = g
  BY DEF Front, Last
<1>3. f \in Seq(V)
  <2>1. \A i \in one..m : groups[i] \in V
    BY <1>1
  <2> HIDE DEF V, one, m, n
  <2> QED BY <1>1, <2>1, SubSeqProperties
<1>4. g \in V
  BY <1>1
<1>5. groups = Append(f, g)
  <2>1. one \in 1..Len(groups) /\ n \in one..Len(groups)
    BY <1>1
  <2> HIDE DEF V, one, n, m, f
  <2>2. SubSeq(groups, one, n) = SubSeq(groups, one, n - 1) \o <<groups[n]>>
    BY <2>1, SubSeqRecursiveSecond DEF V
  <2>3. SubSeq(groups, one, n) = groups
    <3>1. SubSeq(groups, 1, Len(groups)) = groups
      BY SubSeqFull
    <3> QED BY <1>1, <3>1 DEF n
  <2>4. f \o <<groups[n]>> = Append(f, groups[n])
    BY <1>3, <1>4, AppendIsConcat
  <2> QED BY <2>2, <2>3, <2>4 DEF f, m
<1> HIDE DEF f, g
<1>6. FlattenSeq(f) \in Seq(X) /\ FlattenSeq(Append(f, g)) = FlattenSeq(f) \o g
  BY <1>3, <1>4, FlattenOneMore
<1> QED BY <1>2, <1>3, <1>4, <1>5, <1>6

-----------------------------------------------------------------------------
(* Pieces of a text, and their groups of digits. *)

\* A piece from a place to another, and from one past it.
LEMMA PieceIs ==
    ASSUME NEW X, NEW s \in Seq(X), NEW a \in 0..Len(s), NEW b \in a..Len(s)
    PROVE  /\ SubSeq(s, a + 1, b) \in Seq(X)
           /\ Len(SubSeq(s, a + 1, b)) = b - a
           /\ \A i \in 1..(b - a) : SubSeq(s, a + 1, b)[i] = s[a + i]
<1> DEFINE from == a + 1
<1>1. Len(s) \in Nat /\ from \in Int /\ b \in Int /\ a \in Int /\ b >= a
  BY LenProperties
<1>2. \A i \in from..b : s[i] \in X
  <2>1. \A i \in from..b : i \in 1..Len(s)
    BY <1>1
  <2> QED BY <2>1, ElementOfSeq
<1>3. /\ (IF from <= b THEN b - from + 1 ELSE 0) = b - a
      /\ b - from + 1 = b - a
      /\ \A i \in 1..(b - a) : from + i - 1 = a + i
  BY <1>1
<1> HIDE DEF from
<1>4. /\ SubSeq(s, from, b) \in Seq(X)
      /\ Len(SubSeq(s, from, b)) = IF from <= b THEN b - from + 1 ELSE 0
      /\ \A i \in 1..(b - from + 1) : SubSeq(s, from, b)[i] = s[from + i - 1]
  BY <1>1, <1>2, SubSeqProperties
<1>5. \A i \in 1..(b - a) : SubSeq(s, from, b)[i] = s[a + i]
  BY <1>3, <1>4
<1> QED BY <1>3, <1>4, <1>5 DEF from

\* A piece of a text is one of the text it begins with, if it ends there.
LEMMA PieceOfFirst ==
    ASSUME NEW X, NEW u \in Seq(X), NEW v \in Seq(X), NEW a \in 0..Len(u), NEW b \in a..Len(u)
    PROVE  SubSeq(u \o v, a + 1, b) = SubSeq(u, a + 1, b)
<1> DEFINE t == u \o v
           p == SubSeq(t, a + 1, b)
           q == SubSeq(u, a + 1, b)
<1>1. t \in Seq(X) /\ Len(t) = Len(u) + Len(v) /\ Len(u) \in Nat /\ Len(v) \in Nat
      /\ \A i \in 1..Len(u) : t[i] = u[i]
  BY ConcatProperties, LenProperties
<1>2. a \in 0..Len(t) /\ b \in a..Len(t)
  BY <1>1
<1> HIDE DEF t
<1>3. p \in Seq(X) /\ Len(p) = b - a /\ \A i \in 1..(b - a) : p[i] = t[a + i]
  BY <1>1, <1>2, PieceIs
<1>4. q \in Seq(X) /\ Len(q) = b - a /\ \A i \in 1..(b - a) : q[i] = u[a + i]
  BY PieceIs
<1>5. \A i \in 1..(b - a) : a + i \in 1..Len(u)
  BY <1>1
<1> HIDE DEF p, q
<1>6. p = q
  BY <1>1, <1>3, <1>4, <1>5, SeqEqual
<1> QED BY <1>6 DEF p, q, t

\* And of the text it ends with, if it begins there.
LEMMA PieceOfSecond ==
    ASSUME NEW X, NEW u \in Seq(X), NEW v \in Seq(X), NEW a \in 0..Len(v), NEW b \in a..Len(v)
    PROVE  SubSeq(u \o v, Len(u) + a + 1, Len(u) + b) = SubSeq(v, a + 1, b)
<1> DEFINE t == u \o v
           k == Len(u) + a
           m == Len(u) + b
           p == SubSeq(t, k + 1, m)
           q == SubSeq(v, a + 1, b)
<1>1. t \in Seq(X) /\ Len(t) = Len(u) + Len(v) /\ Len(u) \in Nat /\ Len(v) \in Nat
      /\ \A i \in 1..(Len(u) + Len(v)) : t[i] = IF i <= Len(u) THEN u[i] ELSE v[i - Len(u)]
  BY ConcatProperties, LenProperties
<1>2. k \in 0..Len(t) /\ m \in k..Len(t) /\ m - k = b - a
  BY <1>1
<1> HIDE DEF t, k, m
<1>3. p \in Seq(X) /\ Len(p) = m - k /\ \A i \in 1..(m - k) : p[i] = t[k + i]
  BY <1>1, <1>2, PieceIs
<1>4. q \in Seq(X) /\ Len(q) = b - a /\ \A i \in 1..(b - a) : q[i] = v[a + i]
  BY PieceIs
<1>5. ASSUME NEW i \in 1..(b - a) PROVE t[k + i] = v[a + i]
  <2>1. k + i \in 1..(Len(u) + Len(v)) /\ ~(k + i <= Len(u)) /\ (k + i) - Len(u) = a + i
    BY <1>1 DEF k
  <2> QED BY <1>1, <2>1
<1> HIDE DEF p, q
<1>6. p = q
  BY <1>2, <1>3, <1>4, <1>5, SeqEqual
<1> QED BY <1>6 DEF p, q, t, k, m

\* A piece of digits is one group.
LEMMA GroupsOfDigits ==
    ASSUME NEW X, NEW d \in Seq(X), \A i \in 1..Len(d) : d[i] \in Digits
    PROVE  Groups(d) = <<d>> /\ Marks(d) = <<>>
<1>1. Others(d) = {}
  BY LenProperties DEF Others, IsDigit
<1> DEFINE L == Len(d)
<1>a. PICK n \in Nat : \E cuts \in [1..(n + 2) -> Int] : AreCuts(d, n, cuts)
  BY GroupsAre
<1>2. PICK cuts \in [1..(n + 2) -> Int] : AreCuts(d, n, cuts)
  BY <1>a
<1>3. n = 0
  BY <1>1, <1>2, FS_EmptySet DEF AreCuts
<1>4. L \in Nat
  BY LenProperties
<1>5. cuts[1] + 1 = 1 /\ cuts[1 + 1] - 1 = L
  BY <1>2, <1>3, <1>4 DEF AreCuts
<1>6. SubSeq(d, 1, L) = d
  BY SubSeqFull
<1> HIDE DEF L
<1>7. Groups(d) = [i \in 1..1 |-> d]
  <2>1. \A i \in 1..1 : SubSeq(d, cuts[i] + 1, cuts[i + 1] - 1) = d
    <3>1. \A i \in 1..1 : i = 1
      OBVIOUS
    <3> QED BY <1>5, <1>6, <3>1
  <2>2. 1..(n + 1) = 1..1
    BY <1>3
  <2> QED BY <1>2, <2>1, <2>2 DEF AreCuts
<1>8. Marks(d) = <<>>
  <2>1. Marks(d) = AtPlaces(d, {})
    BY <1>1, GroupsAre
  <2> QED BY <2>1, NothingIsAscending DEF AtPlaces
<1>9. [i \in 1..1 |-> d] = <<d>>
  OBVIOUS
<1> QED BY <1>7, <1>8, <1>9

\* The parts of three sequences one after another.
LEMMA ThreeParts ==
    ASSUME NEW X, NEW p \in Seq(X), NEW m \in X, NEW d \in Seq(X)
    PROVE  LET q == (p \o <<m>>) \o d IN
           /\ q \in Seq(X) /\ Len(q) = Len(p) + 1 + Len(d)
           /\ \A i \in 1..Len(p) : q[i] = p[i]
           /\ q[Len(p) + 1] = m
           /\ \A i \in 1..Len(d) : q[Len(p) + 1 + i] = d[i]
<1> DEFINE one == <<m>>
           f == p \o one
<1>1. one \in Seq(X) /\ Len(one) = 1 /\ one[1] = m
  OBVIOUS
<1> HIDE DEF one
<1>a. Len(p) \in Nat /\ Len(d) \in Nat
  BY LenProperties
<1>b. /\ f \in Seq(X) /\ Len(f) = Len(p) + Len(one)
      /\ \A i \in 1..(Len(p) + Len(one)) : f[i] = IF i <= Len(p) THEN p[i] ELSE one[i - Len(p)]
  BY <1>1, ConcatProperties
<1>2. /\ f \in Seq(X) /\ Len(f) = Len(p) + 1 /\ Len(p) \in Nat /\ Len(d) \in Nat
      /\ \A i \in 1..(Len(p) + 1) : f[i] = IF i <= Len(p) THEN p[i] ELSE one[i - Len(p)]
  BY <1>1, <1>a, <1>b
<1>3. (\A i \in 1..Len(p) : f[i] = p[i]) /\ f[Len(p) + 1] = m
  BY <1>1, <1>2
<1> HIDE DEF f
<1> DEFINE q == f \o d
<1>c. f \in Seq(X)
  BY <1>2
<1>4. /\ q \in Seq(X) /\ Len(q) = Len(f) + Len(d)
      /\ \A i \in 1..(Len(f) + Len(d)) : q[i] = IF i <= Len(f) THEN f[i] ELSE d[i - Len(f)]
  BY <1>c, ConcatProperties
<1> HIDE DEF q
<1>5. \A i \in 1..Len(p) : q[i] = p[i]
  BY <1>2, <1>3, <1>4
<1>6. q[Len(p) + 1] = m
  BY <1>2, <1>3, <1>4
<1>7. ASSUME NEW i \in 1..Len(d) PROVE q[Len(p) + 1 + i] = d[i]
  <2>1. Len(p) + 1 + i \in 1..(Len(f) + Len(d)) /\ ~(Len(p) + 1 + i <= Len(f))
        /\ (Len(p) + 1 + i) - Len(f) = i
    BY <1>2
  <2> QED BY <1>4, <2>1
<1> QED BY <1>2, <1>4, <1>5, <1>6, <1>7 DEF q, f, one

\* A mark after a piece, and digits after it, are one more mark and one more group.
LEMMA OneMoreGroup ==
    ASSUME NEW X, NEW p \in Seq(X), NEW m \in X \ Digits,
           NEW d \in Seq(X), \A i \in 1..Len(d) : d[i] \in Digits
    PROVE  /\ Groups((p \o <<m>>) \o d) = Append(Groups(p), d)
           /\ Marks((p \o <<m>>) \o d) = Append(Marks(p), m)
<1> DEFINE q == (p \o <<m>>) \o d
           L == Len(p)
           A == Others(p)
           B == Others(q)
           h == L + 1
<1>1. /\ q \in Seq(X) /\ Len(q) = h + Len(d)
      /\ \A i \in 1..L : q[i] = p[i]
      /\ q[h] = m
      /\ \A i \in 1..Len(d) : q[h + i] = d[i]
  BY ThreeParts
<1>2. L \in Nat /\ Len(d) \in Nat /\ DOMAIN p = 1..L /\ DOMAIN q = 1..(h + Len(d)) /\ h \in Nat
  BY <1>1, LenProperties
<1> HIDE DEF q
<1>3. B = A \cup {h}
  <2>1. ASSUME NEW i \in 1..(h + Len(d)) PROVE i \in B <=> i \in A \cup {h}
    <3>1. CASE i \in 1..L
      BY <1>1, <1>2, <3>1 DEF Others, IsDigit
    <3>2. CASE i = h
      BY <1>1, <1>2, <3>2 DEF Others, IsDigit
    <3>3. CASE i > h
      <4>1. i - h \in 1..Len(d) /\ h + (i - h) = i /\ i \notin 1..L /\ i # h
        BY <1>2, <3>3
      <4>2. q[i] \in Digits
        BY <1>1, <4>1
      <4> QED BY <1>2, <4>1, <4>2 DEF Others, IsDigit
    <3> QED BY <1>2, <3>1, <3>2, <3>3
  <2>2. B \subseteq 1..(h + Len(d)) /\ A \cup {h} \subseteq 1..(h + Len(d))
    BY <1>2 DEF Others
  <2> QED BY <2>1, <2>2
<1>4. A \in SUBSET (1..L) /\ IsFiniteSet(A) /\ A \in SUBSET Int /\ \A i \in A : i < h
  <2>1. A \in SUBSET (1..L)
    BY <1>2 DEF Others
  <2>2. IsFiniteSet(A) /\ A \in SUBSET Int
    <3> HIDE DEF A
    <3> QED BY <2>1, PlacesIs
  <2> HIDE DEF A
  <2> QED BY <1>2, <2>1, <2>2
<1> HIDE DEF A, B
<1>5. /\ Cardinality(B) = Cardinality(A) + 1 /\ Cardinality(A) \in Nat
      /\ \A k \in 1..Cardinality(A) : Ascending(B)[k] = Ascending(A)[k]
      /\ Ascending(B)[Cardinality(A) + 1] = h
  <2>1. A \in SUBSET Int /\ IsFiniteSet(A) /\ h \in Int /\ \A i \in A : i < h
    BY <1>2, <1>4
  <2> HIDE DEF h
  <2>2. /\ Cardinality(A \cup {h}) = Cardinality(A) + 1 /\ Cardinality(A) \in Nat
        /\ \A k \in 1..Cardinality(A) : Ascending(A \cup {h})[k] = Ascending(A)[k]
        /\ Ascending(A \cup {h})[Cardinality(A) + 1] = h
    BY <2>1, AscendingOneMore
  <2> QED BY <1>3, <2>2
<1>a. PICK n \in Nat : \E cuts \in [1..(n + 2) -> Int] : AreCuts(p, n, cuts)
  BY GroupsAre
<1>b. PICK c \in [1..(n + 2) -> Int] : AreCuts(p, n, c)
  BY <1>a
<1>6. /\ c[1] = 0 /\ c[n + 2] = L + 1
      /\ \A i \in 1..(n + 1) : c[i] \in 0..L /\ c[i] < c[i + 1] /\ c[i + 1] <= L + 1
      /\ Groups(p) = [i \in 1..(n + 1) |-> SubSeq(p, c[i] + 1, c[i + 1] - 1)]
      /\ n = Cardinality(A)
      /\ \A i \in 2..(n + 1) : c[i] = Ascending(A)[i - 1]
  BY <1>b DEF AreCuts, A
<1>c. PICK r \in Nat : \E cuts \in [1..(r + 2) -> Int] : AreCuts(q, r, cuts)
  BY <1>1, GroupsAre
<1>d. PICK e \in [1..(r + 2) -> Int] : AreCuts(q, r, e)
  BY <1>c
<1>7. /\ e[1] = 0 /\ e[r + 2] = Len(q) + 1
      /\ Groups(q) = [i \in 1..(r + 1) |-> SubSeq(q, e[i] + 1, e[i + 1] - 1)]
      /\ r = Cardinality(B)
      /\ \A i \in 2..(r + 1) : e[i] = Ascending(B)[i - 1]
  BY <1>d DEF AreCuts, B
<1>8. r = n + 1 /\ n = Cardinality(A)
  BY <1>5, <1>6, <1>7
<1>9. ASSUME NEW i \in 1..(n + 2) PROVE e[i] = c[i]
  <2>1. CASE i = 1
    BY <1>6, <1>7, <2>1
  <2>2. CASE i \in 2..(n + 1)
    <3>1. i - 1 \in 1..Cardinality(A) /\ i \in 2..(r + 1)
      BY <1>8, <2>2
    <3>2. e[i] = Ascending(B)[i - 1]
      BY <1>7, <3>1
    <3>3. c[i] = Ascending(A)[i - 1]
      BY <1>6, <2>2
    <3> QED BY <1>5, <3>1, <3>2, <3>3
  <2>3. CASE i = n + 2
    <3>1. i \in 2..(r + 1) /\ i - 1 = Cardinality(A) + 1
      BY <1>8, <2>3
    <3>2. e[i] = Ascending(B)[i - 1]
      BY <1>7, <3>1
    <3> QED BY <1>5, <1>6, <2>3, <3>1, <3>2
  <2> QED BY <2>1, <2>2, <2>3
<1>10. ASSUME NEW i \in 1..(n + 1)
       PROVE  SubSeq(q, e[i] + 1, e[i + 1] - 1) = SubSeq(p, c[i] + 1, c[i + 1] - 1)
  <2> DEFINE a == c[i]
             b == c[i + 1] - 1
  <2>1. i \in 1..(n + 2) /\ i + 1 \in 1..(n + 2) /\ c[i] \in Int /\ c[i + 1] \in Int
    OBVIOUS
  <2>2. a \in 0..Len(p) /\ b \in a..Len(p) /\ e[i] = a /\ e[i + 1] - 1 = b
    <3>1. a \in 0..L /\ c[i] < c[i + 1] /\ c[i + 1] <= L + 1
      BY <1>6
    <3>2. e[i] = a /\ e[i + 1] = c[i + 1]
      BY <1>9, <2>1
    <3> QED BY <1>2, <2>1, <3>1, <3>2
  <2> HIDE DEF a, b
  <2> DEFINE v == <<m>> \o d
  <2>3. v \in Seq(X) /\ q = p \o v
    <3>1. <<m>> \in Seq(X)
      OBVIOUS
    <3> DEFINE one == <<m>>
    <3> HIDE DEF one
    <3>2. one \o d \in Seq(X) /\ (p \o one) \o d = p \o (one \o d)
      BY <3>1, ConcatProperties, ConcatAssociative DEF one
    <3> QED BY <3>2 DEF one, q
  <2> HIDE DEF v
  <2>4. SubSeq(p \o v, a + 1, b) = SubSeq(p, a + 1, b)
    BY <2>2, <2>3, PieceOfFirst
  <2> QED BY <2>2, <2>3, <2>4 DEF a, b
<1>11. SubSeq(q, e[n + 2] + 1, e[n + 3] - 1) = d
  <2>1. e[n + 2] = h /\ e[n + 3] = Len(q) + 1
    <3>1. n + 2 \in 1..(n + 2) /\ r + 2 = n + 3
      BY <1>8
    <3>2. e[n + 2] = L + 1
      BY <1>6, <1>9, <3>1
    <3> QED BY <1>7, <3>1, <3>2
  <2>2. e[n + 2] + 1 = h + 1 /\ e[n + 3] - 1 = Len(q)
    BY <1>1, <1>2, <2>1
  <2>3. h \in 0..Len(q) /\ Len(q) \in h..Len(q) /\ Len(q) - h = Len(d)
    BY <1>1, <1>2
  <2> DEFINE g == SubSeq(q, h + 1, Len(q))
  <2>4. g \in Seq(X) /\ Len(g) = Len(q) - h /\ \A i \in 1..(Len(q) - h) : g[i] = q[h + i]
    <3> DEFINE z == Len(q)
    <3>1. q \in Seq(X) /\ h \in 0..Len(q) /\ z \in h..Len(q) /\ z = Len(q)
      BY <1>1, <2>3
    <3> HIDE DEF h, z
    <3>2. /\ SubSeq(q, h + 1, z) \in Seq(X) /\ Len(SubSeq(q, h + 1, z)) = z - h
          /\ \A i \in 1..(z - h) : SubSeq(q, h + 1, z)[i] = q[h + i]
      BY <3>1, PieceIs
    <3> QED BY <3>1, <3>2
  <2> HIDE DEF g, h
  <2>5. g = d
    <3>1. Len(g) = Len(d) /\ \A i \in 1..Len(g) : g[i] = d[i]
      BY <1>1, <2>3, <2>4
    <3> QED BY <2>4, <3>1, SeqEqual
  <2> QED BY <2>2, <2>5 DEF g
<1>12. Groups(q) = Append(Groups(p), d)
  <2> DEFINE V == Seq(X)
             G == Groups(p)
             H == Groups(q)
             two == Append(G, d)
  <2>1. G \in Seq(V) /\ Len(G) = n + 1
    <3>1. G \in Seq(V)
      BY GroupsKeepDigits
    <3>2. DOMAIN G = 1..(n + 1)
      BY <1>6
    <3> HIDE DEF V, G
    <3>3. Len(G) \in Nat /\ DOMAIN G = 1..Len(G)
      BY <3>1, LenProperties
    <3> QED BY <3>1, <3>2, <3>3
  <2>2. H \in Seq(V) /\ Len(H) = n + 2
    <3>1. H \in Seq(V)
      BY <1>1, GroupsKeepDigits
    <3>2. DOMAIN H = 1..(n + 2)
      BY <1>7, <1>8
    <3> HIDE DEF V, H
    <3>3. Len(H) \in Nat /\ DOMAIN H = 1..Len(H)
      BY <3>1, LenProperties
    <3> QED BY <3>1, <3>2, <3>3
  <2>3. \A i \in 1..(n + 1) : H[i] = G[i]
    <3>1. \A i \in 1..(n + 1) : i \in 1..(r + 1)
      BY <1>8
    <3> DEFINE Cut(i) == SubSeq(p, c[i] + 1, c[i + 1] - 1)
               Here(i) == SubSeq(q, e[i] + 1, e[i + 1] - 1)
    <3>2. \A i \in 1..(n + 1) : Here(i) = Cut(i)
      BY <1>10
    <3>3. G = [i \in 1..(n + 1) |-> Cut(i)] /\ H = [i \in 1..(r + 1) |-> Here(i)]
      BY <1>6, <1>7
    <3> HIDE DEF Cut, Here, G, H
    <3> QED BY <3>1, <3>2, <3>3
  <2>4. H[n + 2] = d
    <3>1. n + 2 \in 1..(r + 1) /\ (n + 2) + 1 = n + 3
      BY <1>8
    <3> QED BY <1>7, <1>11, <3>1
  <2>5. d \in V
    OBVIOUS
  <2> HIDE DEF V, G, H
  <2>6. /\ two \in Seq(V) /\ Len(two) = Len(G) + 1
        /\ \A i \in 1..Len(G) : two[i] = G[i]
        /\ two[Len(G) + 1] = d
    BY <2>1, <2>5, AppendProperties
  <2> HIDE DEF two
  <2>7. \A i \in 1..Len(H) : H[i] = two[i]
    <3>1. ASSUME NEW i \in 1..(n + 2) PROVE H[i] = two[i]
      <4>1. CASE i = n + 2
        BY <2>1, <2>4, <2>6, <4>1
      <4>2. CASE i # n + 2
        <5>1. i \in 1..(n + 1)
          BY <4>2
        <5> QED BY <2>1, <2>3, <2>6, <5>1
      <4> QED BY <4>1, <4>2
    <3> QED BY <2>2, <3>1
  <2>8. H = two
    BY <2>1, <2>2, <2>6, <2>7, SeqEqual
  <2> QED BY <2>8 DEF H, two, G
<1>13. Marks(q) = Append(Marks(p), m)
  <2> DEFINE M == Marks(p)
             N == Marks(q)
             k == Cardinality(A)
             two == Append(M, m)
  <2>1. M = AtPlaces(p, A) /\ N = AtPlaces(q, B)
    BY <1>1, GroupsAre DEF A, B
  <2>2. /\ M \in Seq(X) /\ Len(M) = k
        /\ \A i \in 1..k : Ascending(A)[i] \in A /\ M[i] = p[Ascending(A)[i]]
    <3>1. A \in SUBSET (1..Len(p))
      BY <1>4
    <3>2. /\ AtPlaces(p, A) \in Seq(X) /\ Len(AtPlaces(p, A)) = Cardinality(A)
          /\ \A i \in 1..Cardinality(A) :
                Ascending(A)[i] \in A /\ AtPlaces(p, A)[i] = p[Ascending(A)[i]]
      BY <3>1, PlacesIs
    <3> HIDE DEF M
    <3> QED BY <2>1, <3>2
  <2>3. B \in SUBSET (1..Len(q))
    <3>1. B \subseteq DOMAIN q
      BY DEF B, Others
    <3>2. DOMAIN q = 1..Len(q)
      BY <1>1, <1>2
    <3> QED BY <3>1, <3>2
  <2>4. /\ N \in Seq(X) /\ Len(N) = Cardinality(B)
        /\ \A i \in 1..Cardinality(B) : N[i] = q[Ascending(B)[i]]
    <3> HIDE DEF N
    <3> QED BY <1>1, <2>1, <2>3, PlacesIs
  <2> HIDE DEF M, N
  <2>5. /\ two \in Seq(X) /\ Len(two) = k + 1
        /\ \A i \in 1..k : two[i] = M[i]
        /\ two[k + 1] = m
    BY <2>2, AppendProperties
  <2> HIDE DEF two
  <2>6. ASSUME NEW i \in 1..(k + 1) PROVE N[i] = two[i]
    <3>1. CASE i = k + 1
      <4>1. N[i] = q[h]
        BY <1>5, <2>4, <3>1
      <4> QED BY <1>1, <2>5, <3>1, <4>1
    <3>2. CASE i # k + 1
      <4>1. i \in 1..k /\ i \in 1..Cardinality(B)
        BY <1>5, <3>2
      <4>2. N[i] = q[Ascending(A)[i]] /\ Ascending(A)[i] \in 1..L
        BY <1>4, <1>5, <2>2, <2>4, <4>1
      <4> QED BY <1>1, <2>2, <2>5, <4>1, <4>2
    <3> QED BY <3>1, <3>2
  <2>7. N = two
    BY <1>5, <2>4, <2>5, <2>6, SeqEqual
  <2> QED BY <2>7 DEF N, two, M
<1> QED BY <1>12, <1>13 DEF q

\* The characters that a number may be written with.
Figured == Digits \cup {Space, Point, Comma}

\* The marks of a piece are its characters that are not digits.
LEMMA MarksAre ==
    ASSUME NEW X, NEW piece \in Seq(X)
    PROVE  /\ Marks(piece) \in Seq(X)
           /\ \A i \in 1..Len(piece) : piece[i] \notin Digits =>
                 \E k \in 1..Len(Marks(piece)) : Marks(piece)[k] = piece[i]
           /\ \A k \in 1..Len(Marks(piece)) :
                 \E i \in 1..Len(piece) : Marks(piece)[k] = piece[i] /\ piece[i] \notin Digits
<1> DEFINE A == Others(piece)
           M == Marks(piece)
           n == Cardinality(A)
<1>1. A \in SUBSET (1..Len(piece))
  BY LenProperties DEF Others
<1>2. \A i \in 1..Len(piece) : i \in A <=> piece[i] \notin Digits
  BY LenProperties DEF Others, IsDigit
<1>3. M = AtPlaces(piece, A)
  BY GroupsAre
<1> HIDE DEF A, M
<1>4. /\ IsFiniteSet(A) /\ A \in SUBSET Int /\ n \in Nat
      /\ AtPlaces(piece, A) \in Seq(X) /\ Len(AtPlaces(piece, A)) = n
      /\ \A k \in 1..n : Ascending(A)[k] \in A /\ AtPlaces(piece, A)[k] = piece[Ascending(A)[k]]
  BY <1>1, PlacesIs
<1>5. \A i \in A : \E k \in 1..n : Ascending(A)[k] = i
  BY <1>4, AscendingIs
<1>6. M \in Seq(X) /\ Len(M) = n /\ \A k \in 1..n : Ascending(A)[k] \in A /\ M[k] = piece[Ascending(A)[k]]
  BY <1>3, <1>4
<1>7. ASSUME NEW i \in 1..Len(piece), piece[i] \notin Digits
      PROVE  \E k \in 1..Len(M) : M[k] = piece[i]
  <2>1. PICK k \in 1..n : Ascending(A)[k] = i
    BY <1>2, <1>5, <1>7
  <2> QED BY <1>6, <2>1
<1>8. ASSUME NEW k \in 1..Len(M)
      PROVE  \E i \in 1..Len(piece) : M[k] = piece[i] /\ piece[i] \notin Digits
  <2>1. Ascending(A)[k] \in A /\ M[k] = piece[Ascending(A)[k]]
    BY <1>6
  <2> QED BY <1>1, <1>2, <2>1
<1> QED BY <1>6, <1>7, <1>8 DEF M

\* All but the last of a sequence.
LEMMA FrontIs ==
    ASSUME NEW X, NEW s \in Seq(X), Len(s) >= 1
    PROVE  /\ Front(s) \in Seq(X) /\ Len(Front(s)) = Len(s) - 1
           /\ \A i \in 1..(Len(s) - 1) : Front(s)[i] = s[i]
           /\ Last(s) = s[Len(s)]
<1> DEFINE k == Len(s) - 1
<1>1. k \in 0..Len(s)
  BY LenProperties
<1>2. Front(s) = SubSeq(s, 1, k) /\ Last(s) = s[Len(s)]
  BY DEF Front, Last
<1> HIDE DEF k
<1>3. SubSeq(s, 1, k) \in Seq(X) /\ Len(SubSeq(s, 1, k)) = k /\ \A i \in 1..k : SubSeq(s, 1, k)[i] = s[i]
  BY <1>1, CutInTwo
<1> QED BY <1>2, <1>3 DEF k

\* What was appended is the last, and what it was appended to is the rest.
LEMMA FrontOfAppend ==
    ASSUME NEW X, NEW s \in Seq(X), NEW x \in X
    PROVE  Front(Append(s, x)) = s /\ Last(Append(s, x)) = x
<1> DEFINE t == Append(s, x)
<1>1. /\ t \in Seq(X) /\ Len(t) = Len(s) + 1 /\ Len(s) \in Nat
      /\ \A i \in 1..Len(s) : t[i] = s[i]
      /\ t[Len(s) + 1] = x
  BY AppendProperties, LenProperties
<1> HIDE DEF t
<1>2. Len(t) >= 1
  BY <1>1
<1>3. /\ Front(t) \in Seq(X) /\ Len(Front(t)) = Len(t) - 1
      /\ \A i \in 1..(Len(t) - 1) : Front(t)[i] = t[i]
      /\ Last(t) = t[Len(t)]
  BY <1>1, <1>2, FrontIs
<1>4. Len(Front(t)) = Len(s) /\ \A i \in 1..Len(Front(t)) : Front(t)[i] = s[i]
  BY <1>1, <1>3
<1>5. Front(t) = s
  BY <1>3, <1>4, SeqEqual
<1> QED BY <1>1, <1>3, <1>5 DEF t

\* With a mark at its end a piece has an empty group.
LEMMA EmptyAfterMark ==
    ASSUME NEW X, NEW piece \in Seq(X), Len(piece) >= 1, piece[Len(piece)] \notin Digits
    PROVE  /\ Groups(piece) \in Seq(Seq(X)) /\ Len(Groups(piece)) >= 2
           /\ Groups(piece)[Len(Groups(piece))] = <<>>
<1> DEFINE L == Len(piece)
           k == L - 1
           p == SubSeq(piece, 1, k)
           m == piece[L]
           one == 1
<1>1. L \in Nat /\ k \in 0..L /\ m \in X \ Digits
  BY LenProperties, ElementOfSeq
<1>2. p \in Seq(X)
  <2> HIDE DEF k
  <2> QED BY <1>1, CutInTwo
<1>3. piece = p \o <<m>>
  <2>1. one \in 1..Len(piece) /\ L \in one..Len(piece)
    BY <1>1
  <2> HIDE DEF one, L
  <2>2. SubSeq(piece, one, L) = SubSeq(piece, one, L - 1) \o <<piece[L]>>
    BY <2>1, SubSeqRecursiveSecond
  <2>3. SubSeq(piece, 1, Len(piece)) = piece
    BY SubSeqFull
  <2> QED BY <2>2, <2>3 DEF one, L
<1> HIDE DEF p, m
<1> DEFINE e == <<>>
<1>4. e \in Seq(X) /\ \A i \in 1..Len(e) : e[i] \in Digits
  OBVIOUS
<1>5. piece = (p \o <<m>>) \o e
  BY <1>3, ConcatEmptySeq
<1> HIDE DEF e
<1>6. Groups((p \o <<m>>) \o e) = Append(Groups(p), e)
  BY <1>1, <1>2, <1>4, OneMoreGroup
<1> DEFINE V == Seq(X)
<1>8. Groups(p) \in Seq(V) /\ Len(Groups(p)) \in Nat /\ Len(Groups(p)) >= 1
  <2>1. Groups(p) \in Seq(V) /\ Len(Groups(p)) = Len(Marks(p)) + 1
    BY <1>2, GroupsKeepDigits
  <2>2. Len(Marks(p)) \in Nat
    BY <1>2, GroupsAre, LenProperties
  <2> QED BY <2>1, <2>2
<1>9. e \in V
  BY <1>4
<1> HIDE DEF V
<1>10. /\ Append(Groups(p), e) \in Seq(V)
       /\ Len(Append(Groups(p), e)) = Len(Groups(p)) + 1
       /\ Append(Groups(p), e)[Len(Groups(p)) + 1] = e
  BY <1>8, <1>9, AppendProperties
<1>11. /\ Groups(piece) \in Seq(V) /\ Len(Groups(piece)) >= 2
       /\ Groups(piece)[Len(Groups(piece))] = e
  <2>1. Groups(piece) = Append(Groups(p), e)
    BY <1>5, <1>6
  <2> QED BY <1>8, <1>10, <2>1
<1> QED BY <1>11 DEF V, e

\* What a token is written with: digits and marks, and at last a digit; a space is
\* in it exactly if it is of the first alternative.
LEMMA TokenChars ==
    ASSUME NEW X, NEW piece \in Seq(X), IsSpaced(piece) \/ IsPlain(piece)
    PROVE  /\ \A i \in 1..Len(piece) : piece[i] \in Figured
           /\ Len(piece) >= 1 => piece[Len(piece)] \in Digits
           /\ IsSpaced(piece) => \E i \in 1..Len(piece) : piece[i] = Space
           /\ IsPlain(piece) => \A i \in 1..Len(piece) : piece[i] # Space
<1> DEFINE M == Marks(piece)
           G == Groups(piece)
           Decimals(d) == HasDecimals(G, M, Space, d)
<1>1. /\ M \in Seq(X)
      /\ \A i \in 1..Len(piece) : piece[i] \notin Digits => \E k \in 1..Len(M) : M[k] = piece[i]
      /\ \A k \in 1..Len(M) : \E i \in 1..Len(piece) : M[k] = piece[i] /\ piece[i] \notin Digits
  BY MarksAre
<1>2. Len(M) \in Nat /\ DOMAIN M = 1..Len(M)
  BY <1>1, LenProperties
<1>3. IsSpaced(piece) <=> IsGrouped(G, M, Space) \/ Decimals(Point) \/ Decimals(Comma)
  BY DEF IsSpaced
<1>4. IsPlain(piece) <=> Range(M) \subseteq {Point, Comma} /\ <<>> \notin Range(G)
  BY DEF IsPlain
<1> HIDE DEF M
<1>5. IsGrouped(G, M, Space) => M # <<>> /\ \A k \in 1..Len(M) : M[k] = Space
  BY <1>2 DEF IsGrouped, All
<1>6. ASSUME NEW d \in {Point, Comma}, Decimals(d)
      PROVE  Len(M) > 1 /\ M[Len(M)] = d /\ \A k \in 1..(Len(M) - 1) : M[k] = Space
  <2>1. Len(M) > 1 /\ All(Front(M), Space) /\ Last(M) = d
    BY <1>6 DEF HasDecimals
  <2>a. M \in Seq(X) /\ Len(M) >= 1
    BY <1>1, <1>2, <2>1
  <2>2. /\ Front(M) \in Seq(X) /\ Len(Front(M)) = Len(M) - 1
        /\ \A i \in 1..(Len(M) - 1) : Front(M)[i] = M[i]
        /\ Last(M) = M[Len(M)]
    BY <2>a, FrontIs
  <2>3. DOMAIN Front(M) = 1..(Len(M) - 1)
    BY <2>2, LenProperties
  <2> QED BY <2>1, <2>2, <2>3 DEF All
<1>7. IsPlain(piece) => \A k \in 1..Len(M) : M[k] \in {Point, Comma}
  BY <1>2, <1>4 DEF Range
<1>8. ASSUME NEW k \in 1..Len(M) PROVE M[k] \in {Space, Point, Comma}
  <2>1. CASE IsGrouped(G, M, Space)
    BY <1>5, <2>1
  <2>2. ASSUME NEW d \in {Point, Comma}, Decimals(d) PROVE M[k] \in {Space, Point, Comma}
    <3> DEFINE n == Len(M)
    <3>1. n \in Nat /\ k \in 1..n
      BY <1>2
    <3> HIDE DEF n
    <3>2. k = n \/ k \in 1..(n - 1)
      BY <3>1
    <3> HIDE DEF Decimals
    <3> QED BY <1>6, <2>2, <3>2 DEF n
  <2>3. CASE IsPlain(piece)
    BY <1>7, <2>3
  <2> HIDE DEF Decimals
  <2> QED BY <1>3, <2>1, <2>2, <2>3
<1>9. \A i \in 1..Len(piece) : piece[i] \in Figured
  BY <1>1, <1>8 DEF Figured
<1>10. ASSUME IsSpaced(piece) PROVE \E i \in 1..Len(piece) : piece[i] = Space
  <2>1. 1 \in 1..Len(M) /\ M[1] = Space
    <3>1. CASE IsGrouped(G, M, Space)
      <4>1. Len(M) \in Nat \ {0}
        BY <1>1, <1>5, <3>1, EmptySeq
      <4> QED BY <1>5, <3>1, <4>1
    <3>2. ASSUME NEW d \in {Point, Comma}, Decimals(d) PROVE 1 \in 1..Len(M) /\ M[1] = Space
      <4> HIDE DEF Decimals
      <4>1. Len(M) > 1 /\ \A k \in 1..(Len(M) - 1) : M[k] = Space
        BY <1>6, <3>2
      <4> QED BY <1>2, <4>1
    <3> HIDE DEF Decimals
    <3> QED BY <1>3, <1>10, <3>1, <3>2
  <2> QED BY <1>1, <2>1
<1>11. ASSUME IsPlain(piece), NEW i \in 1..Len(piece), piece[i] = Space PROVE FALSE
  <2>1. Space \notin Digits /\ Space \notin {Point, Comma}
    BY DEF Space, Digits, Point, Comma
  <2> QED BY <1>1, <1>7, <1>11, <2>1
<1>12. ASSUME Len(piece) >= 1, piece[Len(piece)] \notin Digits PROVE FALSE
  <2>1. G \in Seq(Seq(X)) /\ Len(G) >= 2 /\ G[Len(G)] = <<>>
    BY <1>12, EmptyAfterMark
  <2> HIDE DEF G
  <2>2. Len(G) \in Nat /\ DOMAIN G = 1..Len(G)
    <3> DEFINE V == Seq(X)
    <3>1. G \in Seq(V)
      BY <2>1
    <3> HIDE DEF V
    <3> QED BY <3>1, LenProperties
  <2>a. <<>> \in Range(G)
    <3>1. Len(G) \in 1..Len(G)
      BY <2>1, <2>2
    <3> DEFINE last == Len(G)
    <3> HIDE DEF last
    <3>2. last \in DOMAIN G /\ G[last] = <<>>
      BY <2>1, <2>2, <3>1 DEF last
    <3>3. G[last] \in Range(G)
      BY <3>2, Zenon DEF Range
    <3> QED BY <3>2, <3>3
  <2>3. ~IsPlain(piece)
    BY <1>4, <2>a
  <2>4. ~IsGrouped(G, M, Space)
    <3>1. Len(<<>>) # 3
      OBVIOUS
    <3>2. Len(G) \in 2..Len(G)
      BY <2>1, <2>2
    <3> QED BY <2>1, <3>1, <3>2 DEF IsGrouped, InThousands
  <2>5. \A d \in {Point, Comma} : ~Decimals(d)
    BY <2>1 DEF HasDecimals, Last
  <2> HIDE DEF Decimals
  <2> QED BY <1>3, <2>3, <2>4, <2>5
<1> QED BY <1>9, <1>10, <1>11, <1>12

-----------------------------------------------------------------------------
(* The tokens of a text, and of two texts one after the other. *)

\* A token that begins at a place ends at another.
EndsAt(text, at, e) ==
    LET piece(f) == SubSeq(text, at + 1, f)
    IN  /\ e \in (at + 1)..Len(text)
        /\ \/ /\ IsSpaced(piece(e))
              /\ \A f \in (at + 1)..Len(text) : f > e => ~IsSpaced(piece(f))
           \/ /\ \A f \in (at + 1)..Len(text) : ~IsSpaced(piece(f))
              /\ IsPlain(piece(e))
              /\ \A f \in (at + 1)..Len(text) : f > e => ~IsPlain(piece(f))

\* What ends a token that begins at a place, is where TokenAt has it end.
LEMMA EndIs ==
    ASSUME NEW X, NEW text \in Seq(X), NEW at \in 0..(Len(text) - 1)
    PROVE  /\ IsDigit(text[at + 1]) => EndsAt(text, at, TokenAt(text, at).end)
           /\ \A e : EndsAt(text, at, e) => TokenAt(text, at) = [start |-> at, end |-> e]
<1> DEFINE lo == at + 1
           hi == Len(text)
           piece(f) == SubSeq(text, at + 1, f)
           spaced == {end \in lo..hi : IsSpaced(piece(end))}
           plain == {end \in lo..hi : IsPlain(piece(end))}
           ends == IF spaced # {} THEN spaced ELSE plain
<1>1. TokenAt(text, at) = [start |-> at, end |-> Max(ends)]
  BY DEF TokenAt, TokenEnd
<1>2. lo \in Int /\ hi \in Int /\ at \in Int /\ lo \in lo..hi
  BY LenProperties
<1>3. \A S \in (SUBSET (lo..hi)) \ {{}} : Max(S) \in S /\ \A n \in S : Max(S) >= n
  <2> HIDE DEF lo, hi
  <2> QED BY <1>2, MaxIsGreatest
<1>4. ASSUME IsDigit(text[at + 1])
      PROVE  EndsAt(text, at, Max(ends))
  <2>1. piece(lo) = <<text[lo]>>
    <3>1. lo \in 1..Len(text)
      BY <1>2
    <3> HIDE DEF lo
    <3>2. SubSeq(text, lo, lo) = <<text[lo]>>
      BY <3>1, OneSymbol
    <3> QED BY <3>2 DEF lo
  <2>2. lo \in plain
    BY <1>2, <1>4, <2>1, DigitIsPlain DEF IsDigit
  <2>3. ends \in (SUBSET (lo..hi)) \ {{}}
    BY <2>2
  <2> DEFINE e == Max(ends)
  <2>4. e \in ends /\ \A n \in ends : e >= n
    <3> HIDE DEF ends
    <3> QED BY <1>3, <2>3
  <2> HIDE DEF e
  <2>5. e \in lo..hi /\ e \in Int /\ \A f \in lo..hi : f \in Int
    BY <1>2, <2>4
  <2>6. CASE spaced # {}
    <3>1. e \in spaced /\ \A n \in spaced : e >= n
      BY <2>4, <2>6
    <3>2. IsSpaced(piece(e)) /\ \A f \in lo..hi : f > e => ~IsSpaced(piece(f))
      <4> HIDE DEF piece, lo, hi
      <4> QED BY <2>5, <3>1
    <3>3. EndsAt(text, at, e)
      BY <2>5, <3>2 DEF EndsAt
    <3> QED BY <3>3 DEF e
  <2>7. CASE spaced = {}
    <3>1. e \in plain /\ \A n \in plain : e >= n
      BY <2>4, <2>7
    <3>2. IsPlain(piece(e)) /\ (\A f \in lo..hi : f > e => ~IsPlain(piece(f)))
          /\ \A f \in lo..hi : ~IsSpaced(piece(f))
      <4> HIDE DEF piece, lo, hi
      <4> QED BY <2>5, <2>7, <3>1
    <3>3. EndsAt(text, at, e)
      BY <2>5, <3>2 DEF EndsAt
    <3> QED BY <3>3 DEF e
  <2> QED BY <2>6, <2>7
<1>5. ASSUME NEW e, EndsAt(text, at, e)
      PROVE  Max(ends) = e
  <2>1. e \in lo..hi /\ e \in Int /\ \A f \in lo..hi : f \in Int
    BY <1>2, <1>5 DEF EndsAt
  <2>2. \/ IsSpaced(piece(e)) /\ \A f \in lo..hi : f > e => ~IsSpaced(piece(f))
        \/ /\ \A f \in lo..hi : ~IsSpaced(piece(f))
           /\ IsPlain(piece(e)) /\ \A f \in lo..hi : f > e => ~IsPlain(piece(f))
    BY <1>5 DEF EndsAt
  <2> HIDE DEF piece, lo, hi
  <2>3. e \in ends /\ \A f \in ends : ~(f > e)
    BY <2>1, <2>2
  <2>4. ends \in (SUBSET (lo..hi)) \ {{}}
    BY <2>3
  <2> HIDE DEF ends
  <2>5. Max(ends) \in ends /\ Max(ends) >= e /\ Max(ends) \in lo..hi
    BY <1>3, <2>3, <2>4
  <2>6. Max(ends) \in Int /\ ~(Max(ends) > e)
    BY <2>1, <2>3, <2>5
  <2> QED BY <2>1, <2>5, <2>6
<1> HIDE DEF ends
<1>6. TokenAt(text, at).end = Max(ends)
  BY <1>1
<1> QED BY <1>1, <1>4, <1>5, <1>6

\* A token has no character that no number is written with.
LEMMA NotInToken ==
    ASSUME NEW X, NEW text \in Seq(X), NEW at \in 0..Len(text), NEW f \in at..Len(text),
           NEW i \in (at + 1)..f, text[i] \notin Figured
    PROVE  ~IsSpaced(SubSeq(text, at + 1, f)) /\ ~IsPlain(SubSeq(text, at + 1, f))
<1> DEFINE p == SubSeq(text, at + 1, f)
           j == i - at
<1>1. p \in Seq(X) /\ Len(p) = f - at /\ \A k \in 1..(f - at) : p[k] = text[at + k]
  BY PieceIs
<1>2. j \in 1..(f - at) /\ at + j = i
  BY LenProperties
<1> HIDE DEF p, j
<1>3. j \in 1..Len(p) /\ p[j] \notin Figured
  BY <1>1, <1>2
<1>4. ~(IsSpaced(p) \/ IsPlain(p))
  BY <1>1, <1>3, TokenChars
<1> QED BY <1>4 DEF p

\* A token that begins before such a character ends before it, wherever the text goes on.
LEMMA TokenOfFirst ==
    ASSUME NEW X, NEW u \in Seq(X), NEW v \in Seq(X), Len(v) >= 1, v[1] \notin Figured,
           NEW at \in 0..(Len(u) - 1), IsDigit(u[at + 1])
    PROVE  TokenAt(u \o v, at) = TokenAt(u, at)
<1> DEFINE t == u \o v
           e == TokenAt(u, at).end
<1>1. t \in Seq(X) /\ Len(t) = Len(u) + Len(v) /\ Len(u) \in Nat /\ Len(v) \in Nat
      /\ \A i \in 1..(Len(u) + Len(v)) : t[i] = IF i <= Len(u) THEN u[i] ELSE v[i - Len(u)]
  BY ConcatProperties, LenProperties
<1>2. t[Len(u) + 1] = v[1] /\ Len(u) + 1 \in 1..Len(t)
  BY <1>1
<1>3. EndsAt(u, at, e)
  BY EndIs
<1>4. ASSUME NEW f \in (at + 1)..Len(u)
      PROVE  SubSeq(t, at + 1, f) = SubSeq(u, at + 1, f)
  <2>1. at \in 0..Len(u) /\ f \in at..Len(u)
    BY <1>1
  <2> QED BY <2>1, PieceOfFirst
<1> HIDE DEF t, e
<1>5. ASSUME NEW f \in (at + 1)..Len(t), f > Len(u)
      PROVE  ~IsSpaced(SubSeq(t, at + 1, f)) /\ ~IsPlain(SubSeq(t, at + 1, f))
  <2> DEFINE i == Len(u) + 1
  <2>1. at \in 0..Len(t) /\ f \in at..Len(t) /\ i \in (at + 1)..f /\ t[i] \notin Figured
    BY <1>1, <1>2, <1>5
  <2> HIDE DEF i
  <2> QED BY <1>1, <2>1, NotInToken
<1>6. e \in (at + 1)..Len(t) /\ e \in (at + 1)..Len(u) /\ e \in Int
  BY <1>1, <1>3 DEF EndsAt
<1>7. \A f \in (at + 1)..Len(t) : f \in (at + 1)..Len(u) \/ f > Len(u)
  BY <1>1
<1> DEFINE lo == at + 1
           P(f) == SubSeq(t, at + 1, f)
           Q(f) == SubSeq(u, at + 1, f)
<1>8. \/ IsSpaced(Q(e)) /\ \A f \in lo..Len(u) : f > e => ~IsSpaced(Q(f))
      \/ /\ \A f \in lo..Len(u) : ~IsSpaced(Q(f))
         /\ IsPlain(Q(e)) /\ \A f \in lo..Len(u) : f > e => ~IsPlain(Q(f))
  BY <1>3 DEF EndsAt
<1>9. /\ \A f \in lo..Len(u) : P(f) = Q(f)
      /\ \A f \in lo..Len(t) : f > Len(u) => ~IsSpaced(P(f)) /\ ~IsPlain(P(f))
  BY <1>4, <1>5
<1>10. \/ IsSpaced(P(e)) /\ \A f \in lo..Len(t) : f > e => ~IsSpaced(P(f))
       \/ /\ \A f \in lo..Len(t) : ~IsSpaced(P(f))
          /\ IsPlain(P(e)) /\ \A f \in lo..Len(t) : f > e => ~IsPlain(P(f))
  <2>1. e \in lo..Len(u) /\ \A f \in lo..Len(t) : f \in lo..Len(u) \/ f > Len(u)
    BY <1>6, <1>7
  <2> HIDE DEF P, Q, lo
  <2> QED BY <1>8, <1>9, <2>1
<1>11. EndsAt(t, at, e)
  BY <1>6, <1>10 DEF EndsAt
<1>12. TokenAt(t, at) = [start |-> at, end |-> e] /\ TokenAt(u, at) = [start |-> at, end |-> e]
  <2>1. at \in 0..(Len(t) - 1)
    BY <1>1
  <2> QED BY <1>1, <1>3, <1>11, <2>1, EndIs
<1> QED BY <1>12 DEF t

\* A token does not depend on what the text begins with, but for its place.
LEMMA TokenOfSecond ==
    ASSUME NEW X, NEW u \in Seq(X), NEW v \in Seq(X),
           NEW at \in 0..(Len(v) - 1), IsDigit(v[at + 1])
    PROVE  /\ TokenAt(u \o v, Len(u) + at) =
                 [start |-> Len(u) + at, end |-> Len(u) + TokenAt(v, at).end]
           /\ TokenAt(v, at) = [start |-> at, end |-> TokenAt(v, at).end]
<1> DEFINE t == u \o v
           e == TokenAt(v, at).end
           k == Len(u)
           to == k + e
           from == k + at
<1>1. t \in Seq(X) /\ Len(t) = k + Len(v) /\ k \in Nat /\ Len(v) \in Nat
  BY ConcatProperties, LenProperties
<1>2. EndsAt(v, at, e) /\ TokenAt(v, at) = [start |-> at, end |-> e]
  <2>1. EndsAt(v, at, e)
    BY EndIs
  <2> HIDE DEF e
  <2> QED BY <2>1, EndIs
<1> DEFINE P(f) == SubSeq(t, from + 1, f)
           Q(g) == SubSeq(v, at + 1, g)
<1>3. ASSUME NEW g \in (at + 1)..Len(v)
      PROVE  P(k + g) = Q(g)
  <2>1. at \in 0..Len(v) /\ g \in at..Len(v)
    BY <1>1
  <2> QED BY <2>1, PieceOfSecond
<1> HIDE DEF t, e
<1>4. e \in (at + 1)..Len(v) /\ e \in Int
  BY <1>2 DEF EndsAt
<1>5. \/ IsSpaced(Q(e)) /\ \A g \in (at + 1)..Len(v) : g > e => ~IsSpaced(Q(g))
      \/ /\ \A g \in (at + 1)..Len(v) : ~IsSpaced(Q(g))
         /\ IsPlain(Q(e)) /\ \A g \in (at + 1)..Len(v) : g > e => ~IsPlain(Q(g))
  BY <1>2 DEF EndsAt
<1> DEFINE lo == at + 1
           R == (from + 1)..Len(t)
<1>6. /\ \A f \in R : f - k \in lo..Len(v) /\ f = k + (f - k) /\ (f > to => f - k > e)
      /\ to \in R /\ from \in 0..(Len(t) - 1)
  BY <1>1, <1>4
<1> HIDE DEF P, Q, lo, R, k
<1>7. \A f \in R : P(f) = Q(f - k) /\ f - k \in lo..Len(v) /\ (f > to => f - k > e)
  BY <1>3, <1>6 DEF lo
<1>8. P(to) = Q(e)
  BY <1>3, <1>4
<1>9. \/ IsSpaced(P(to)) /\ \A f \in R : f > to => ~IsSpaced(P(f))
      \/ /\ \A f \in R : ~IsSpaced(P(f))
         /\ IsPlain(P(to)) /\ \A f \in R : f > to => ~IsPlain(P(f))
  <2> HIDE DEF to
  <2> QED BY <1>5, <1>7, <1>8 DEF lo
<1>10. EndsAt(t, from, to)
  <2> HIDE DEF from, to
  <2> QED BY <1>6, <1>9 DEF EndsAt, P, R
<1>11. TokenAt(t, from) = [start |-> from, end |-> to]
  <2> HIDE DEF from, to
  <2> QED BY <1>1, <1>6, <1>10, EndIs
<1> QED BY <1>2, <1>11 DEF t, k, e

\* What the scan of numberTokens finds from each place of a text on.
IsScan(text, c) ==
    /\ NumberTokens(text) = c[0]
    /\ \A d \in 0..Len(text) :
          c[d] = IF DigitsFrom(text, d) = {} THEN {}
                 ELSE {NextToken(text, d)} \cup c[NextToken(text, d).end]

\* The first digit from a place on.
FirstDigit(text, from, m) ==
    /\ m \in from..(Len(text) - 1)
    /\ IsDigit(text[m + 1])
    /\ \A at \in from..(m - 1) : ~IsDigit(text[at + 1])

\* There is one, or there is no digit.
LEMMA FirstDigitIs ==
    ASSUME NEW X, NEW text \in Seq(X), NEW from \in 0..Len(text)
    PROVE  \/ DigitsFrom(text, from) = {} /\ \A at \in from..(Len(text) - 1) : ~IsDigit(text[at + 1])
           \/ \E m : FirstDigit(text, from, m)
<1> DEFINE S == DigitsFrom(text, from)
<1>1. CASE S = {}
  BY <1>1 DEF DigitsFrom
<1>2. CASE S # {}
  <2>1. /\ NextToken(text, from).start \in from..(Len(text) - 1)
        /\ \A at \in from..(NextToken(text, from).start - 1) : ~IsDigit(text[at + 1])
        /\ NextToken(text, from) \in TokensIn(text)
    BY <1>2, NextTokenIs
  <2>2. PICK at \in 0..(Len(text) - 1) : IsDigit(text[at + 1]) /\ NextToken(text, from) = TokenAt(text, at)
    BY <2>1 DEF TokensIn
  <2>3. NextToken(text, from).start = at
    <3>1. TokenAt(text, at) = [start |-> at, end |-> TokenAt(text, at).end]
      BY <2>2, TokenIs
    <3> QED BY <2>2, <3>1
  <2>4. FirstDigit(text, from, at)
    BY <2>1, <2>2, <2>3 DEF FirstDigit
  <2> QED BY <2>4
<1> QED BY <1>1, <1>2

\* The scan goes on with the token there, or is over.
LEMMA ScanSteps ==
    ASSUME NEW X, NEW text \in Seq(X), NEW c, IsScan(text, c), NEW from \in 0..Len(text)
    PROVE  /\ \A m : FirstDigit(text, from, m) =>
                 /\ c[from] = {TokenAt(text, m)} \cup c[TokenAt(text, m).end]
                 /\ TokenAt(text, m).start = m
                 /\ TokenAt(text, m).end \in (m + 1)..Len(text)
           /\ (\A at \in from..(Len(text) - 1) : ~IsDigit(text[at + 1])) => c[from] = {}
<1> DEFINE S == DigitsFrom(text, from)
<1>1. ASSUME NEW m, FirstDigit(text, from, m)
      PROVE  /\ c[from] = {TokenAt(text, m)} \cup c[TokenAt(text, m).end]
             /\ TokenAt(text, m).start = m
             /\ TokenAt(text, m).end \in (m + 1)..Len(text)
  <2>1. /\ m \in from..(Len(text) - 1) /\ IsDigit(text[m + 1])
        /\ \A at \in from..(m - 1) : ~IsDigit(text[at + 1])
        /\ m \in Int /\ Len(text) \in Nat /\ m \in 0..(Len(text) - 1)
    BY <1>1, LenProperties DEF FirstDigit
  <2>2. m \in S /\ \A at \in S : m <= at /\ at \in Int
    <3>1. m \in S
      BY <2>1 DEF DigitsFrom
    <3>2. ASSUME NEW at \in S PROVE m <= at /\ at \in Int
      <4>1. at \in from..(Len(text) - 1) /\ IsDigit(text[at + 1])
        BY DEF DigitsFrom
      <4> QED BY <2>1, <4>1
    <3> QED BY <3>1, <3>2
  <2> HIDE DEF S
  <2>3. Min(S) = m
    <3>1. S \in (SUBSET Nat) \ {{}}
      <4>1. \A at \in S : at \in Nat
        BY <2>1, <2>2
      <4> QED BY <2>2, <4>1
    <3>2. Min(S) \in S /\ \A n \in S : Min(S) <= n
      BY <3>1, FirstPlace
    <3>3. Min(S) \in Int /\ m \in Int /\ Min(S) <= m /\ m <= Min(S)
      <4>1. Min(S) <= m
        BY <2>2, <3>2
      <4>2. m <= Min(S) /\ Min(S) \in Int
        BY <2>2, <3>2
      <4> QED BY <2>1, <4>1, <4>2
    <3> DEFINE n == Min(S)
    <3> HIDE DEF n
    <3> QED BY <3>3 DEF n
  <2>4. NextToken(text, from) = TokenAt(text, m)
    BY <2>3 DEF NextToken, S
  <2>5. c[from] = {NextToken(text, from)} \cup c[NextToken(text, from).end]
    BY <2>2 DEF IsScan, S
  <2>6. /\ TokenAt(text, m) = [start |-> m, end |-> TokenAt(text, m).end]
        /\ TokenAt(text, m).end \in (m + 1)..Len(text)
    BY <2>1, TokenIs
  <2>7. TokenAt(text, m).start = m
    BY <2>6
  <2> QED BY <2>4, <2>5, <2>6, <2>7
<1>2. ASSUME \A at \in from..(Len(text) - 1) : ~IsDigit(text[at + 1])
      PROVE  c[from] = {}
  <2>1. S = {}
    BY <1>2 DEF DigitsFrom
  <2> QED BY <2>1 DEF IsScan
<1> QED BY <1>1, <1>2

\* It passes over what are no digits.
LEMMA ScanSkips ==
    ASSUME NEW X, NEW text \in Seq(X), NEW c, IsScan(text, c),
           NEW from \in 0..Len(text), NEW to \in from..Len(text),
           \A at \in from..(to - 1) : ~IsDigit(text[at + 1])
    PROVE  c[from] = c[to]
<1>1. to \in 0..Len(text) /\ Len(text) \in Nat /\ from \in Int
  BY LenProperties
<1>2. CASE \A at \in to..(Len(text) - 1) : ~IsDigit(text[at + 1])
  <2>1. \A at \in from..(Len(text) - 1) : ~IsDigit(text[at + 1])
    <3>1. \A at \in from..(Len(text) - 1) : at \in from..(to - 1) \/ at \in to..(Len(text) - 1)
      BY <1>1
    <3> QED BY <1>2, <3>1
  <2>2. c[from] = {}
    BY <2>1, ScanSteps
  <2>3. c[to] = {}
    BY <1>1, <1>2, ScanSteps
  <2> QED BY <2>2, <2>3
<1>3. ASSUME NEW m, FirstDigit(text, to, m) PROVE c[from] = c[to]
  <2>1. FirstDigit(text, from, m)
    <3>1. m \in to..(Len(text) - 1) /\ IsDigit(text[m + 1])
          /\ \A at \in to..(m - 1) : ~IsDigit(text[at + 1])
      BY <1>3 DEF FirstDigit
    <3>2. m \in from..(Len(text) - 1)
          /\ \A at \in from..(m - 1) : at \in from..(to - 1) \/ at \in to..(m - 1)
      BY <1>1, <3>1
    <3> QED BY <3>1, <3>2 DEF FirstDigit
  <2>2. c[to] = {TokenAt(text, m)} \cup c[TokenAt(text, m).end]
    BY <1>1, <1>3, ScanSteps
  <2>3. c[from] = {TokenAt(text, m)} \cup c[TokenAt(text, m).end]
    BY <2>1, ScanSteps
  <2> QED BY <2>2, <2>3
<1> QED BY <1>1, <1>2, <1>3, FirstDigitIs

\* The tokens of a text, as they read.
TextsOf(text, tokens) == {TextOf(text, t) : t \in tokens}
TokenTexts(text) == TextsOf(text, NumberTokens(text))

\* From some place of its second part on, a text reads as that part.
LEMMA ScanOfSecond ==
    ASSUME NEW X, NEW u \in Seq(X), NEW v \in Seq(X), NEW c, NEW b,
           IsScan(u \o v, c), IsScan(v, b), NEW d \in 0..Len(v)
    PROVE  TextsOf(u \o v, c[Len(u) + d]) = TextsOf(v, b[d])
<1> DEFINE t == u \o v
           k == Len(u)
           D == 0..Len(v)
           T == {i \in D : TextsOf(t, c[k + i]) = TextsOf(v, b[i])}
           rank == [i \in D |-> Len(v) - i]
<1>1. /\ t \in Seq(X) /\ Len(t) = k + Len(v) /\ k \in Nat /\ Len(v) \in Nat
      /\ \A i \in 1..Len(v) : t[k + i] = v[i]
  <2>1. /\ t \in Seq(X) /\ Len(t) = k + Len(v) /\ k \in Nat /\ Len(v) \in Nat
        /\ \A i \in 1..(k + Len(v)) : t[i] = IF i <= k THEN u[i] ELSE v[i - k]
    BY ConcatProperties, LenProperties
  <2> HIDE DEF t, k
  <2>2. \A i \in 1..Len(v) : k + i \in 1..(k + Len(v)) /\ ~(k + i <= k) /\ (k + i) - k = i
    BY <2>1
  <2> QED BY <2>1, <2>2
<1>2. IsScan(t, c)
  OBVIOUS
<1>3. ASSUME NEW i \in D, \A j \in D : rank[j] < rank[i] => j \in T
      PROVE  i \in T
  <2>1. k + i \in 0..Len(t)
    BY <1>1
  <2>2. CASE \A at \in i..(Len(v) - 1) : ~IsDigit(v[at + 1])
    <3>1. ASSUME NEW at \in (k + i)..(Len(t) - 1) PROVE ~IsDigit(t[at + 1])
      <4>1. at - k \in i..(Len(v) - 1) /\ (at - k) + 1 \in 1..Len(v) /\ k + ((at - k) + 1) = at + 1
        BY <1>1
      <4>2. t[at + 1] = v[(at - k) + 1]
        <5> HIDE DEF t, k
        <5>1. t[k + ((at - k) + 1)] = v[(at - k) + 1]
          BY <1>1, <4>1
        <5> QED BY <4>1, <5>1
      <4> QED BY <2>2, <4>1, <4>2
    <3> HIDE DEF t, k
    <3>2. c[k + i] = {}
      BY <1>1, <1>2, <2>1, <3>1, ScanSteps
    <3>3. b[i] = {}
      BY <2>2, ScanSteps
    <3> QED BY <3>2, <3>3 DEF TextsOf
  <2>3. ASSUME NEW m, FirstDigit(v, i, m) PROVE i \in T
    <3>1. m \in i..(Len(v) - 1) /\ IsDigit(v[m + 1]) /\ m \in 0..(Len(v) - 1) /\ m \in Int
          /\ \A at \in i..(m - 1) : ~IsDigit(v[at + 1])
      BY <2>3 DEF FirstDigit
    <3> DEFINE e == TokenAt(v, m).end
    <3>2. /\ TokenAt(t, k + m) = [start |-> k + m, end |-> k + e]
          /\ TokenAt(v, m) = [start |-> m, end |-> e]
      BY <3>1, TokenOfSecond
    <3>3. b[i] = {TokenAt(v, m)} \cup b[e] /\ e \in (m + 1)..Len(v)
      BY <2>3, ScanSteps
    <3> HIDE DEF t, k, e
    <3>4. FirstDigit(t, k + i, k + m)
      <4>1. k + m \in (k + i)..(Len(t) - 1)
        BY <1>1, <3>1
      <4>2. m + 1 \in 1..Len(v) /\ (k + m) + 1 = k + (m + 1)
        BY <1>1, <3>1
      <4>3. IsDigit(t[(k + m) + 1])
        BY <1>1, <3>1, <4>2
      <4>4. ASSUME NEW at \in (k + i)..((k + m) - 1) PROVE ~IsDigit(t[at + 1])
        <5>1. at - k \in i..(m - 1) /\ (at - k) + 1 \in 1..Len(v) /\ k + ((at - k) + 1) = at + 1
          BY <1>1, <3>1
        <5>2. t[k + ((at - k) + 1)] = v[(at - k) + 1]
          BY <1>1, <5>1
        <5> QED BY <3>1, <5>1, <5>2
      <4> QED BY <4>1, <4>3, <4>4 DEF FirstDigit
    <3>5. c[k + i] = {TokenAt(t, k + m)} \cup c[TokenAt(t, k + m).end]
      <4> DEFINE z == k + m
                 y == k + i
      <4>1. FirstDigit(t, y, z) /\ t \in Seq(X) /\ IsScan(t, c) /\ y \in 0..Len(t)
        BY <1>1, <1>2, <2>1, <3>4 DEF t, k
      <4> HIDE DEF z, y
      <4>2. c[y] = {TokenAt(t, z)} \cup c[TokenAt(t, z).end]
        BY <4>1, ScanSteps
      <4> QED BY <4>2 DEF z, y
    <3>6. c[k + i] = {TokenAt(t, k + m)} \cup c[k + e]
      <4>1. TokenAt(t, k + m).end = k + e
        BY <3>2
      <4> QED BY <3>5, <4>1
    <3>7. TextsOf(t, c[k + e]) = TextsOf(v, b[e])
      <4>1. e \in D /\ rank[e] < rank[i]
        BY <1>1, <3>1, <3>3
      <4>2. e \in T
        <5> HIDE DEF T, rank, D
        <5> QED BY <1>3, <4>1
      <4> QED BY <4>2
    <3>8. TextOf(t, TokenAt(t, k + m)) = TextOf(v, TokenAt(v, m))
      <4>1. TextOf(t, TokenAt(t, k + m)) = SubSeq(t, (k + m) + 1, k + e)
        <5>1. TokenAt(t, k + m).start = k + m /\ TokenAt(t, k + m).end = k + e
          BY <3>2
        <5> QED BY <5>1 DEF TextOf
      <4>2. TextOf(v, TokenAt(v, m)) = SubSeq(v, m + 1, e)
        <5>1. TokenAt(v, m).start = m /\ TokenAt(v, m).end = e
          BY <3>2
        <5> QED BY <5>1 DEF TextOf
      <4>3. m \in 0..Len(v) /\ e \in m..Len(v)
        BY <1>1, <3>1, <3>3
      <4>4. SubSeq(u \o v, Len(u) + m + 1, Len(u) + e) = SubSeq(v, m + 1, e)
        BY <4>3, PieceOfSecond
      <4> QED BY <4>1, <4>2, <4>4 DEF t, k
    <3>9. TextsOf(t, c[k + i]) = TextsOf(v, b[i])
      <4>1. TextsOf(t, c[k + i]) = {TextOf(t, TokenAt(t, k + m))} \cup TextsOf(t, c[k + e])
        BY <3>6 DEF TextsOf
      <4>2. TextsOf(v, b[i]) = {TextOf(v, TokenAt(v, m))} \cup TextsOf(v, b[e])
        BY <3>3 DEF TextsOf
      <4> QED BY <3>7, <3>8, <4>1, <4>2
    <3> QED BY <3>9
  <2> HIDE DEF T
  <2>4. i \in T \/ \E m : FirstDigit(v, i, m)
    <3>1. \/ \A at \in i..(Len(v) - 1) : ~IsDigit(v[at + 1])
          \/ \E m : FirstDigit(v, i, m)
      BY FirstDigitIs
    <3>2. (\A at \in i..(Len(v) - 1) : ~IsDigit(v[at + 1])) => i \in T
      BY <2>2 DEF T
    <3> QED BY <3>1, <3>2
  <2> QED BY <2>3, <2>4
<1>4. rank \in [D -> Nat]
  BY <1>1
<1>5. d \in T
  <2> HIDE DEF D, T, rank
  <2>1. D \subseteq T
    BY <1>3, <1>4, RankInduction
  <2>2. d \in D
    BY DEF D
  <2> QED BY <2>1, <2>2
<1> QED BY <1>5

\* A text that opens with a character no number is written with.
Opens(text) == Len(text) >= 1 /\ text[1] \notin Figured

\* Up to such a character, a text reads as its first part.
LEMMA ScanOfFirst ==
    ASSUME NEW X, NEW u \in Seq(X), NEW v \in Seq(X), Opens(v)
    PROVE  TokenTexts(u \o v) = TokenTexts(u) \cup TokenTexts(v)
<1>o. Len(v) >= 1 /\ v[1] \notin Figured
  BY DEF Opens
<1>s. \A s \in Seq(X) : \E c : IsScan(s, c)
  BY ScanIs DEF IsScan
<1>u. u \o v \in Seq(X)
  BY ConcatProperties
<1>7. PICK c : IsScan(u \o v, c)
  BY <1>s, <1>u
<1>8. PICK a : IsScan(u, a)
  BY <1>s
<1>9. PICK b : IsScan(v, b)
  BY <1>s
<1> DEFINE t == u \o v
           k == Len(u)
           D == 0..k
           Holds(i) == TextsOf(t, c[i]) = TextsOf(u, a[i]) \cup TextsOf(v, b[0])
           T == {i \in D : Holds(i)}
           rank == [i \in D |-> k - i]
<1>1. /\ t \in Seq(X) /\ Len(t) = k + Len(v) /\ k \in Nat /\ Len(v) \in Nat
      /\ \A i \in 1..k : t[i] = u[i]
  <2>1. /\ t \in Seq(X) /\ Len(t) = k + Len(v) /\ k \in Nat /\ Len(v) \in Nat
        /\ \A i \in 1..(k + Len(v)) : t[i] = IF i <= k THEN u[i] ELSE v[i - k]
    BY ConcatProperties, LenProperties
  <2> HIDE DEF t, k
  <2> QED BY <2>1
<1>2. IsScan(t, c)
  BY <1>7
<1>3. TextsOf(t, c[k]) = TextsOf(v, b[0])
  <2>1. 0 \in 0..Len(v) /\ k + 0 = k
    BY <1>1
  <2> DEFINE zero == 0
  <2>2. zero \in 0..Len(v)
    BY <2>1
  <2> HIDE DEF zero
  <2>3. TextsOf(u \o v, c[Len(u) + zero]) = TextsOf(v, b[zero])
    BY <1>7, <1>9, <2>2, ScanOfSecond
  <2> QED BY <2>1, <2>3 DEF zero
<1>4. ASSUME NEW i \in D, \A j \in D : rank[j] < rank[i] => j \in T
      PROVE  Holds(i)
  <2>1. i \in 0..Len(t) /\ k \in 0..Len(t) /\ k \in i..Len(t)
    BY <1>1
  <2>2. CASE \A at \in i..(k - 1) : ~IsDigit(u[at + 1])
    <3>1. \A at \in i..(k - 1) : ~IsDigit(t[at + 1])
      <4>1. \A at \in i..(k - 1) : at + 1 \in 1..k
        BY <1>1
      <4> HIDE DEF t, k
      <4> QED BY <1>1, <2>2, <4>1
    <3>2. c[i] = c[k]
      <4>1. /\ t \in Seq(X) /\ IsScan(t, c) /\ i \in 0..Len(t) /\ k \in i..Len(t)
            /\ \A at \in i..(k - 1) : ~IsDigit(t[at + 1])
        BY <1>1, <1>2, <2>1, <3>1
      <4> HIDE DEF t, k
      <4> QED BY <4>1, ScanSkips
    <3>3. a[i] = {}
      BY <1>8, <2>2, ScanSteps
    <3> QED BY <1>3, <3>2, <3>3 DEF TextsOf
  <2>3. ASSUME NEW m, FirstDigit(u, i, m) PROVE Holds(i)
    <3>1. m \in i..(k - 1) /\ IsDigit(u[m + 1]) /\ m \in 0..(Len(u) - 1) /\ m \in Int
          /\ \A at \in i..(m - 1) : ~IsDigit(u[at + 1])
      BY <2>3 DEF FirstDigit
    <3> DEFINE e == TokenAt(u, m).end
    <3>2. TokenAt(t, m) = TokenAt(u, m)
      BY <1>o, <3>1, TokenOfFirst
    <3>3. a[i] = {TokenAt(u, m)} \cup a[e] /\ e \in (m + 1)..k /\ TokenAt(u, m).start = m
      BY <1>8, <2>3, ScanSteps
    <3> HIDE DEF t, k, e
    <3>4. FirstDigit(t, i, m)
      <4>1. m \in i..(Len(t) - 1) /\ m + 1 \in 1..k /\ \A at \in i..(m - 1) : at + 1 \in 1..k
        BY <1>1, <3>1
      <4> QED BY <1>1, <3>1, <4>1 DEF FirstDigit
    <3>5. c[i] = {TokenAt(t, m)} \cup c[TokenAt(t, m).end]
      BY <1>1, <1>2, <2>1, <3>4, ScanSteps
    <3>6. c[i] = {TokenAt(u, m)} \cup c[e]
      BY <3>2, <3>5 DEF e
    <3>7. Holds(e)
      <4>1. e \in D /\ rank[e] < rank[i]
        BY <1>1, <3>1, <3>3
      <4>2. e \in T
        <5> HIDE DEF T, rank, D
        <5> QED BY <1>4, <4>1
      <4> QED BY <4>2
    <3>8. TextOf(t, TokenAt(u, m)) = TextOf(u, TokenAt(u, m))
      <4>1. TextOf(t, TokenAt(u, m)) = SubSeq(t, m + 1, e)
        BY <3>3 DEF TextOf, e
      <4>2. TextOf(u, TokenAt(u, m)) = SubSeq(u, m + 1, e)
        BY <3>3 DEF TextOf, e
      <4>3. m \in 0..Len(u) /\ e \in m..Len(u)
        BY <1>1, <3>1, <3>3 DEF k
      <4>4. SubSeq(u \o v, m + 1, e) = SubSeq(u, m + 1, e)
        BY <4>3, PieceOfFirst
      <4> QED BY <4>1, <4>2, <4>4 DEF t
    <3>9. TextsOf(t, c[i]) = TextsOf(u, a[i]) \cup TextsOf(v, b[0])
      <4>1. TextsOf(t, c[i]) = {TextOf(t, TokenAt(u, m))} \cup TextsOf(t, c[e])
        BY <3>6 DEF TextsOf
      <4>2. TextsOf(u, a[i]) = {TextOf(u, TokenAt(u, m))} \cup TextsOf(u, a[e])
        BY <3>3 DEF TextsOf
      <4> QED BY <3>7, <3>8, <4>1, <4>2
    <3> QED BY <3>9
  <2> HIDE DEF Holds
  <2>4. \/ \A at \in i..(k - 1) : ~IsDigit(u[at + 1])
        \/ \E m : FirstDigit(u, i, m)
    BY FirstDigitIs
  <2> QED BY <2>2, <2>3, <2>4
<1>5. rank \in [D -> Nat]
  BY <1>1
<1>6. Holds(0)
  <2>1. \A i \in D : (\A j \in D : rank[j] < rank[i] => j \in T) => i \in T
    <3> HIDE DEF Holds, D, rank
    <3>1. ASSUME NEW i \in D, \A j \in D : rank[j] < rank[i] => j \in T PROVE i \in T
      <4>1. Holds(i)
        <5> HIDE DEF T
        <5> QED BY <1>4, <3>1
      <4> QED BY <4>1
    <3> HIDE DEF T
    <3> QED BY <3>1
  <2>2. 0 \in D
    BY <1>1
  <2>3. D \subseteq T
    <3> HIDE DEF D, T, rank
    <3> QED BY <1>5, <2>1, RankInduction
  <2> HIDE DEF D, Holds
  <2> QED BY <2>2, <2>3
<1> QED BY <1>6, <1>7, <1>8, <1>9 DEF IsScan, TokenTexts

\* A text with such a character in it has the tokens of its two parts.
LEMMA TokensOfBoth ==
    ASSUME NEW X, NEW u \in Seq(X), NEW h \in X, h \notin Figured, NEW w \in Seq(X)
    PROVE  TokenTexts(u \o (<<h>> \o w)) = TokenTexts(u) \cup TokenTexts(w)
<1> DEFINE one == <<h>>
           v == one \o w
           first == 1
           zero == 0
<1>1. one \in Seq(X) /\ Len(one) = 1 /\ one[1] = h
  OBVIOUS
<1> HIDE DEF one
<1>2. v \in Seq(X) /\ Len(v) = 1 + Len(w) /\ Len(w) \in Nat /\ v[1] = h
  <2>1. /\ v \in Seq(X) /\ Len(v) = Len(one) + Len(w) /\ Len(w) \in Nat
        /\ \A i \in 1..(Len(one) + Len(w)) : v[i] = IF i <= Len(one) THEN one[i] ELSE w[i - Len(one)]
    BY <1>1, ConcatProperties, LenProperties
  <2> HIDE DEF v
  <2> QED BY <1>1, <2>1
<1>a. \A s \in Seq(X) : \E c : IsScan(s, c)
  BY ScanIs DEF IsScan
<1>6. PICK b : IsScan(v, b)
  BY <1>a, <1>2
<1>7. PICK e : IsScan(w, e)
  BY <1>a
<1>8. TokenTexts(u \o v) = TokenTexts(u) \cup TokenTexts(v)
  <2>1. v \in Seq(X) /\ Opens(v)
    BY <1>2 DEF Opens
  <2> HIDE DEF v
  <2> QED BY <2>1, ScanOfFirst
<1>9. b[0] = b[1]
  <2>1. \A at \in 0..(1 - 1) : ~IsDigit(v[at + 1])
    <3>1. \A at \in 0..(1 - 1) : at + 1 = 1
      OBVIOUS
    <3>2. ~IsDigit(h)
      BY DEF IsDigit, Figured
    <3> QED BY <1>2, <3>1, <3>2
  <2>2. zero \in 0..Len(v) /\ first \in zero..Len(v) /\ zero = 0 /\ first = 1
    BY <1>2
  <2> HIDE DEF v, zero, first
  <2>3. \A at \in zero..(first - 1) : ~IsDigit(v[at + 1])
    BY <2>1, <2>2
  <2>4. b[zero] = b[first]
    BY <1>2, <1>6, <2>2, <2>3, ScanSkips
  <2> QED BY <2>4 DEF zero, first
<1>10. TextsOf(v, b[1]) = TextsOf(w, e[0])
  <2>1. zero \in 0..Len(w) /\ zero = 0 /\ Len(one) + zero = 1
    BY <1>1, <1>2
  <2> HIDE DEF zero
  <2>2. TextsOf(one \o w, b[Len(one) + zero]) = TextsOf(w, e[zero])
    <3>1. one \in Seq(X) /\ IsScan(one \o w, b) /\ IsScan(w, e) /\ zero \in 0..Len(w)
      BY <1>1, <1>6, <1>7, <2>1 DEF v
    <3> QED BY <3>1, ScanOfSecond
  <2> QED BY <2>1, <2>2
<1> QED BY <1>6, <1>7, <1>8, <1>9, <1>10 DEF IsScan, TokenTexts, one

-----------------------------------------------------------------------------
(* Texts with one number. *)

\* A text without any digit, and one that begins with a digit.
HasNoDigits(text) == \A i \in 1..Len(text) : text[i] \notin Digits
BeginsWithDigit(text) == Len(text) >= 1 /\ text[1] \in Digits

\* Where there is no digit there is no token.
LEMMA NothingToFind ==
    ASSUME NEW X, NEW text \in Seq(X), HasNoDigits(text)
    PROVE  TokenTexts(text) = {}
<1>1. PICK c : IsScan(text, c)
  BY ScanIs DEF IsScan
<1> DEFINE zero == 0
<1>2. Len(text) \in Nat /\ zero \in 0..Len(text) /\ zero = 0
  BY LenProperties
<1> HIDE DEF zero
<1>3. \A at \in zero..(Len(text) - 1) : ~IsDigit(text[at + 1])
  <2>1. \A at \in zero..(Len(text) - 1) : at + 1 \in 1..Len(text)
    BY <1>2
  <2> QED BY <2>1 DEF HasNoDigits, IsDigit
<1>4. c[zero] = {}
  BY <1>1, <1>2, <1>3, ScanSteps
<1> QED BY <1>1, <1>2, <1>4 DEF IsScan, TokenTexts, TextsOf

\* What is before the first digit does not matter.
LEMMA AfterNoDigits ==
    ASSUME NEW X, NEW u \in Seq(X), NEW v \in Seq(X), HasNoDigits(u)
    PROVE  TokenTexts(u \o v) = TokenTexts(v)
<1> DEFINE t == u \o v
           k == Len(u)
           zero == 0
<1>1. /\ t \in Seq(X) /\ Len(t) = k + Len(v) /\ k \in Nat /\ Len(v) \in Nat
      /\ \A i \in 1..k : t[i] = u[i]
  <2>1. /\ t \in Seq(X) /\ Len(t) = k + Len(v) /\ k \in Nat /\ Len(v) \in Nat
        /\ \A i \in 1..(k + Len(v)) : t[i] = IF i <= k THEN u[i] ELSE v[i - k]
    BY ConcatProperties, LenProperties
  <2> HIDE DEF t, k
  <2> QED BY <2>1
<1>a. \A s \in Seq(X) : \E c : IsScan(s, c)
  BY ScanIs DEF IsScan
<1>2. PICK c : IsScan(t, c)
  BY <1>1, <1>a
<1>3. PICK b : IsScan(v, b)
  BY <1>a
<1>4. zero = 0 /\ zero \in 0..Len(v) /\ zero \in 0..Len(t) /\ k \in zero..Len(t) /\ k + zero = k
  BY <1>1
<1> HIDE DEF zero
<1>5. TextsOf(u \o v, c[Len(u) + zero]) = TextsOf(v, b[zero])
  <2>1. IsScan(u \o v, c) /\ IsScan(v, b)
    BY <1>2, <1>3
  <2> HIDE DEF t, k
  <2> QED BY <1>4, <2>1, ScanOfSecond
<1> HIDE DEF t, k
<1>6. \A at \in zero..(k - 1) : ~IsDigit(t[at + 1])
  <2>1. \A at \in zero..(k - 1) : at + 1 \in 1..k
    BY <1>1, <1>4
  <2> QED BY <1>1, <2>1 DEF HasNoDigits, IsDigit, k
<1>7. c[zero] = c[k]
  <2>1. t \in Seq(X) /\ IsScan(t, c) /\ zero \in 0..Len(t) /\ k \in zero..Len(t)
        /\ \A at \in zero..(k - 1) : ~IsDigit(t[at + 1])
    BY <1>1, <1>2, <1>4, <1>6
  <2> QED BY <2>1, ScanSkips
<1>8. TextsOf(t, c[zero]) = TextsOf(v, b[zero])
  BY <1>4, <1>5, <1>7 DEF t, k
<1> QED BY <1>2, <1>3, <1>4, <1>8 DEF IsScan, TokenTexts, t

\* A number that begins a text and is followed by no other.
LEMMA OneToken ==
    ASSUME NEW X, NEW text \in Seq(X), BeginsWithDigit(text),
           NEW at, at = 0, NEW e, EndsAt(text, at, e),
           \A i \in (e + 1)..Len(text) : text[i] \notin Digits
    PROVE  TokenTexts(text) = {SubSeq(text, at + 1, e)}
<1>1. Len(text) \in Nat /\ Len(text) >= 1 /\ at \in 0..Len(text) /\ at \in 0..(Len(text) - 1)
      /\ IsDigit(text[at + 1])
  BY LenProperties DEF BeginsWithDigit, IsDigit
<1>2. e \in (at + 1)..Len(text)
  BY DEF EndsAt
<1>3. PICK c : IsScan(text, c)
  BY ScanIs DEF IsScan
<1>4. FirstDigit(text, at, at)
  BY <1>1 DEF FirstDigit
<1>5. TokenAt(text, at) = [start |-> at, end |-> e]
  BY <1>1, EndIs
<1>6. c[at] = {TokenAt(text, at)} \cup c[e]
  <2>1. c[at] = {TokenAt(text, at)} \cup c[TokenAt(text, at).end]
    BY <1>1, <1>3, <1>4, ScanSteps
  <2>2. TokenAt(text, at).end = e
    BY <1>5
  <2> QED BY <2>1, <2>2
<1>7. c[e] = {}
  <2>1. e \in 0..Len(text)
    BY <1>1, <1>2
  <2>2. \A i \in e..(Len(text) - 1) : ~IsDigit(text[i + 1])
    <3>1. \A i \in e..(Len(text) - 1) : i + 1 \in (e + 1)..Len(text)
      BY <1>1, <2>1
    <3> QED BY <3>1 DEF IsDigit
  <2> QED BY <1>3, <2>1, <2>2, ScanSteps
<1>8. NumberTokens(text) = {TokenAt(text, at)}
  BY <1>3, <1>6, <1>7 DEF IsScan
<1>9. TextOf(text, TokenAt(text, at)) = SubSeq(text, at + 1, e)
  <2>1. TokenAt(text, at).start = at /\ TokenAt(text, at).end = e
    BY <1>5
  <2> QED BY <2>1 DEF TextOf
<1> QED BY <1>8, <1>9 DEF TokenTexts, TextsOf

\* A whole text that a number can be.
LEMMA WholeToken ==
    ASSUME NEW X, NEW s \in Seq(X), BeginsWithDigit(s), IsSpaced(s) \/ IsPlain(s)
    PROVE  TokenTexts(s) = {s}
<1> DEFINE at == 0
           e == Len(s)
<1>1. at \in 0..Len(s) /\ e \in at..Len(s) /\ e \in Nat /\ e >= 1 /\ at = 0
  BY LenProperties DEF BeginsWithDigit
<1> HIDE DEF at
<1>2. SubSeq(s, at + 1, e) = s
  <2> DEFINE p == SubSeq(s, at + 1, e)
  <2>1. p \in Seq(X) /\ Len(p) = e - at /\ \A i \in 1..(e - at) : p[i] = s[at + i]
    BY <1>1, PieceIs
  <2>2. Len(p) = Len(s) /\ \A i \in 1..Len(s) : p[i] = s[i]
    BY <1>1, <2>1
  <2> HIDE DEF p, e
  <2> QED BY <2>1, <2>2, SeqEqual DEF p
<1>3. EndsAt(s, at, e)
  <2>1. e \in (at + 1)..Len(s) /\ \A f \in (at + 1)..Len(s) : ~(f > e)
    BY <1>1
  <2>2. CASE IsSpaced(s)
    BY <1>2, <2>1, <2>2 DEF EndsAt
  <2>3. CASE ~IsSpaced(s) /\ IsPlain(s)
    <3>1. ASSUME NEW f \in (at + 1)..Len(s) PROVE ~IsSpaced(SubSeq(s, at + 1, f))
      <4> DEFINE p == SubSeq(s, at + 1, f)
      <4>1. f \in at..Len(s) /\ f \in Int
        BY <1>1
      <4>2. p \in Seq(X) /\ Len(p) = f - at /\ \A i \in 1..(f - at) : p[i] = s[at + i]
        BY <1>1, <4>1, PieceIs
      <4>3. \A i \in 1..Len(p) : i \in 1..Len(s) /\ p[i] = s[i]
        BY <1>1, <4>1, <4>2
      <4>4. \A i \in 1..Len(s) : s[i] # Space
        BY <2>3, TokenChars
      <4> HIDE DEF p
      <4> QED BY <4>2, <4>3, <4>4, TokenChars DEF p
    <3> QED BY <1>2, <2>1, <2>3, <3>1 DEF EndsAt
  <2> QED BY <2>2, <2>3
<1>4. TokenTexts(s) = {SubSeq(s, at + 1, e)}
  <2>1. at = 0 /\ \A i \in (e + 1)..Len(s) : s[i] \notin Digits
    BY <1>1
  <2> HIDE DEF e
  <2> QED BY <1>3, <2>1, OneToken
<1> QED BY <1>2, <1>4

\* A plain number and the space after it.
LEMMA TokenAndSpace ==
    ASSUME NEW X, Space \in X, NEW s \in Seq(X), BeginsWithDigit(s), IsPlain(s)
    PROVE  TokenTexts(s \o <<Space>>) = {s}
<1> DEFINE sp == <<Space>>
           t == s \o sp
           at == 0
           e == Len(s)
<1>1. sp \in Seq(X) /\ Len(sp) = 1 /\ sp[1] = Space
  OBVIOUS
<1> HIDE DEF sp
<1>2. /\ t \in Seq(X) /\ Len(t) = e + 1 /\ e \in Nat /\ e >= 1
      /\ (\A i \in 1..e : t[i] = s[i]) /\ t[e + 1] = Space
  <2>1. /\ t \in Seq(X) /\ Len(t) = e + Len(sp) /\ e \in Nat
        /\ \A i \in 1..(e + Len(sp)) : t[i] = IF i <= e THEN s[i] ELSE sp[i - e]
    BY <1>1, ConcatProperties, LenProperties
  <2>2. e >= 1
    BY DEF BeginsWithDigit
  <2> HIDE DEF t, e
  <2>3. e + 1 \in 1..(e + 1) /\ ~(e + 1 <= e) /\ (e + 1) - e = 1 /\ \A i \in 1..e : i \in 1..(e + 1) /\ i <= e
    BY <2>1
  <2> QED BY <1>1, <2>1, <2>2, <2>3
<1>3. at = 0 /\ at \in 0..Len(t) /\ at \in 0..Len(s) /\ e \in at..Len(s) /\ e \in at..Len(t)
  BY <1>2
<1> HIDE DEF at
<1>4. SubSeq(t, at + 1, e) = s
  <2> DEFINE p == SubSeq(t, at + 1, e)
  <2> HIDE DEF t
  <2>1. p \in Seq(X) /\ Len(p) = e - at /\ \A i \in 1..(e - at) : p[i] = t[at + i]
    BY <1>2, <1>3, PieceIs
  <2>2. Len(p) = Len(s) /\ \A i \in 1..Len(s) : p[i] = s[i]
    BY <1>2, <1>3, <2>1
  <2> HIDE DEF p, e
  <2> QED BY <2>1, <2>2, SeqEqual DEF p
<1> HIDE DEF t
<1>5. \A i \in 1..e : s[i] # Space
  BY TokenChars
<1>6. ASSUME NEW f \in (at + 1)..Len(t)
      PROVE  /\ ~IsSpaced(SubSeq(t, at + 1, f))
             /\ f > e => ~IsPlain(SubSeq(t, at + 1, f))
  <2> DEFINE p == SubSeq(t, at + 1, f)
  <2>1. f \in at..Len(t) /\ f \in Int /\ f >= 1 /\ f <= e + 1
    BY <1>2, <1>3
  <2>2. p \in Seq(X) /\ Len(p) = f /\ \A i \in 1..f : p[i] = t[i]
    <3>1. p \in Seq(X) /\ Len(p) = f - at /\ \A i \in 1..(f - at) : p[i] = t[at + i]
      BY <1>2, <1>3, <2>1, PieceIs
    <3> QED BY <1>3, <2>1, <3>1
  <2> HIDE DEF p
  <2>3. CASE f = e + 1
    <3>1. p[Len(p)] = Space /\ Len(p) >= 1
      BY <1>2, <2>1, <2>2, <2>3
    <3>2. Space \notin Digits
      BY DEF Space, Digits
    <3>3. ~(IsSpaced(p) \/ IsPlain(p))
      BY <2>2, <3>1, <3>2, TokenChars
    <3> QED BY <3>3 DEF p
  <2>4. CASE f <= e
    <3>1. \A i \in 1..Len(p) : p[i] # Space
      BY <1>2, <1>5, <2>1, <2>2, <2>4
    <3>2. ~IsSpaced(p)
      BY <2>2, <3>1, TokenChars
    <3>3. ~(f > e)
      BY <1>2, <2>1, <2>4
    <3> QED BY <3>2, <3>3 DEF p
  <2> QED BY <1>2, <2>1, <2>3, <2>4
<1>7. EndsAt(t, at, e)
  <2>1. e \in (at + 1)..Len(t)
    BY <1>2, <1>3
  <2> QED BY <1>4, <1>6, <2>1 DEF EndsAt
<1>8. TokenTexts(t) = {SubSeq(t, at + 1, e)}
  <2>1. BeginsWithDigit(t)
    <3>1. 1 \in 1..e /\ Len(t) >= 1
      BY <1>2
    <3> QED BY <1>2, <3>1 DEF BeginsWithDigit
  <2>2. \A i \in (e + 1)..Len(t) : t[i] \notin Digits
    <3>1. \A i \in (e + 1)..Len(t) : i = e + 1
      BY <1>2
    <3>2. Space \notin Digits
      BY DEF Space, Digits
    <3> QED BY <1>2, <3>1, <3>2
  <2> HIDE DEF e
  <2> QED BY <1>2, <1>3, <1>7, <2>1, <2>2, OneToken
<1> QED BY <1>4, <1>8 DEF t, sp

-----------------------------------------------------------------------------
(* What a number reads as. *)

\* All of a sequence is kept if all of it is in the set.
LEMMA KeptOfAll ==
    ASSUME NEW X, NEW S, X \subseteq S, NEW s \in Seq(X)
    PROVE  Kept(s, S) = s
<1> DEFINE T == {u \in Seq(X) : Kept(u, S) = u}
<1>1. <<>> \in T
  BY KeptOfEmpty, EmptySeq
<1>2. ASSUME NEW u \in Seq(X), NEW x \in X, u \in T
      PROVE  Append(u, x) \in T
  <2>1. Kept(Append(u, x), S) = IF x \in S THEN Append(Kept(u, S), x) ELSE Kept(u, S)
    BY KeptOneMore
  <2>2. Append(u, x) \in Seq(X)
    BY AppendProperties
  <2> QED BY <1>2, <2>1, <2>2
<1> HIDE DEF T
<1>3. Seq(X) \subseteq T
  BY <1>1, <1>2, SequenceInduction
<1> QED BY <1>3 DEF T

\* A token without its spaces.
Clean(token) == Filter(token, LAMBDA char : char # Space)

\* A token without its spaces.
LEMMA CleanIs ==
    ASSUME NEW X, NEW token \in Seq(X)
    PROVE  /\ Clean(token) = Kept(token, X \ {Space})
           /\ (\A i \in 1..Len(token) : token[i] # Space) => Clean(token) = token
<1> DEFINE P == {i \in DOMAIN token : token[i] # Space}
           Q == {i \in DOMAIN token : token[i] \in X \ {Space}}
<1>1. P = Q
  BY LenProperties, ElementOfSeq
<1>2. Clean(token) = AtPlaces(token, P)
  BY DEF Clean, Filter, AtPlaces
<1>3. Kept(token, X \ {Space}) = AtPlaces(token, Q)
  BY DEF Kept
<1> HIDE DEF P, Q
<1>4. Clean(token) = Kept(token, X \ {Space})
  BY <1>1, <1>2, <1>3
<1>5. ASSUME \A i \in 1..Len(token) : token[i] # Space
      PROVE  Clean(token) = token
  <2> DEFINE Y == X \ {Space}
  <2>1. token \in Seq(Y)
    <3>1. token \in [1..Len(token) -> Y] /\ Len(token) \in Nat
      BY <1>5, LenProperties
    <3> HIDE DEF Y
    <3> QED BY <3>1
  <2>2. Y \subseteq X \ {Space}
    OBVIOUS
  <2> HIDE DEF Y
  <2>3. Kept(token, X \ {Space}) = token
    BY <2>1, <2>2, KeptOfAll
  <2> QED BY <1>4, <2>3
<1> QED BY <1>4, <1>5

\* The ways of reading a token, one by one.
LEMMA Readings ==
    ASSUME NEW token, NEW clean, clean = Clean(token)
    PROVE  LET groups == Groups(clean)
               marks == Marks(clean)
               whole == FlattenSeq(groups)
           IN  /\ marks = <<>> /\ whole # <<>> => Value(whole, <<>>) \in Denoted(token)
               /\ IsDecimal(groups, marks) => Value(groups[1], Last(groups)) \in Denoted(token)
               /\ \A m \in {Comma, Point} : IsGrouped(groups, marks, m) =>
                      Value(whole, <<>>) \in Denoted(token)
               /\ \A m, d \in {Comma, Point} : m # d /\ HasDecimals(groups, marks, m, d) =>
                      Value(FlattenSeq(Front(groups)), Last(groups)) \in Denoted(token)
<1>1. clean = Filter(token, LAMBDA char : char # Space)
  BY DEF Clean
<1> QED BY <1>1 DEF Denoted

\* The zeros that a sequence begins with, if what is after them is something else.
LEMMA LeadingIs ==
    ASSUME NEW X, NEW s \in Seq(X)
    PROVE  /\ \A k \in 0..Len(s) :
                 (\A i \in 1..k : s[i] = "0") /\ (k < Len(s) => s[k + 1] # "0")
                 => WithoutLeading(s) = SubSeq(s, k + 1, Len(s))
           /\ \E k \in 0..Len(s) :
                 /\ \A i \in 1..k : s[i] = "0"
                 /\ k < Len(s) => s[k + 1] # "0"
<1> DEFINE P == {i \in DOMAIN s : s[i] # "0"}
           L == Len(s)
<1>1. L \in Nat /\ DOMAIN s = 1..L
  BY LenProperties
<1>2. ASSUME NEW k \in 0..L, \A i \in 1..k : s[i] = "0", k < L => s[k + 1] # "0"
      PROVE  WithoutLeading(s) = SubSeq(s, k + 1, L)
  <2>1. CASE k = L
    <3>1. P = {}
      BY <1>1, <1>2, <2>1
    <3>2. WithoutLeading(s) = <<>>
      BY <3>1 DEF WithoutLeading
    <3> DEFINE m == L + 1
    <3>3. m \in Int /\ L \in Int /\ L < m
      BY <1>1
    <3> HIDE DEF m, L
    <3>4. SubSeq(s, m, L) = <<>>
      BY <3>3, SubSeqEmpty
    <3> QED BY <2>1, <3>2, <3>4 DEF m
  <2>2. CASE k < L
    <3> DEFINE m == k + 1
    <3>1. m \in P /\ P \in (SUBSET Nat) \ {{}} /\ \A n \in P : m <= n /\ m \in Nat /\ n \in Nat
      BY <1>1, <1>2, <2>2
    <3> HIDE DEF P, m
    <3>2. Min(P) \in P /\ \A n \in P : Min(P) <= n
      BY <3>1, FirstPlace
    <3>3. Min(P) = m
      <4> DEFINE n == Min(P)
      <4>1. n \in P /\ n <= m /\ m <= n /\ n \in Nat /\ m \in Nat
        BY <3>1, <3>2
      <4> HIDE DEF n
      <4>2. n = m
        BY <4>1
      <4> QED BY <4>2 DEF n
    <3>4. WithoutLeading(s) = SubSeq(s, Min(P), Len(s))
      BY <3>1 DEF WithoutLeading, P
    <3> QED BY <3>3, <3>4 DEF m
  <2> HIDE DEF P, L
  <2>3. k \in Int /\ k <= L /\ L \in Int
    BY <1>1
  <2>4. k = L \/ k < L
    BY <2>3
  <2> QED BY <2>1, <2>2, <2>4
<1>3. \E k \in 0..L : (\A i \in 1..k : s[i] = "0") /\ (k < L => s[k + 1] # "0")
  <2>1. CASE P = {}
    <3>1. L \in 0..L /\ ~(L < L) /\ \A i \in 1..L : s[i] = "0"
      BY <1>1, <2>1
    <3> QED BY <3>1
  <2>2. CASE P # {}
    <3>1. P \in (SUBSET Nat) \ {{}}
      BY <1>1, <2>2
    <3> DEFINE m == Min(P)
               k == m - 1
    <3>2. m \in P /\ \A n \in P : m <= n
      <4> HIDE DEF P
      <4> QED BY <3>1, FirstPlace
    <3> HIDE DEF m
    <3>3. m \in 1..L /\ s[m] # "0" /\ \A n \in 1..L : s[n] # "0" => m <= n
      BY <1>1, <3>2
    <3>4. k \in 0..L /\ k + 1 = m /\ \A i \in 1..k : i \in 1..L /\ ~(m <= i)
      BY <1>1, <3>3
    <3> HIDE DEF k
    <3> QED BY <3>3, <3>4
  <2> QED BY <2>1, <2>2
<1> QED BY <1>2, <1>3

\* Without a zero to take away nothing is taken away, and there is none afterwards.
LEMMA LeadingOnce ==
    ASSUME NEW X, NEW s \in Seq(X)
    PROVE  /\ WithoutLeading(s) \in Seq(X)
           /\ s = <<>> \/ s[1] # "0" => WithoutLeading(s) = s
           /\ WithoutLeading(s) = <<>> \/ WithoutLeading(s)[1] # "0"
<1> DEFINE L == Len(s)
           zero == 0
<1>1. L \in Nat /\ zero \in 0..L /\ zero = 0
  BY LenProperties
<1> HIDE DEF zero
<1>2. ASSUME s = <<>> \/ s[1] # "0"
      PROVE  WithoutLeading(s) = s
  <2>1. (\A i \in 1..zero : s[i] = "0") /\ (zero < L => s[zero + 1] # "0")
    BY <1>1, <1>2
  <2>2. WithoutLeading(s) = SubSeq(s, zero + 1, L)
    BY <1>1, <2>1, LeadingIs
  <2>3. SubSeq(s, 1, L) = s
    BY SubSeqFull
  <2> QED BY <1>1, <2>2, <2>3
<1>3. PICK k \in 0..L : (\A i \in 1..k : s[i] = "0") /\ (k < L => s[k + 1] # "0")
  BY LeadingIs
<1>4. WithoutLeading(s) = SubSeq(s, k + 1, L)
  BY <1>3, LeadingIs
<1> DEFINE r == SubSeq(s, k + 1, L)
<1>5. r \in Seq(X) /\ Len(r) = L - k /\ \A i \in 1..(L - k) : r[i] = s[k + i]
  BY <1>1, PieceIs
<1> HIDE DEF r
<1>6. r = <<>> \/ r[1] # "0"
  <2>1. CASE k < L
    <3>1. 1 \in 1..(L - k)
      BY <1>1, <2>1
    <3> QED BY <1>3, <1>5, <2>1, <3>1
  <2>2. CASE k = L
    BY <1>1, <1>5, <2>2, EmptySeq
  <2> QED BY <1>1, <2>1, <2>2
<1> QED BY <1>2, <1>4, <1>5, <1>6 DEF r

\* A sequence from its end to its beginning.
LEMMA ReverseTwice ==
    ASSUME NEW X, NEW s \in Seq(X)
    PROVE  Reverse(s) \in Seq(X) /\ Len(Reverse(s)) = Len(s) /\ Reverse(Reverse(s)) = s
           /\ \A i \in 1..Len(s) : Reverse(s)[i] = s[(Len(s) - i) + 1]
<1>1. ASSUME NEW t \in Seq(X)
      PROVE  /\ Reverse(t) \in Seq(X) /\ Len(Reverse(t)) = Len(t)
             /\ \A i \in 1..Len(t) : Reverse(t)[i] = t[(Len(t) - i) + 1]
  <2> DEFINE n == Len(t)
  <2>1. Reverse(t) = [i \in 1..n |-> t[(n - i) + 1]]
    BY DEF Reverse
  <2>2. n \in Nat /\ \A i \in 1..n : (n - i) + 1 \in 1..n
    BY LenProperties
  <2>3. \A i \in 1..n : t[i] \in X
    BY ElementOfSeq
  <2> HIDE DEF n
  <2>4. Reverse(t) \in [1..n -> X]
    BY <2>1, <2>2, <2>3
  <2>5. Reverse(t) \in Seq(X) /\ Len(Reverse(t)) = n
    BY <2>2, <2>4
  <2> QED BY <2>1, <2>5 DEF n
<1> DEFINE r == Reverse(s)
           q == Reverse(r)
           n == Len(s)
<1>2. r \in Seq(X) /\ Len(r) = n /\ \A i \in 1..n : r[i] = s[(n - i) + 1]
  BY <1>1
<1>3. q \in Seq(X) /\ Len(q) = Len(r) /\ \A i \in 1..Len(r) : q[i] = r[(Len(r) - i) + 1]
  <2> HIDE DEF r
  <2> QED BY <1>1, <1>2
<1>4. n \in Nat
  BY LenProperties
<1> HIDE DEF r, q
<1>5. \A i \in 1..n : q[i] = s[i]
  <2> HIDE DEF n
  <2>1. \A i \in 1..n : (n - i) + 1 \in 1..n /\ (n - ((n - i) + 1)) + 1 = i
    BY <1>4
  <2> QED BY <1>2, <1>3, <2>1
<1>6. q = s
  BY <1>2, <1>3, <1>5, SeqEqual
<1> QED BY <1>2, <1>6 DEF r, q

\* The value of what a value has is that value.
LEMMA ValueIsItself ==
    ASSUME NEW X, NEW w \in Seq(X), NEW p \in Seq(X), NEW v, v = Value(w, p)
    PROVE  /\ Value(v.whole, v.part) = v
           /\ v.whole \in Seq(X) /\ v.part \in Seq(X)
           /\ v.whole = WithoutLeading(w) /\ v.part = Reverse(WithoutLeading(Reverse(p)))
<1> DEFINE r == Reverse(p)
           q == WithoutLeading(r)
           W == WithoutLeading(w)
           P == Reverse(q)
<1>1. v.whole = W /\ v.part = P
  BY DEF Value
<1>2. W \in Seq(X) /\ (W = <<>> \/ W[1] # "0")
  BY LeadingOnce
<1>3. r \in Seq(X)
  BY ReverseTwice
<1> HIDE DEF r
<1>4. q \in Seq(X) /\ (q = <<>> \/ q[1] # "0")
  BY <1>3, LeadingOnce
<1> HIDE DEF q, W
<1>5. P \in Seq(X) /\ Reverse(P) = q
  BY <1>4, ReverseTwice
<1>6. WithoutLeading(W) = W /\ WithoutLeading(q) = q
  BY <1>2, <1>4, LeadingOnce
<1>7. Value(W, P) = [whole |-> WithoutLeading(W), part |-> Reverse(WithoutLeading(Reverse(P)))]
  BY DEF Value
<1>8. Value(W, P) = [whole |-> W, part |-> P]
  BY <1>5, <1>6, <1>7
<1>9. v = [whole |-> W, part |-> P]
  BY DEF Value, W, P, q, r
<1> QED BY <1>1, <1>2, <1>5, <1>8, <1>9 DEF W, P, q, r

-----------------------------------------------------------------------------
(* Numbers as they are spelt. *)

\* The text is of the digits, with the mark between groups of them if there is one.
Spelt(text, digits, mark) ==
    /\ BeginsWithDigit(text)
    /\ All(Marks(text), mark)
    /\ <<>> \notin Range(Groups(text))
    /\ FlattenSeq(Groups(text)) = digits
    /\ Marks(text) # <<>> => InThousands(Groups(text))
    /\ mark = Space => Clean(text) = digits

IsDigits(text) == text # <<>> /\ \A i \in 1..Len(text) : text[i] \in Digits

\* A single group is all of it.
LEMMA FlattenOfOne ==
    ASSUME NEW X, NEW x \in Seq(X)
    PROVE  FlattenSeq(<<x>>) = x
<1> DEFINE s == <<x>>
           Flattens(h) == h = [i \in 1..1 |-> IF i = 1 THEN s[i] ELSE h[i - 1] \o s[i]]
           c == CHOOSE h : Flattens(h)
<1>1. Len(s) = 1 /\ s[1] = x
  OBVIOUS
<1>2. FlattenSeq(s) = c[1]
  BY <1>1 DEF FlattenSeq
<1>3. Flattens([i \in 1..1 |-> s[1]])
  OBVIOUS
<1>4. Flattens(c)
  <2> HIDE DEF Flattens
  <2> QED BY <1>3
<1> HIDE DEF c
<1>5. c[1] = s[1]
  BY <1>4
<1> QED BY <1>1, <1>2, <1>5

\* Digits are spelt as they are.
LEMMA DigitsAreSpelt ==
    ASSUME NEW X, NEW d \in Seq(X), IsDigits(d), NEW mark
    PROVE  Spelt(d, d, mark) /\ Marks(d) = <<>> /\ Groups(d) = <<d>> /\ Clean(d) = d
<1>1. (\A i \in 1..Len(d) : d[i] \in Digits) /\ d # <<>> /\ Len(d) \in Nat /\ Len(d) >= 1
  BY LenProperties, EmptySeq DEF IsDigits
<1>2. Groups(d) = <<d>> /\ Marks(d) = <<>>
  BY <1>1, GroupsOfDigits
<1>3. BeginsWithDigit(d)
  BY <1>1 DEF BeginsWithDigit
<1>4. All(Marks(d), mark)
  BY <1>2 DEF All
<1>5. <<>> \notin Range(Groups(d))
  BY <1>1, <1>2 DEF Range
<1>6. FlattenSeq(Groups(d)) = d
  BY <1>2, FlattenOfOne
<1>7. Clean(d) = d
  <2>1. \A i \in 1..Len(d) : d[i] # Space
    BY <1>1 DEF Digits, Space
  <2> QED BY <2>1, CleanIs
<1> QED BY <1>2, <1>3, <1>4, <1>5, <1>6, <1>7 DEF Spelt

\* A text without marks is of digits.
LEMMA NoMarks ==
    ASSUME NEW X, NEW text \in Seq(X), Marks(text) = <<>>
    PROVE  /\ \A i \in 1..Len(text) : text[i] \in Digits
           /\ Groups(text) = <<text>> /\ FlattenSeq(Groups(text)) = text
<1>1. \A i \in 1..Len(text) : text[i] \in Digits
  <2>1. \A i \in 1..Len(text) : text[i] \notin Digits => \E k \in 1..Len(Marks(text)) : TRUE
    BY MarksAre
  <2>2. Len(Marks(text)) = 0
    OBVIOUS
  <2> QED BY <2>1, <2>2
<1>2. Groups(text) = <<text>>
  BY <1>1, GroupsOfDigits
<1> QED BY <1>1, <1>2, FlattenOfOne

\* Every character of a spelt number is a digit or the mark.
LEMMA SpeltChars ==
    ASSUME NEW X, NEW text \in Seq(X), NEW digits, NEW mark, Spelt(text, digits, mark)
    PROVE  \A i \in 1..Len(text) : text[i] \in Digits \/ text[i] = mark
<1>1. \A i \in 1..Len(text) : text[i] \notin Digits =>
          \E k \in 1..Len(Marks(text)) : Marks(text)[k] = text[i]
  BY MarksAre
<1>2. Marks(text) \in Seq(X)
  BY MarksAre
<1>3. \A k \in 1..Len(Marks(text)) : Marks(text)[k] = mark
  BY <1>2 DEF Spelt, All
<1> QED BY <1>1, <1>3

\* One number, and one that can be read as its digits.
LEMMA WholeIsRead ==
    ASSUME NEW X, NEW text \in Seq(X), NEW digits, digits # <<>>,
           NEW mark \in {Space, Comma, Point}, Spelt(text, digits, mark)
    PROVE  /\ IsSpaced(text) \/ IsPlain(text)
           /\ mark # Space => IsPlain(text)
           /\ Value(digits, <<>>) \in Denoted(text)
<1> DEFINE groups == Groups(text)
           marks == Marks(text)
<1>1. /\ BeginsWithDigit(text) /\ All(marks, mark) /\ <<>> \notin Range(groups)
      /\ FlattenSeq(groups) = digits /\ (marks # <<>> => InThousands(groups))
      /\ (mark = Space => Clean(text) = digits)
  BY DEF Spelt
<1>2. marks \in Seq(X)
  BY MarksAre
<1>3. mark # Space => IsPlain(text)
  <2> SUFFICES ASSUME mark # Space PROVE IsPlain(text)
    OBVIOUS
  <2>1. mark \in {Point, Comma}
    OBVIOUS
  <2>2. Range(marks) \subseteq {Point, Comma}
    <3>1. \A i \in DOMAIN marks : marks[i] = mark
      BY <1>1 DEF All
    <3> QED BY <2>1, <3>1 DEF Range
  <2> QED BY <1>1, <2>2 DEF IsPlain
<1>4. CASE marks = <<>>
  <2>1. /\ \A i \in 1..Len(text) : text[i] \in Digits
        /\ Groups(text) = <<text>> /\ FlattenSeq(Groups(text)) = text
    BY <1>4, NoMarks
  <2>2. IsDigits(text)
    BY <1>1, <2>1 DEF IsDigits
  <2>3. Clean(text) = text
    BY <2>2, DigitsAreSpelt
  <2>4. IsPlain(text)
    BY <1>1, <1>4 DEF IsPlain, Range
  <2>5. Value(FlattenSeq(Groups(text)), <<>>) \in Denoted(text)
    BY <1>1, <1>4, <2>3, Readings
  <2> QED BY <1>1, <2>4, <2>5
<1>5. CASE marks # <<>> /\ mark = Space
  <2>1. IsGrouped(groups, marks, Space)
    BY <1>1, <1>5 DEF IsGrouped
  <2>2. IsSpaced(text)
    BY <2>1 DEF IsSpaced
  <2>3. \A i \in 1..Len(digits) : digits[i] \in Digits
    <3>1. digits = Kept(text, X \ {Space}) /\ digits \in Seq(X)
      BY <1>1, <1>5, CleanIs, KeptIsIn
    <3>2. \A i \in 1..Len(digits) : \E j \in 1..Len(text) : digits[i] = text[j] /\ text[j] # Space
      <4> DEFINE places == {j \in DOMAIN text : text[j] \in X \ {Space}}
      <4>1. places \in SUBSET (1..Len(text)) /\ digits = AtPlaces(text, places)
        BY <3>1, LenProperties DEF Kept
      <4> HIDE DEF places
      <4>2. Len(AtPlaces(text, places)) = Cardinality(places)
            /\ \A k \in 1..Cardinality(places) :
                 /\ Ascending(places)[k] \in places
                 /\ AtPlaces(text, places)[k] = text[Ascending(places)[k]]
        BY <4>1, PlacesIs
      <4>3. ASSUME NEW i \in 1..Len(digits)
            PROVE  \E j \in 1..Len(text) : digits[i] = text[j] /\ text[j] # Space
        <5>1. Ascending(places)[i] \in places /\ digits[i] = text[Ascending(places)[i]]
          BY <4>1, <4>2
        <5>2. Ascending(places)[i] \in 1..Len(text) /\ text[Ascending(places)[i]] # Space
          BY <4>1, <5>1 DEF places
        <5> QED BY <5>1, <5>2
      <4> QED BY <4>3
    <3>3. \A j \in 1..Len(text) : text[j] # Space => text[j] \in Digits
      BY <1>5, SpeltChars
    <3> QED BY <3>2, <3>3
  <2>4. IsDigits(digits) /\ digits \in Seq(X)
    <3>1. digits \in Seq(X)
      <4>1. digits = Clean(text) /\ Clean(text) = Kept(text, X \ {Space})
        BY <1>1, <1>5, CleanIs
      <4>2. Kept(text, X \ {Space}) \in Seq(X)
        BY KeptIsIn
      <4> QED BY <4>1, <4>2
    <3> QED BY <2>3, <3>1 DEF IsDigits
  <2>5. Groups(digits) = <<digits>> /\ Marks(digits) = <<>>
    BY <2>4, DigitsAreSpelt
  <2>6. FlattenSeq(Groups(digits)) = digits
    BY <2>4, <2>5, FlattenOfOne
  <2>7. digits = Clean(text)
    BY <1>1, <1>5
  <2>8. Value(FlattenSeq(Groups(digits)), <<>>) \in Denoted(text)
    BY <2>5, <2>6, <2>7, Readings
  <2> QED BY <1>5, <2>2, <2>6, <2>8
<1>6. CASE marks # <<>> /\ mark # Space
  <2>1. mark \in {Comma, Point}
    BY <1>6
  <2>2. IsGrouped(groups, marks, mark)
    BY <1>1, <1>6 DEF IsGrouped
  <2>3. Clean(text) = text
    <3>1. \A i \in 1..Len(text) : text[i] # Space
      <4>1. \A i \in 1..Len(text) : text[i] \in Digits \/ text[i] = mark
        BY SpeltChars
      <4>2. Space \notin Digits
        BY DEF Digits, Space
      <4> QED BY <1>6, <4>1, <4>2
    <3> QED BY <3>1, CleanIs
  <2>4. Value(FlattenSeq(Groups(text)), <<>>) \in Denoted(text)
    <3>1. text = Clean(text)
      BY <2>3
    <3> QED BY <2>1, <2>2, <3>1, Readings
  <2> QED BY <1>1, <1>3, <1>6, <2>4
<1> QED BY <1>3, <1>4, <1>5, <1>6

\* The digits that are left of a number spelt with spaces.
LEMMA CleanIsDigits ==
    ASSUME NEW X, NEW text \in Seq(X), NEW digits, Spelt(text, digits, Space)
    PROVE  digits \in Seq(X) /\ \A i \in 1..Len(digits) : digits[i] \in Digits
<1> DEFINE places == {j \in DOMAIN text : text[j] \in X \ {Space}}
<1>1. digits = Clean(text) /\ Clean(text) = Kept(text, X \ {Space})
  BY CleanIs DEF Spelt
<1>2. Kept(text, X \ {Space}) \in Seq(X)
  BY KeptIsIn
<1>3. places \in SUBSET (1..Len(text)) /\ digits = AtPlaces(text, places)
  BY <1>1, LenProperties DEF Kept
<1>4. \A j \in places : j \in 1..Len(text) /\ text[j] # Space
  BY <1>3
<1> HIDE DEF places
<1>5. Len(AtPlaces(text, places)) = Cardinality(places)
      /\ \A k \in 1..Cardinality(places) :
           /\ Ascending(places)[k] \in places
           /\ AtPlaces(text, places)[k] = text[Ascending(places)[k]]
  BY <1>3, PlacesIs
<1>6. \A j \in 1..Len(text) : text[j] \in Digits \/ text[j] = Space
  BY SpeltChars
<1>7. ASSUME NEW i \in 1..Len(digits)
      PROVE  digits[i] \in Digits
  <2>1. Ascending(places)[i] \in places /\ digits[i] = text[Ascending(places)[i]]
    BY <1>3, <1>5
  <2>2. Ascending(places)[i] \in 1..Len(text) /\ text[Ascending(places)[i]] # Space
    BY <1>4, <2>1
  <2> QED BY <1>6, <2>1, <2>2
<1> QED BY <1>1, <1>2, <1>7

\* Tuples, written out.
LEMMA AppendToOne ==
    ASSUME NEW V, NEW x \in V, NEW y \in V
    PROVE  Append(<<x>>, y) = <<x, y>>
<1> DEFINE a == <<x>>
           b == <<x, y>>
<1>1. a \in Seq(V) /\ Len(a) = 1 /\ a[1] = x
  OBVIOUS
<1>2. b \in Seq(V) /\ Len(b) = 2 /\ b[1] = x /\ b[2] = y
  OBVIOUS
<1> HIDE DEF a, b
<1>3. ASSUME NEW s \in Seq(V)
      PROVE  /\ Append(s, y) \in Seq(V) /\ Len(Append(s, y)) = Len(s) + 1
             /\ \A i \in 1..Len(s) : Append(s, y)[i] = s[i]
             /\ Append(s, y)[Len(s) + 1] = y
  BY AppendProperties, LenProperties
<1>4. a \in Seq(V)
  BY <1>1
<1> DEFINE c == Append(a, y)
<1>5. /\ c \in Seq(V) /\ Len(c) = Len(a) + 1
      /\ \A i \in 1..Len(a) : c[i] = a[i]
      /\ c[Len(a) + 1] = y
  BY <1>3, <1>4
<1> HIDE DEF c
<1>6. Len(c) = 2 /\ c[1] = x /\ c[2] = y
  BY <1>1, <1>5
<1>7. c = b
  BY <1>2, <1>5, <1>6, SeqEqual
<1> QED BY <1>7 DEF a, b, c

\* Three of them.
LEMMA AppendToTwo ==
    ASSUME NEW V, NEW x \in V, NEW y \in V, NEW z \in V
    PROVE  Append(<<x, y>>, z) = <<x, y, z>>
<1> DEFINE a == <<x, y>>
           b == <<x, y, z>>
<1>1. a \in Seq(V) /\ Len(a) = 2 /\ a[1] = x /\ a[2] = y
  OBVIOUS
<1>2. b \in Seq(V) /\ Len(b) = 3 /\ b[1] = x /\ b[2] = y /\ b[3] = z
  OBVIOUS
<1> HIDE DEF a, b
<1>3. ASSUME NEW s \in Seq(V)
      PROVE  /\ Append(s, z) \in Seq(V) /\ Len(Append(s, z)) = Len(s) + 1
             /\ \A i \in 1..Len(s) : Append(s, z)[i] = s[i]
             /\ Append(s, z)[Len(s) + 1] = z
  BY AppendProperties, LenProperties
<1>4. a \in Seq(V)
  BY <1>1
<1> DEFINE c == Append(a, z)
<1>5. /\ c \in Seq(V) /\ Len(c) = Len(a) + 1
      /\ \A i \in 1..Len(a) : c[i] = a[i]
      /\ c[Len(a) + 1] = z
  BY <1>3, <1>4
<1> HIDE DEF c
<1>6. Len(c) = 3 /\ c[1] = x /\ c[2] = y /\ c[3] = z
  BY <1>1, <1>5
<1>7. c = b
  BY <1>2, <1>5, <1>6, SeqEqual
<1> QED BY <1>7 DEF a, b, c

\* Tuples one after another.
LEMMA TuplesTogether ==
    ASSUME NEW V, NEW x \in V, NEW y \in V, NEW z \in V
    PROVE  <<x>> \o <<y>> = <<x, y>> /\ <<x, y>> \o <<z>> = <<x, y, z>>
<1> DEFINE a == <<x>>
           b == <<x, y>>
<1>1. a \in Seq(V) /\ b \in Seq(V)
  OBVIOUS
<1> HIDE DEF a, b
<1>2. a \o <<y>> = Append(a, y)
  BY <1>1, AppendIsConcat
<1>3. b \o <<z>> = Append(b, z)
  BY <1>1, AppendIsConcat
<1> QED BY <1>2, <1>3, AppendToOne, AppendToTwo DEF a, b

\* A decimal mark and one or two decimals after digits.
LEMMA DecimalOfDigits ==
    ASSUME NEW X, NEW w \in Seq(X), IsDigits(w), NEW d \in X, d \in {Point, Comma},
           NEW p \in Seq(X), IsDigits(p), Len(p) <= 2
    PROVE  /\ Groups((w \o <<d>>) \o p) = <<w, p>> /\ Marks((w \o <<d>>) \o p) = <<d>>
           /\ IsDecimal(<<w, p>>, <<d>>)
<1>1. d \in X \ Digits
  BY DEF Digits, Point, Comma
<1>2. \A i \in 1..Len(p) : p[i] \in Digits
  BY DEF IsDigits
<1>3. /\ Groups((w \o <<d>>) \o p) = Append(Groups(w), p)
      /\ Marks((w \o <<d>>) \o p) = Append(Marks(w), d)
  BY <1>1, <1>2, OneMoreGroup
<1>4. Groups(w) = <<w>> /\ Marks(w) = <<>>
  BY DigitsAreSpelt
<1>5. Append(<<w>>, p) = <<w, p>>
  <2> DEFINE V == Seq(X)
  <2>1. w \in V /\ p \in V
    OBVIOUS
  <2> HIDE DEF V
  <2> QED BY <2>1, AppendToOne
<1>7. Append(<<>>, d) = <<d>>
  OBVIOUS
<1>6. IsDecimal(<<w, p>>, <<d>>)
  <2>1. <<d>> \in {<<Point>>, <<Comma>>}
    OBVIOUS
  <2>2. w # <<>> /\ p # <<>> /\ Len(p) \in 1..2
    <3>1. w # <<>> /\ p # <<>>
      BY DEF IsDigits
    <3>2. Len(p) \in Nat /\ Len(p) # 0
      BY <3>1, LenProperties, EmptySeq
    <3> DEFINE n == Len(p)
    <3>3. n \in Nat /\ n # 0 /\ n <= 2
      BY <3>2
    <3> HIDE DEF n
    <3>4. n \in 1..2
      BY <3>3
    <3> QED BY <3>1, <3>4 DEF n
  <2>3. <<>> \notin Range(<<w, p>>)
    BY <2>2 DEF Range
  <2> QED BY <2>1, <2>2, <2>3 DEF IsDecimal
<1> QED BY <1>3, <1>4, <1>5, <1>6, <1>7

\* One number, and one that can be read as its digits before and after the mark.
LEMMA DecimalIsRead ==
    ASSUME NEW X, NEW w \in Seq(X), NEW digits, digits # <<>>,
           NEW mark \in {Space, Comma, Point}, Spelt(w, digits, mark),
           NEW d \in X, d \in {Point, Comma}, d # mark,
           NEW p \in Seq(X), IsDigits(p), Len(p) <= 2
    PROVE  /\ IsSpaced((w \o <<d>>) \o p) \/ IsPlain((w \o <<d>>) \o p)
           /\ (mark # Space => IsPlain((w \o <<d>>) \o p))
           /\ BeginsWithDigit((w \o <<d>>) \o p)
           /\ Value(digits, p) \in Denoted((w \o <<d>>) \o p)
<1> DEFINE t == (w \o <<d>>) \o p
           groups == Groups(w)
           marks == Marks(w)
           V == Seq(X)
<1>1. /\ BeginsWithDigit(w) /\ All(marks, mark) /\ <<>> \notin Range(groups)
      /\ FlattenSeq(groups) = digits /\ (marks # <<>> => InThousands(groups))
      /\ (mark = Space => Clean(w) = digits)
  BY DEF Spelt
<1>2. /\ t \in Seq(X) /\ Len(t) = Len(w) + 1 + Len(p)
      /\ \A i \in 1..Len(w) : t[i] = w[i]
      /\ t[Len(w) + 1] = d
      /\ \A i \in 1..Len(p) : t[Len(w) + 1 + i] = p[i]
  BY ThreeParts
<1>3. /\ Len(w) \in Nat /\ Len(w) >= 1 /\ Len(p) \in Nat /\ p # <<>>
      /\ \A i \in 1..Len(p) : p[i] \in Digits
  BY LenProperties DEF BeginsWithDigit, IsDigits, Spelt
<1>4. BeginsWithDigit(t)
  <2>1. 1 \in 1..Len(w) /\ Len(t) >= 1
    BY <1>2, <1>3
  <2> HIDE DEF t
  <2> QED BY <1>1, <1>2, <2>1 DEF BeginsWithDigit
<1>5. d \in X \ Digits
  BY DEF Digits, Point, Comma
<1>6. Groups(t) = Append(groups, p) /\ Marks(t) = Append(marks, d)
  BY <1>3, <1>5, OneMoreGroup
<1>7. groups \in Seq(V) /\ Len(groups) = Len(marks) + 1 /\ marks \in Seq(X) /\ Len(marks) \in Nat
  <2> DEFINE S == {}
  <2>1. S \subseteq Digits
    OBVIOUS
  <2> HIDE DEF S
  <2>2. groups \in Seq(Seq(X)) /\ Len(groups) = Len(marks) + 1
    BY <2>1, GroupsKeepDigits
  <2>3. marks \in Seq(X)
    BY MarksAre
  <2> QED BY <2>2, <2>3, LenProperties
<1> HIDE DEF t
<1>8. mark # Space => Clean(t) = t
  <2> SUFFICES ASSUME mark # Space PROVE Clean(t) = t
    OBVIOUS
  <2>1. \A i \in 1..Len(w) : w[i] # Space
    <3>1. \A i \in 1..Len(w) : w[i] \in Digits \/ w[i] = mark
      BY SpeltChars
    <3> QED BY <3>1 DEF Digits, Space
  <2>2. \A i \in 1..Len(p) : p[i] # Space
    BY <1>3 DEF Digits, Space
  <2>3. d # Space
    BY DEF Point, Comma, Space
  <2>4. ASSUME NEW i \in 1..Len(t)
        PROVE  t[i] # Space
    <3>1. \/ i \in 1..Len(w)
          \/ i = Len(w) + 1
          \/ i - (Len(w) + 1) \in 1..Len(p) /\ Len(w) + 1 + (i - (Len(w) + 1)) = i
      BY <1>2, <1>3
    <3>2. CASE i - (Len(w) + 1) \in 1..Len(p) /\ Len(w) + 1 + (i - (Len(w) + 1)) = i
      <4> DEFINE j == i - (Len(w) + 1)
      <4>1. j \in 1..Len(p) /\ Len(w) + 1 + j = i
        BY <3>2
      <4> HIDE DEF j
      <4>2. t[i] = p[j]
        BY <1>2, <4>1
      <4> QED BY <2>2, <4>1, <4>2
    <3> QED BY <1>2, <2>1, <2>3, <3>1, <3>2
  <2> QED BY <1>2, <2>4, CleanIs
<1>9. CASE marks = <<>>
  <2>1. /\ \A i \in 1..Len(w) : w[i] \in Digits
        /\ FlattenSeq(Groups(w)) = w
    BY <1>9, NoMarks
  <2>2. w # <<>>
    BY <1>3
  <2>3. IsDigits(w) /\ digits = w
    BY <1>1, <2>1, <2>2 DEF IsDigits
  <2>4. Groups(t) = <<w, p>> /\ Marks(t) = <<d>> /\ IsDecimal(<<w, p>>, <<d>>)
    BY <2>3, DecimalOfDigits DEF t
  <2>5. IsPlain(t)
    <3>1. <<>> \notin Range(<<w, p>>)
      BY <2>4 DEF IsDecimal
    <3>2. Range(<<d>>) \subseteq {Point, Comma}
      BY DEF Range
    <3> QED BY <2>4, <3>1, <3>2 DEF IsPlain
  <2>6. Clean(t) = t
    <3>1. Spelt(w, w, Comma) /\ Spelt(w, w, Point)
      BY <2>3, DigitsAreSpelt
    <3>2. \A i \in 1..Len(t) : t[i] # Space
      <4>1. \A i \in 1..Len(w) : w[i] # Space
        BY <2>1 DEF Digits, Space
      <4>2. \A i \in 1..Len(p) : p[i] # Space
        BY <1>3 DEF Digits, Space
      <4>3. d # Space
        BY DEF Point, Comma, Space
      <4>4. ASSUME NEW i \in 1..Len(t)
            PROVE  t[i] # Space
        <5>1. \/ i \in 1..Len(w)
              \/ i = Len(w) + 1
              \/ i - (Len(w) + 1) \in 1..Len(p) /\ Len(w) + 1 + (i - (Len(w) + 1)) = i
          BY <1>2, <1>3
        <5>2. CASE i - (Len(w) + 1) \in 1..Len(p) /\ Len(w) + 1 + (i - (Len(w) + 1)) = i
          <6> DEFINE j == i - (Len(w) + 1)
          <6>1. j \in 1..Len(p) /\ Len(w) + 1 + j = i
            BY <5>2
          <6> HIDE DEF j
          <6>2. t[i] = p[j]
            BY <1>2, <6>1
          <6> QED BY <4>2, <6>1, <6>2
        <5> QED BY <1>2, <4>1, <4>3, <5>1, <5>2
      <4> QED BY <4>4
    <3> QED BY <1>2, <3>2, CleanIs
  <2>7. Value(Groups(t)[1], Last(Groups(t))) \in Denoted(t)
    <3>1. t = Clean(t) /\ IsDecimal(Groups(t), Marks(t))
      BY <2>4, <2>6
    <3> QED BY <3>1, Readings
  <2>8. Groups(t)[1] = w /\ Last(Groups(t)) = p
    BY <2>4 DEF Last
  <2> QED BY <1>4, <2>3, <2>5, <2>7, <2>8 DEF t
<1>10. ASSUME marks # <<>>
       PROVE  HasDecimals(Groups(t), Marks(t), mark, d)
              /\ FlattenSeq(Front(Groups(t))) = digits /\ Last(Groups(t)) = p
  <2>1. Front(Append(groups, p)) = groups /\ Last(Append(groups, p)) = p
    <3>1. p \in V
      OBVIOUS
    <3> HIDE DEF groups, V
    <3> QED BY <1>7, <3>1, FrontOfAppend
  <2>2. Front(Append(marks, d)) = marks /\ Last(Append(marks, d)) = d /\ Len(Append(marks, d)) = Len(marks) + 1
    BY <1>7, FrontOfAppend, AppendProperties
  <2>3. Len(marks) # 0
    BY <1>7, <1>10, EmptySeq
  <2> HIDE DEF groups, marks
  <2> QED BY <1>1, <1>3, <1>6, <1>7, <1>10, <2>1, <2>2, <2>3 DEF HasDecimals
<1>11. CASE marks # <<>> /\ mark = Space
  <2>1. IsSpaced(t)
    BY <1>10, <1>11 DEF IsSpaced
  <2>2. digits \in Seq(X) /\ \A i \in 1..Len(digits) : digits[i] \in Digits
    BY <1>11, CleanIsDigits
  <2>3. IsDigits(digits)
    BY <2>2 DEF IsDigits
  <2> DEFINE clean == (digits \o <<d>>) \o p
  <2>4. Groups(clean) = <<digits, p>> /\ Marks(clean) = <<d>> /\ IsDecimal(<<digits, p>>, <<d>>)
    BY <2>2, <2>3, DecimalOfDigits
  <2>5. clean = Clean(t)
    <3> DEFINE one == <<d>>
               S == X \ {Space}
    <3>1. one \in Seq(X) /\ one \in Seq(S) /\ S \subseteq X
      <4>1. d # Space
        BY DEF Point, Comma, Space
      <4> QED BY <4>1
    <3>2. p \in Seq(S)
      <4>1. \A i \in 1..Len(p) : p[i] # Space
        BY <1>3 DEF Digits, Space
      <4>2. p \in [1..Len(p) -> S]
        BY <4>1
      <4> HIDE DEF S
      <4> QED BY <1>3, <4>2
    <3>3. Kept(w, S) = digits
      BY <1>1, <1>11, CleanIs
    <3>4. S \subseteq S
      OBVIOUS
    <3> HIDE DEF one, S
    <3>5. Kept(one, S) = one /\ Kept(p, S) = p
      BY <3>1, <3>2, <3>4, KeptOfAll
    <3> DEFINE u == w \o one
    <3>6. u \in Seq(X)
      BY <3>1, ConcatProperties
    <3>7. Kept(u, S) = Kept(w, S) \o Kept(one, S)
      BY <3>1, KeptOfBoth
    <3> HIDE DEF u
    <3>8. Kept(u \o p, S) = Kept(u, S) \o Kept(p, S)
      BY <3>6, KeptOfBoth
    <3>9. Clean(t) = Kept(t, S)
      BY <1>2, CleanIs DEF S
    <3>10. t = u \o p /\ clean = (digits \o one) \o p
      BY DEF t, u, one
    <3> QED BY <3>3, <3>5, <3>7, <3>8, <3>9, <3>10
  <2> HIDE DEF clean
  <2>6. Value(Groups(clean)[1], Last(Groups(clean))) \in Denoted(t)
    <3>1. IsDecimal(Groups(clean), Marks(clean))
      BY <2>4
    <3> QED BY <2>5, <3>1, Readings
  <2>7. Groups(clean)[1] = digits /\ Last(Groups(clean)) = p
    BY <2>4 DEF Last
  <2>8. Value(digits, p) \in Denoted(t)
    BY <2>6, <2>7
  <2>9. ~(mark # Space)
    BY <1>11
  <2> QED BY <1>4, <2>1, <2>8, <2>9 DEF t
<1>12. CASE marks # <<>> /\ mark # Space
  <2>1. mark \in {Comma, Point} /\ d \in {Comma, Point}
    BY <1>12
  <2>2. Clean(t) = t
    BY <1>8, <1>12
  <2>3. HasDecimals(Groups(t), Marks(t), mark, d)
        /\ FlattenSeq(Front(Groups(t))) = digits /\ Last(Groups(t)) = p
    BY <1>10, <1>12
  <2>4. Value(FlattenSeq(Front(Groups(t))), Last(Groups(t))) \in Denoted(t)
    <3>1. t = Clean(t) /\ mark # d
      BY <2>2
    <3> QED BY <2>1, <2>3, <3>1, Readings
  <2>5. IsPlain(t)
    <3>1. Range(Marks(t)) \subseteq {Point, Comma}
      <4>1. \A i \in 1..Len(marks) : marks[i] = mark
        BY <1>1, <1>7 DEF All
      <4>2. /\ Append(marks, d) \in Seq(X) /\ Len(Append(marks, d)) = Len(marks) + 1
            /\ \A i \in 1..Len(marks) : Append(marks, d)[i] = marks[i]
            /\ Append(marks, d)[Len(marks) + 1] = d
        BY <1>7, AppendProperties
      <4> HIDE DEF marks
      <4>3. \A i \in 1..(Len(marks) + 1) : Append(marks, d)[i] \in {Point, Comma}
        BY <1>7, <2>1, <4>1, <4>2
      <4>4. DOMAIN Append(marks, d) = 1..(Len(marks) + 1)
        BY <4>2, LenProperties
      <4> QED BY <1>6, <4>3, <4>4 DEF Range
    <3>2. <<>> \notin Range(Groups(t))
      <4> DEFINE g == Append(groups, p)
      <4>1. /\ g \in Seq(V) /\ Len(g) = Len(groups) + 1 /\ Len(groups) \in Nat
            /\ \A i \in 1..Len(groups) : g[i] = groups[i]
            /\ g[Len(groups) + 1] = p
        <5>1. p \in V
          OBVIOUS
        <5> HIDE DEF V, groups
        <5> QED BY <1>7, <5>1, AppendProperties, LenProperties
      <4>2. DOMAIN groups = 1..Len(groups)
        <5> HIDE DEF V, groups
        <5> QED BY <1>7, LenProperties
      <4>3. \A i \in 1..Len(groups) : groups[i] # <<>>
        <5> HIDE DEF groups
        <5> QED BY <1>1, <4>2 DEF Range
      <4>4. DOMAIN g = 1..(Len(groups) + 1)
        <5> HIDE DEF V, groups, g
        <5> QED BY <4>1, LenProperties
      <4> HIDE DEF groups, V, g
      <4>5. \A i \in DOMAIN g : g[i] # <<>>
        BY <1>3, <4>1, <4>3, <4>4
      <4>6. Groups(t) = g
        BY <1>6 DEF g
      <4> QED BY <4>5, <4>6 DEF Range
    <3> QED BY <3>1, <3>2 DEF IsPlain
  <2> QED BY <1>4, <2>3, <2>4, <2>5 DEF t
<1> QED BY <1>9, <1>11, <1>12
===============================================================================
