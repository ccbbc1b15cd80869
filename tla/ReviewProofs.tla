----------------------------- MODULE ReviewProofs -----------------------------
(***************************************************************************)
(* What a reviewer sees is what the gates found, for any draft, record,    *)
(* history of sends and length of text.  The report and the screen are     *)
(* computed once, from the input (ReportInv); the rest is about what the   *)
(* gates and the dashboard compute: where claims are found, what is left   *)
(* for the later ones, which outcomes there are and how a body is cut.     *)
(***************************************************************************)
EXTENDS ReviewProperties, NumbersProofs

\* The screen is a record of these fields; what is in the first and the third
\* does not matter here.
ScreenType ==
    screen = None \/ screen \in [segments : {screen.segments}, isEditing : BOOLEAN,
                                 editedBody : {screen.editedBody},
                                 decision : {None, "approved", "rejected"}]

\* What is typed stays in the editor until it is approved.
TypedIsHeld ==
    screen # None /\ ~screen.isEditing /\ screen.decision # "approved" =>
        screen.editedBody = Draft.body

\* The inductive invariant.
ScreenInv == ScreenType /\ TypedIsHeld

\* There is no screen at the start.
LEMMA InitEstablishes == Init => ScreenInv
BY DEF Init, ScreenInv, ScreenType, TypedIsHeld

\* No step of the reviewer leaves typed text outside of the editor but an approval.
LEMMA StepPreserves == ScreenInv /\ [Next]_vars => ScreenInv'
<1> SUFFICES ASSUME ScreenInv, [Next]_vars
             PROVE  ScreenInv'
  OBVIOUS
<1> USE DEF ScreenInv, ScreenType, TypedIsHeld, Draft
<1>1. CASE Gate
  BY <1>1 DEF Gate
<1>2. CASE Open
  BY <1>2 DEF Open
<1>3. CASE EditAndApprove
  BY <1>3 DEF EditAndApprove, Undecided, Shows
<1>4. CASE Type
  BY <1>4 DEF Type, Undecided, Shows
<1>5. CASE CancelEdit
  BY <1>5 DEF CancelEdit, Undecided, Shows, WithoutEdit
<1>6. CASE Approve
  BY <1>6 DEF Approve, Undecided, Shows
<1>7. CASE Reject
  BY <1>7, NoneIsNoValue DEF Reject, Undecided, Shows
<1>8. CASE UNCHANGED vars
  BY <1>8 DEF vars
<1>9. QED
  BY <1>1, <1>2, <1>3, <1>4, <1>5, <1>6, <1>7, <1>8 DEF Next

\* Outside of the editor the screen has the text that the gates saw, unless an
\* edit was approved, whatever the drafts and the edits.
THEOREM GatedTextIsShown == Spec => []ScreenHasGatedText
<1>1. ScreenInv => ScreenHasGatedText
  BY DEF ScreenInv, TypedIsHeld, ScreenHasGatedText, IsModified, CurrentBody
<1>2. QED
  BY <1>1, InitEstablishes, StepPreserves, PTL DEF Spec

-----------------------------------------------------------------------------
(* Where a claim is found. *)

\* The leftmost of some spans is one of them, and none starts before it.
LEMMA LeftmostIs ==
    ASSUME NEW S \in SUBSET [start : Nat, end : Nat]
    PROVE  /\ S = {} <=> Leftmost(S) = None
           /\ S # {} => Leftmost(S) \in S /\ \A t \in S : Leftmost(S).start <= t.start
<1>1. CASE S = {}
  BY <1>1 DEF Leftmost
<1>2. CASE S # {}
  <2> DEFINE Starts == {s.start : s \in S}
  <2>1. Starts \in SUBSET Nat /\ Starts # {}
    BY <1>2
  <2>2. PICK n \in Starts : \A m \in Starts : n <= m
    <3> HIDE DEF Starts
    <3> QED BY <2>1, LeastNatural
  <2>3. PICK s \in S : n = s.start
    OBVIOUS
  <2>4. \A t \in S : s.start <= t.start
    BY <2>2, <2>3
  <2>5. Leftmost(S) = CHOOSE u \in S : \A t \in S : u.start <= t.start
    BY <1>2 DEF Leftmost
  <2>6. Leftmost(S) \in S /\ \A t \in S : Leftmost(S).start <= t.start
    BY <2>4, <2>5
  <2>7. Leftmost(S) # None
    BY <2>6, NoneIsNoSpan DEF Span
  <2> QED BY <1>2, <2>6, <2>7
<1> QED BY <1>1, <1>2

\* A place where a claim occurs leaves room for all of it.
LEMMA OccurrencesAre ==
    ASSUME NEW text \in Seq(Symbols), NEW claim \in Seq(Symbols)
    PROVE  /\ Len(text) \in Nat /\ Len(claim) \in Nat
           /\ claim # <<>> => Len(claim) # 0
           /\ Occurrences(text, claim) \in SUBSET Nat
           /\ \A at \in Occurrences(text, claim) :
                 /\ at + Len(claim) <= Len(text)
                 /\ SpanAt(claim, at) \in [start : Nat, end : Nat]
                 /\ SpanAt(claim, at).start = at
                 /\ SpanAt(claim, at).end = at + Len(claim)
<1>1. Len(text) \in Nat /\ Len(claim) \in Nat /\ (claim # <<>> => Len(claim) # 0)
  OBVIOUS
<1>2. Occurrences(text, claim) \in SUBSET Nat
  BY <1>1 DEF Occurrences
<1>3. \A at \in Occurrences(text, claim) : at + Len(claim) <= Len(text)
  BY DEF Occurrences, Occurs
<1>4. \A at \in Nat : /\ SpanAt(claim, at) \in [start : Nat, end : Nat]
                      /\ SpanAt(claim, at).start = at
                      /\ SpanAt(claim, at).end = at + Len(claim)
  BY <1>1 DEF SpanAt
<1> QED BY <1>1, <1>2, <1>3, <1>4

\* The spans that a claim may have.
SpansIn(text, claim) == {SpanAt(claim, at) : at \in Occurrences(text, claim)}

\* They are spans, and none for a claim that is not in the text.
LEMMA SpansInAre ==
    ASSUME NEW text \in Seq(Symbols), NEW claim \in Seq(Symbols)
    PROVE  SpansIn(text, claim) \in SUBSET [start : Nat, end : Nat]
BY OccurrencesAre DEF SpansIn

\* spansOf finds only places where the claim is.
LEMMA SpansOfAreIn ==
    ASSUME NEW text \in Seq(Symbols), NEW claim \in Seq(Symbols) \ {<<>>}
    PROVE  SpansOf(text, claim) \in SUBSET SpansIn(text, claim)
<1> DEFINE D == 0..Len(text)
           V == SUBSET SpansIn(text, claim)
           hits(from) == {at \in Occurrences(text, claim) : at >= from}
           leaves == {d \in D : hits(d) = {}}
           rank == [d \in D |-> Len(text) - d]
           base == [d \in D |-> {}]
           down == [d \in D |-> Min(hits(d)) + Len(claim)]
           step == [p \in D \X V |-> {SpanAt(claim, Min(hits(p[1])))} \cup p[2]]
           Scans(s) == s = [from \in D |->
               IF hits(from) = {} THEN {}
               ELSE {SpanAt(claim, Min(hits(from)))} \cup s[Min(hits(from)) + Len(claim)]]
<1>1. /\ Len(text) \in Nat /\ Len(claim) \in Nat /\ Len(claim) # 0
      /\ Occurrences(text, claim) \in SUBSET Nat
      /\ \A at \in Occurrences(text, claim) : at + Len(claim) <= Len(text)
  BY OccurrencesAre
<1>2. rank \in [D -> Nat] /\ \A d \in D : base[d] \in V
  BY <1>1
<1>3. ASSUME NEW d \in D \ leaves
      PROVE  /\ down[d] = Min(hits(d)) + Len(claim)
             /\ down[d] \in D /\ rank[down[d]] < rank[d]
             /\ SpanAt(claim, Min(hits(d))) \in SpansIn(text, claim)
  <2>1. hits(d) \in SUBSET Nat /\ hits(d) # {}
    BY <1>1
  <2>2. Min(hits(d)) \in hits(d)
    <3>1. \E n \in hits(d) : \A m \in hits(d) : n <= m
      <4> HIDE DEF hits
      <4> QED BY <2>1, LeastNatural
    <3> HIDE DEF hits
    <3> QED BY <3>1 DEF Min
  <2> DEFINE m == Min(hits(d))
  <2>3. m \in Occurrences(text, claim) /\ m >= d
    BY <2>2
  <2>4. m \in Nat /\ d \in Nat /\ m + Len(claim) <= Len(text)
    <3> HIDE DEF m
    <3> QED BY <1>1, <2>3
  <2>5. down[d] = m + Len(claim)
    OBVIOUS
  <2>6. SpanAt(claim, m) \in SpansIn(text, claim)
    <3> HIDE DEF m
    <3> QED BY <2>3 DEF SpansIn
  <2> HIDE DEF m, hits, down
  <2>7. down[d] \in D /\ rank[down[d]] = Len(text) - down[d] /\ rank[d] = Len(text) - d
    BY <1>1, <2>3, <2>4, <2>5
  <2> QED BY <1>1, <2>3, <2>4, <2>5, <2>6, <2>7 DEF m
<1>4. ASSUME NEW d \in D \ leaves, NEW v \in V
      PROVE  /\ step[<<d, v>>] = {SpanAt(claim, Min(hits(d)))} \cup v
             /\ step[<<d, v>>] \in V
  <2>1. <<d, v>> \in D \X V
    OBVIOUS
  <2>2. step[<<d, v>>] = {SpanAt(claim, Min(hits(d)))} \cup v
    BY <2>1
  <2> HIDE DEF step, hits, leaves, D
  <2> QED BY <1>3, <2>2
<1>5. PICK f \in [D -> V] : Computes(f, leaves, base, down, step)
  <2> HIDE DEF D, V, leaves, rank, base, down, step
  <2> QED BY <1>2, <1>3, <1>4, RecursionExists
<1>6. Scans(f)
  <2>1. ASSUME NEW d \in D
        PROVE  f[d] = IF hits(d) = {} THEN {}
                      ELSE {SpanAt(claim, Min(hits(d)))} \cup f[Min(hits(d)) + Len(claim)]
    <3>1. f[d] = IF d \in leaves THEN base[d] ELSE step[<<d, f[down[d]]>>]
      BY <1>5 DEF Computes
    <3>2. CASE d \in leaves
      BY <3>1, <3>2
    <3>3. CASE d \notin leaves
      <4>1. hits(d) # {}
        BY <3>3
      <4>2. down[d] = Min(hits(d)) + Len(claim) /\ f[down[d]] \in V
        <5> HIDE DEF D, V, leaves, rank, base, down, step, hits
        <5> QED BY <1>3, <3>3
      <4>3. step[<<d, f[down[d]]>>] = {SpanAt(claim, Min(hits(d)))} \cup f[down[d]]
        <5> HIDE DEF D, V, leaves, rank, base, down, step, hits
        <5> QED BY <1>4, <3>3, <4>2
      <4> HIDE DEF D, V, leaves, rank, base, down, step, hits
      <4> QED BY <3>1, <3>3, <4>1, <4>2, <4>3
    <3> QED BY <3>2, <3>3
  <2> HIDE DEF hits
  <2> QED BY <2>1
<1> DEFINE c == CHOOSE s : Scans(s)
<1>7. Scans(c)
  <2> HIDE DEF Scans
  <2> QED BY <1>6
<1>8. SpansOf(text, claim) = c[0]
  BY DEF SpansOf
<1> HIDE DEF c
<1>9. \A d \in D : c[d] \in V
  <2> DEFINE T == {d \in D : c[d] \in V}
  <2>1. ASSUME NEW d \in D, \A e \in D : rank[e] < rank[d] => e \in T
        PROVE  d \in T
    <3>1. c[d] = IF hits(d) = {} THEN {}
                 ELSE {SpanAt(claim, Min(hits(d)))} \cup c[Min(hits(d)) + Len(claim)]
      BY <1>7
    <3>2. CASE d \in leaves
      BY <3>1, <3>2
    <3>3. CASE d \notin leaves
      <4>1. hits(d) # {}
        BY <3>3
      <4>2. down[d] = Min(hits(d)) + Len(claim) /\ c[down[d]] \in V
            /\ SpanAt(claim, Min(hits(d))) \in SpansIn(text, claim)
        <5> HIDE DEF D, V, leaves, rank, base, down, step, hits
        <5> QED BY <1>3, <2>1, <3>3
      <4> HIDE DEF rank, down, step, hits, leaves, D
      <4> QED BY <3>1, <4>1, <4>2
    <3> QED BY <3>2, <3>3
  <2>2. D \subseteq T
    <3> HIDE DEF D, rank, T
    <3> QED BY <1>2, <2>1, RankInduction
  <2> QED BY <2>2
<1>10. 0 \in D
  BY <1>1
<1> HIDE DEF D, V
<1> QED BY <1>8, <1>9, <1>10 DEF V

-----------------------------------------------------------------------------
(* The claims of a draft, each in its turn. *)

\* What the turns before the i-th have taken.
TakenBefore(spans, i) == {spans[j] : j \in 1..(i - 1)} \ {None}

\* A turn of g05EvidenceGrounding takes a span of the claim that is clear of all
\* that is taken, if there is one.
LEMMA FirstFreeIs ==
    ASSUME NEW text \in Seq(Symbols), NEW claim \in Seq(Symbols) \ {<<>>}, NEW taken
    PROVE  /\ FirstFreeSpan(text, claim, taken) \in SpansIn(text, claim) \cup {None}
           /\ FirstFreeSpan(text, claim, taken) \in SpansOf(text, claim) \cup {None}
           /\ FirstFreeSpan(text, claim, taken) # None =>
                 \A t \in taken : ~Overlap(FirstFreeSpan(text, claim, taken), t)
           /\ FirstFreeSpan(text, claim, taken) = None =>
                 \A s \in SpansOf(text, claim) : \E t \in taken : Overlap(s, t)
<1> DEFINE free == {s \in SpansOf(text, claim) : \A t \in taken : ~Overlap(s, t)}
<1>1. free \in SUBSET SpansIn(text, claim)
  BY SpansOfAreIn
<1>2. free \in SUBSET [start : Nat, end : Nat]
  BY <1>1, SpansInAre
<1>3. FirstFreeSpan(text, claim, taken) = Leftmost(free)
  BY DEF FirstFreeSpan
<1>4. free = {} <=> Leftmost(free) = None
  BY <1>2, LeftmostIs
<1>5. free # {} => Leftmost(free) \in free
  BY <1>2, LeftmostIs
<1> QED BY <1>1, <1>3, <1>4, <1>5

\* A turn of locateClaims takes a span of the claim that is not taken, if there
\* is one, and none before it is free.
LEMMA LocateIs ==
    ASSUME NEW text \in Seq(Symbols), NEW claim \in Seq(Symbols) \ {<<>>}, NEW taken
    PROVE  /\ LocateClaim(text, claim, taken) \in SpansIn(text, claim) \cup {None}
           /\ LocateClaim(text, claim, taken) # None =>
                 /\ LocateClaim(text, claim, taken) \notin taken
                 /\ \A s \in SpansIn(text, claim) \ taken :
                       LocateClaim(text, claim, taken).start <= s.start
           /\ LocateClaim(text, claim, taken) = None => SpansIn(text, claim) \subseteq taken
<1> DEFINE free == SpansIn(text, claim) \ taken
<1>1. free \in SUBSET [start : Nat, end : Nat]
  BY SpansInAre
<1>2. LocateClaim(text, claim, taken) = Leftmost(free)
  BY DEF LocateClaim, SpansIn
<1>3. free = {} <=> Leftmost(free) = None
  BY <1>1, LeftmostIs
<1>4. free # {} => Leftmost(free) \in free /\ \A t \in free : Leftmost(free).start <= t.start
  BY <1>1, LeftmostIs
<1> QED BY <1>2, <1>3, <1>4

\* The spans of a sequence of claims: a span, or None.
Spanned == [start : Nat, end : Nat] \cup {None}

\* g computes the spans of the claims by what find finds for each.
TakesTurns(g, claims, find) ==
    /\ DOMAIN g = 0..Len(claims)
    /\ \A n \in 0..Len(claims) :
          g[n] = IF n = 0 THEN <<>> ELSE Append(g[n - 1], find[<<n, Found(g[n - 1])>>])

\* The n spans are what find finds for each claim after those before it.
FoundInTurn(spans, n, find) ==
    /\ spans \in [1..n -> Spanned]
    /\ \A i \in 1..n : spans[i] = find[<<i, TakenBefore(spans, i)>>]

\* What is found in the turns is what each finds after those before it.
LEMMA TurnsAre ==
    ASSUME NEW claims \in Seq(Seq(Symbols)), NEW find,
           \A n \in 1..Len(claims) : \A taken \in SUBSET Spanned : find[<<n, taken>>] \in Spanned,
           NEW g, TakesTurns(g, claims, find)
    PROVE  FoundInTurn(g[Len(claims)], Len(claims), find)
<1> DEFINE D == 0..Len(claims)
           rank == [n \in D |-> n]
           T == {n \in D : /\ g[n] \in [1..n -> Spanned]
                           /\ \A i \in 1..n : g[n][i] = find[<<i, TakenBefore(g[n], i)>>]}
<1>1. Len(claims) \in Nat
  OBVIOUS
<1>2. rank \in [D -> Nat]
  BY <1>1
<1>3. ASSUME NEW n \in D, \A e \in D : rank[e] < rank[n] => e \in T
      PROVE  n \in T
  <2>1. CASE n = 0
    <3>1. g[n] = <<>>
      BY <2>1 DEF TakesTurns
    <3>2. 1..n = {} /\ g[n] \in Seq(Spanned) /\ Len(g[n]) = n
      BY <2>1, <3>1
    <3>3. g[n] \in [1..n -> Spanned]
      BY <3>2
    <3> QED BY <3>2, <3>3
  <2>2. CASE n # 0
    <3> DEFINE m == n - 1
               before == g[m]
               new == find[<<n, Found(before)>>]
    <3>1. n \in Nat /\ m \in D /\ m \in Nat /\ rank[m] < rank[n] /\ n = m + 1
      BY <1>1, <2>2
    <3>2. before \in [1..m -> Spanned] /\ \A i \in 1..m : before[i] = find[<<i, TakenBefore(before, i)>>]
      BY <1>3, <3>1
    <3>3. g[n] = Append(before, new)
      BY <2>2 DEF TakesTurns
    <3> HIDE DEF m, before, D, rank
    <3>4. before \in Seq(Spanned) /\ Len(before) = m
      BY <3>1, <3>2
    <3>5. Found(before) = {before[j] : j \in 1..(n - 1)} \ {None} /\ Found(before) \in SUBSET Spanned
      <4>1. Range(before) = {before[j] : j \in 1..m}
        BY <3>2 DEF Range
      <4>2. n - 1 = m
        BY <3>1
      <4> QED BY <3>2, <4>1, <4>2 DEF Found
    <3>6. new \in Spanned
      <4>1. n \in 1..Len(claims)
        BY <1>1, <3>1, <2>2 DEF D
      <4> QED BY <3>5, <4>1
    <3> HIDE DEF new
    <3>7. /\ g[n] \in [1..n -> Spanned] /\ g[n][n] = new
          /\ \A j \in 1..m : g[n][j] = before[j]
      <4>1. g[n] \in Seq(Spanned) /\ Len(g[n]) = n
        BY <3>1, <3>3, <3>4, <3>6
      <4>2. g[n] \in [1..n -> Spanned]
        BY <4>1
      <4>3. g[n][n] = new
        BY <3>1, <3>3, <3>4, <3>6
      <4>4. \A j \in 1..m : g[n][j] = before[j]
        BY <3>1, <3>3, <3>4, <3>6
      <4> QED BY <4>2, <4>3, <4>4
    <3>8. ASSUME NEW i \in 1..n
          PROVE  g[n][i] = find[<<i, TakenBefore(g[n], i)>>]
      <4>1. \A j \in 1..(i - 1) : j \in 1..m
        BY <3>1
      <4>2. TakenBefore(g[n], i) = TakenBefore(before, i)
        BY <3>7, <4>1 DEF TakenBefore
      <4>3. CASE i = n
        <5>1. TakenBefore(before, n) = Found(before)
          BY <3>5 DEF TakenBefore
        <5> QED BY <3>7, <4>2, <4>3, <5>1 DEF new
      <4>4. CASE i # n
        <5>1. i \in 1..m
          BY <3>1, <4>4
        <5> QED BY <3>2, <3>7, <4>2, <5>1
      <4> QED BY <4>3, <4>4
    <3> QED BY <3>7, <3>8
  <2> QED BY <2>1, <2>2
<1>4. D \subseteq T
  <2> HIDE DEF D, rank, T
  <2> QED BY <1>2, <1>3, RankInduction
<1>5. Len(claims) \in D
  BY <1>1
<1> HIDE DEF D
<1> QED BY <1>4, <1>5 DEF FoundInTurn

\* A sequence of spans can be computed by any way to find them.
LEMMA TurnsExist ==
    ASSUME NEW claims \in Seq(Seq(Symbols) \ {<<>>}), NEW find,
           \A n \in 1..Len(claims) : \A taken \in SUBSET Spanned : find[<<n, taken>>] \in Spanned
    PROVE  \E g \in [0..Len(claims) -> Seq(Spanned)] : TakesTurns(g, claims, find)
<1> DEFINE D == 0..Len(claims)
           V == Seq(Spanned)
           leaves == {0}
           rank == [n \in D |-> n]
           base == [n \in D |-> <<>>]
           down == [n \in D |-> n - 1]
           step == [p \in D \X V |-> Append(p[2], find[<<p[1], Found(p[2])>>])]
<1>1. Len(claims) \in Nat
  OBVIOUS
<1>2. rank \in [D -> Nat] /\ \A d \in D \cap leaves : base[d] \in V
  BY <1>1
<1>3. ASSUME NEW d \in D \ leaves
      PROVE  down[d] = d - 1 /\ down[d] \in D /\ rank[down[d]] < rank[d]
  BY <1>1
<1>4. ASSUME NEW d \in D \ leaves, NEW v \in V
      PROVE  /\ step[<<d, v>>] = Append(v, find[<<d, Found(v)>>])
             /\ step[<<d, v>>] \in V
  <2>1. <<d, v>> \in D \X V
    OBVIOUS
  <2>2. step[<<d, v>>] = Append(v, find[<<d, Found(v)>>])
    BY <2>1
  <2>3. Found(v) \in SUBSET Spanned
    BY DEF Found, Range
  <2>4. d \in 1..Len(claims)
    BY <1>1
  <2>5. find[<<d, Found(v)>>] \in Spanned
    BY <2>3, <2>4
  <2> HIDE DEF step
  <2> QED BY <2>2, <2>5
<1>5. PICK g \in [D -> V] : Computes(g, leaves, base, down, step)
  <2> HIDE DEF D, V, leaves, rank, base, down, step
  <2> QED BY <1>2, <1>3, <1>4, RecursionExists
<1>6. ASSUME NEW n \in D
      PROVE  g[n] = IF n = 0 THEN <<>> ELSE Append(g[n - 1], find[<<n, Found(g[n - 1])>>])
  <2>1. g[n] = IF n \in leaves THEN base[n] ELSE step[<<n, g[down[n]]>>]
    BY <1>5 DEF Computes
  <2>2. CASE n = 0
    BY <2>1, <2>2
  <2>3. CASE n # 0
    <3>1. down[n] = n - 1 /\ g[n - 1] \in V
      BY <1>1, <2>3
    <3>2. step[<<n, g[n - 1]>>] = Append(g[n - 1], find[<<n, Found(g[n - 1])>>])
      <4> HIDE DEF step
      <4> QED BY <1>4, <2>3, <3>1
    <3> HIDE DEF step
    <3> QED BY <2>1, <2>3, <3>1, <3>2
  <2> QED BY <2>2, <2>3
<1>7. TakesTurns(g, claims, find)
  BY <1>6 DEF TakesTurns
<1> QED BY <1>5, <1>7

\* Every turn of the loop of g05EvidenceGrounding.
LEMMA GroundsAre ==
    ASSUME NEW text \in Seq(Symbols), NEW claims \in Seq(Seq(Symbols) \ {<<>>})
    PROVE  /\ GroundClaims(text, claims) \in [1..Len(claims) -> Spanned]
           /\ \A i \in 1..Len(claims) :
                 GroundClaims(text, claims)[i] =
                     FirstFreeSpan(text, claims[i], TakenBefore(GroundClaims(text, claims), i))
<1> DEFINE D == 0..Len(claims)
           find == [p \in (1..Len(claims)) \X SUBSET Spanned |-> FirstFreeSpan(text, claims[p[1]], p[2])]
           rank == [n \in D |-> n]
           Turns(s) == s = [n \in D |->
               IF n = 0 THEN <<>> ELSE Append(s[n - 1], FirstFreeSpan(text, claims[n], Found(s[n - 1])))]
<1>1. Len(claims) \in Nat /\ \A n \in 1..Len(claims) : claims[n] \in Seq(Symbols) \ {<<>>}
  OBVIOUS
<1>2. ASSUME NEW n \in 1..Len(claims), NEW taken \in SUBSET Spanned
      PROVE  /\ find[<<n, taken>>] = FirstFreeSpan(text, claims[n], taken)
             /\ find[<<n, taken>>] \in Spanned
  <2>1. <<n, taken>> \in (1..Len(claims)) \X SUBSET Spanned
    OBVIOUS
  <2>2. find[<<n, taken>>] = FirstFreeSpan(text, claims[n], taken)
    BY <2>1
  <2>3. FirstFreeSpan(text, claims[n], taken) \in SpansIn(text, claims[n]) \cup {None}
    BY <1>1, FirstFreeIs
  <2>4. SpansIn(text, claims[n]) \in SUBSET [start : Nat, end : Nat]
    <3>1. claims[n] \in Seq(Symbols)
      BY <1>1
    <3> QED BY <3>1, SpansInAre
  <2> HIDE DEF find
  <2> QED BY <2>2, <2>3, <2>4 DEF Spanned
<1> HIDE DEF find
<1>3. PICK g \in [D -> Seq(Spanned)] : TakesTurns(g, claims, find)
  BY <1>1, <1>2, TurnsExist
<1>4. Turns(g)
  <2>1. ASSUME NEW n \in D
        PROVE  g[n] = IF n = 0 THEN <<>>
                      ELSE Append(g[n - 1], FirstFreeSpan(text, claims[n], Found(g[n - 1])))
    <3>1. g[n] = IF n = 0 THEN <<>> ELSE Append(g[n - 1], find[<<n, Found(g[n - 1])>>])
      BY <1>3 DEF TakesTurns
    <3>2. CASE n = 0
      BY <3>1, <3>2
    <3>3. CASE n # 0
      <4>1. n \in 1..Len(claims) /\ n - 1 \in D
        BY <1>1, <3>3
      <4>2. Found(g[n - 1]) \in SUBSET Spanned
        <5>1. g[n - 1] \in Seq(Spanned)
          BY <4>1
        <5> QED BY <5>1 DEF Found, Range
      <4> QED BY <1>2, <3>1, <3>3, <4>1, <4>2
    <3> QED BY <3>2, <3>3
  <2> QED BY <2>1
<1> DEFINE c == CHOOSE s : Turns(s)
<1>5. Turns(c)
  <2> HIDE DEF Turns
  <2> QED BY <1>4
<1>6. GroundClaims(text, claims) = c[Len(claims)]
  BY DEF GroundClaims, InTurn
<1> HIDE DEF c
<1>7. c[Len(claims)] = g[Len(claims)]
  <2> DEFINE Same == {n \in D : c[n] = g[n]}
  <2>1. rank \in [D -> Nat]
    BY <1>1
  <2>2. ASSUME NEW n \in D, \A e \in D : rank[e] < rank[n] => e \in Same
        PROVE  n \in Same
    <3>1. CASE n = 0
      BY <1>4, <1>5, <3>1
    <3>2. CASE n # 0
      <4>1. n - 1 \in D /\ rank[n - 1] < rank[n]
        BY <1>1, <3>2
      <4>2. c[n - 1] = g[n - 1]
        BY <2>2, <4>1
      <4> QED BY <1>4, <1>5, <3>2, <4>2
    <3> QED BY <3>1, <3>2
  <2>3. D \subseteq Same
    <3> HIDE DEF D, rank, Same
    <3> QED BY <2>1, <2>2, RankInduction
  <2>4. Len(claims) \in D
    BY <1>1
  <2> QED BY <2>3, <2>4
<1>8. claims \in Seq(Seq(Symbols))
  OBVIOUS
<1>9. FoundInTurn(g[Len(claims)], Len(claims), find)
  <2>1. \A n \in 1..Len(claims) : \A taken \in SUBSET Spanned : find[<<n, taken>>] \in Spanned
    BY <1>2
  <2>2. TakesTurns(g, claims, find)
    BY <1>3
  <2> HIDE DEF D, rank, Turns
  <2> QED BY <1>8, <2>1, <2>2, TurnsAre, Zenon
<1> DEFINE spans == g[Len(claims)]
<1>10. ASSUME NEW i \in 1..Len(claims)
       PROVE  find[<<i, TakenBefore(spans, i)>>] = FirstFreeSpan(text, claims[i], TakenBefore(spans, i))
  <2>1. TakenBefore(spans, i) \in SUBSET Spanned
    <3>1. \A j \in 1..(i - 1) : j \in 1..Len(claims)
      BY <1>1
    <3> HIDE DEF spans
    <3> QED BY <1>9, <3>1 DEF TakenBefore, FoundInTurn, spans
  <2> QED BY <1>2, <2>1
<1> QED BY <1>6, <1>7, <1>9, <1>10 DEF FoundInTurn

\* Every turn of locateClaims.
LEMMA LocatedAre ==
    ASSUME NEW text \in Seq(Symbols), NEW claims \in Seq(Seq(Symbols) \ {<<>>})
    PROVE  /\ LocateClaims(text, claims) \in [1..Len(claims) -> Spanned]
           /\ \A i \in 1..Len(claims) :
                 LocateClaims(text, claims)[i] =
                     LocateClaim(text, claims[i], TakenBefore(LocateClaims(text, claims), i))
<1> DEFINE D == 0..Len(claims)
           find == [p \in (1..Len(claims)) \X SUBSET Spanned |-> LocateClaim(text, claims[p[1]], p[2])]
           rank == [n \in D |-> n]
           Turns(s) == s = [n \in D |->
               IF n = 0 THEN <<>> ELSE Append(s[n - 1], LocateClaim(text, claims[n], Found(s[n - 1])))]
<1>1. Len(claims) \in Nat /\ \A n \in 1..Len(claims) : claims[n] \in Seq(Symbols) \ {<<>>}
  OBVIOUS
<1>2. ASSUME NEW n \in 1..Len(claims), NEW taken \in SUBSET Spanned
      PROVE  /\ find[<<n, taken>>] = LocateClaim(text, claims[n], taken)
             /\ find[<<n, taken>>] \in Spanned
  <2>1. <<n, taken>> \in (1..Len(claims)) \X SUBSET Spanned
    OBVIOUS
  <2>2. find[<<n, taken>>] = LocateClaim(text, claims[n], taken)
    BY <2>1
  <2>3. LocateClaim(text, claims[n], taken) \in SpansIn(text, claims[n]) \cup {None}
    BY <1>1, LocateIs
  <2>4. SpansIn(text, claims[n]) \in SUBSET [start : Nat, end : Nat]
    <3>1. claims[n] \in Seq(Symbols)
      BY <1>1
    <3> QED BY <3>1, SpansInAre
  <2> HIDE DEF find
  <2> QED BY <2>2, <2>3, <2>4 DEF Spanned
<1> HIDE DEF find
<1>3. PICK g \in [D -> Seq(Spanned)] : TakesTurns(g, claims, find)
  BY <1>1, <1>2, TurnsExist
<1>4. Turns(g)
  <2>1. ASSUME NEW n \in D
        PROVE  g[n] = IF n = 0 THEN <<>>
                      ELSE Append(g[n - 1], LocateClaim(text, claims[n], Found(g[n - 1])))
    <3>1. g[n] = IF n = 0 THEN <<>> ELSE Append(g[n - 1], find[<<n, Found(g[n - 1])>>])
      BY <1>3 DEF TakesTurns
    <3>2. CASE n = 0
      BY <3>1, <3>2
    <3>3. CASE n # 0
      <4>1. n \in 1..Len(claims) /\ n - 1 \in D
        BY <1>1, <3>3
      <4>2. Found(g[n - 1]) \in SUBSET Spanned
        <5>1. g[n - 1] \in Seq(Spanned)
          BY <4>1
        <5> QED BY <5>1 DEF Found, Range
      <4> QED BY <1>2, <3>1, <3>3, <4>1, <4>2
    <3> QED BY <3>2, <3>3
  <2> QED BY <2>1
<1> DEFINE c == CHOOSE s : Turns(s)
<1>5. Turns(c)
  <2> HIDE DEF Turns
  <2> QED BY <1>4
<1>6. LocateClaims(text, claims) = c[Len(claims)]
  BY DEF LocateClaims, InTurn
<1> HIDE DEF c
<1>7. c[Len(claims)] = g[Len(claims)]
  <2> DEFINE Same == {n \in D : c[n] = g[n]}
  <2>1. rank \in [D -> Nat]
    BY <1>1
  <2>2. ASSUME NEW n \in D, \A e \in D : rank[e] < rank[n] => e \in Same
        PROVE  n \in Same
    <3>1. CASE n = 0
      BY <1>4, <1>5, <3>1
    <3>2. CASE n # 0
      <4>1. n - 1 \in D /\ rank[n - 1] < rank[n]
        BY <1>1, <3>2
      <4>2. c[n - 1] = g[n - 1]
        BY <2>2, <4>1
      <4> QED BY <1>4, <1>5, <3>2, <4>2
    <3> QED BY <3>1, <3>2
  <2>3. D \subseteq Same
    <3> HIDE DEF D, rank, Same
    <3> QED BY <2>1, <2>2, RankInduction
  <2>4. Len(claims) \in D
    BY <1>1
  <2> QED BY <2>3, <2>4
<1>8. claims \in Seq(Seq(Symbols))
  OBVIOUS
<1>9. FoundInTurn(g[Len(claims)], Len(claims), find)
  <2>1. \A n \in 1..Len(claims) : \A taken \in SUBSET Spanned : find[<<n, taken>>] \in Spanned
    BY <1>2
  <2>2. TakesTurns(g, claims, find)
    BY <1>3
  <2> HIDE DEF D, rank, Turns
  <2> QED BY <1>8, <2>1, <2>2, TurnsAre, Zenon
<1> DEFINE spans == g[Len(claims)]
<1>10. ASSUME NEW i \in 1..Len(claims)
       PROVE  find[<<i, TakenBefore(spans, i)>>] = LocateClaim(text, claims[i], TakenBefore(spans, i))
  <2>1. TakenBefore(spans, i) \in SUBSET Spanned
    <3>1. \A j \in 1..(i - 1) : j \in 1..Len(claims)
      BY <1>1
    <3> HIDE DEF spans
    <3> QED BY <1>9, <3>1 DEF TakenBefore, FoundInTurn, spans
  <2> QED BY <1>2, <2>1
<1> QED BY <1>6, <1>7, <1>9, <1>10 DEF FoundInTurn

-----------------------------------------------------------------------------
(* What the variables hold. *)

\* The report is what the gates say of the draft, the saved one is what the
\* contract keeps of it, and the screen was cut at its marks.
ReportInv ==
    /\ IsInput(input)
    /\ report # None \/ saved # None =>
           report = RunGates(Draft, Merchant, GateContext) /\ saved = ToContractReport(report)
    /\ screen # None =>
           /\ saved # None
           /\ screen.segments = BuildBodySegments(Draft.body, ClaimsOf(Draft), FailingOutcomes)

\* An input is one of those considered.
LEMMA InitEstablishesReport == Init => ReportInv
<1> SUFFICES ASSUME Init
             PROVE  ReportInv
  OBVIOUS
<1>1. IsInput(input)
  BY ReviewAssumption DEF Init
<1> QED BY <1>1 DEF Init, ReportInv

\* The gates and the screen are what they were when they were computed: no step
\* of the reviewer reaches them.
LEMMA StepPreservesReport == ScreenInv /\ ReportInv /\ [Next]_vars => ReportInv'
<1> SUFFICES ASSUME ScreenInv, ReportInv, [Next]_vars
             PROVE  ReportInv'
  OBVIOUS
<1> DEFINE Segments == BuildBodySegments(Draft.body, ClaimsOf(Draft), FailingOutcomes)
           Judges == report = RunGates(Draft, Merchant, GateContext) /\ saved = ToContractReport(report)
<1>1. input' = input
  BY DEF Next, Gate, Open, EditAndApprove, Type, CancelEdit, Approve, Reject, Shows, vars
<1>2. IsInput(input)'
  BY <1>1 DEF ReportInv
<1>3. GateContext' = GateContext /\ Draft' = Draft
  BY <1>1 DEF GateContext, LoadPreviousApproach, OthersSends, Draft
<1>4. /\ IsInput(input)
      /\ report # None \/ saved # None => Judges
      /\ screen # None => saved # None /\ screen.segments = Segments
  BY DEF ReportInv
<1>5. ASSUME saved' = saved
      PROVE  Segments' = Segments
  BY <1>3, <1>5 DEF FailingOutcomes
<1>6. CASE Gate
  <2>1. /\ report' = RunGates(Draft, Merchant, GateContext) /\ saved' = ToContractReport(report')
        /\ screen' = screen
    BY <1>6 DEF Gate
  <2>2. Judges'
    BY <1>3, <2>1
  <2>3. ASSUME screen # None
        PROVE  saved' = saved
    <3>1. report # None \/ saved # None
      BY <1>4, <2>3
    <3> QED BY <1>3, <1>4, <2>1, <3>1
  <2> HIDE DEF Segments, Judges
  <2>4. (screen # None => saved # None /\ screen.segments = Segments)'
    BY <1>4, <1>5, <2>1, <2>3
  <2> QED BY <1>2, <2>2, <2>4 DEF ReportInv, Segments, Judges
<1>7. CASE UNCHANGED <<report, saved>>
  <2>1. Judges' <=> Judges
    BY <1>3, <1>7
  <2>2. (screen # None => saved # None /\ screen.segments = Segments)'
    <3> HIDE DEF Segments
    <3>1. Segments' = Segments
      BY <1>5, <1>7
    <3>2. CASE Open
      <4>1. saved # None /\ screen'.segments = Segments
        BY <3>2 DEF Open, Segments
      <4> QED BY <1>7, <3>1, <4>1
    <3>3. CASE UNCHANGED screen
      BY <1>4, <1>7, <3>1, <3>3
    <3>4. CASE \E next : /\ Undecided /\ screen' = next
                         /\ next.segments = screen.segments
      BY <1>4, <1>7, <3>1, <3>4 DEF Undecided
    <3>5. ASSUME Undecided
          PROVE  screen \in [segments : {screen.segments}, isEditing : BOOLEAN,
                             editedBody : {screen.editedBody},
                             decision : {None, "approved", "rejected"}]
      BY <3>5 DEF Undecided, ScreenInv, ScreenType
    <3>6. CASE EditAndApprove \/ Type \/ CancelEdit \/ Approve \/ Reject
      <4>1. Undecided
        BY <3>6 DEF EditAndApprove, Type, CancelEdit, Approve, Reject
      <4>2. screen'.segments = screen.segments
        BY <3>5, <3>6, <4>1 DEF EditAndApprove, Type, CancelEdit, Approve, Reject, Shows, WithoutEdit
      <4> QED BY <3>4, <4>1, <4>2
    <3>7. CASE Gate \/ UNCHANGED vars
      BY <3>3, <3>7 DEF Gate, vars
    <3> QED BY <3>2, <3>6, <3>7 DEF Next
  <2> HIDE DEF Segments, Judges
  <2>3. (report # None \/ saved # None => Judges)'
    BY <1>4, <1>7, <2>1
  <2> QED BY <1>2, <2>2, <2>3 DEF ReportInv, Segments, Judges
<1>8. Gate \/ UNCHANGED <<report, saved>>
  BY DEF Next, Open, EditAndApprove, Type, CancelEdit, Approve, Reject, Shows, vars
<1> QED BY <1>6, <1>7, <1>8

\* The report and the screen are always of the draft.
LEMMA ReportHolds == Spec => []ReportInv
<1>1. Init => ScreenInv /\ ReportInv
  BY InitEstablishes, InitEstablishesReport
<1>2. ScreenInv /\ ReportInv /\ [Next]_vars => (ScreenInv /\ ReportInv)'
  BY StepPreserves, StepPreservesReport
<1> QED BY <1>1, <1>2, PTL DEF Spec

\* The body and the claims of a draft are texts.
LEMMA DraftIs ==
    ASSUME ReportInv
    PROVE  /\ Draft.body \in Seq(Symbols)
           /\ DraftClaims \in Seq(Seq(Symbols) \ {<<>>})
           /\ DOMAIN DraftClaims = 1..Len(DraftClaims) /\ Len(DraftClaims) \in Nat
           /\ \A i \in 1..Len(DraftClaims) : DraftClaims[i] \in Seq(Symbols) \ {<<>>}
BY DEF ReportInv, IsInput, IsDraft, Draft, DraftClaims

-----------------------------------------------------------------------------
(* No two claims are grounded in the same words. *)

\* Whatever the body and the claims, a later claim is grounded clear of every
\* earlier one.
THEOREM GroundsAreAlwaysDisjoint == Spec => []GroundsAreDisjoint
<1>1. ASSUME ReportInv
      PROVE  GroundsAreDisjoint
  <2> DEFINE n == Len(DraftClaims)
  <2>1. /\ Grounded \in [1..n -> Spanned]
        /\ \A i \in 1..n : Grounded[i] =
              FirstFreeSpan(Draft.body, DraftClaims[i], TakenBefore(Grounded, i))
    BY <1>1, DraftIs, GroundsAre DEF Grounded
  <2>2. ASSUME NEW i \in 1..n, NEW j \in 1..n, j < i, Grounded[i] # None, Grounded[j] # None
        PROVE  ~Overlap(Grounded[i], Grounded[j]) /\ ~Overlap(Grounded[j], Grounded[i])
    <3>1. Grounded[j] \in TakenBefore(Grounded, i)
      <4>1. j \in 1..(i - 1)
        BY <1>1, <2>2, DraftIs
      <4> QED BY <2>2, <4>1 DEF TakenBefore
    <3>2. \A t \in TakenBefore(Grounded, i) : ~Overlap(Grounded[i], t)
      BY <1>1, <2>1, <2>2, DraftIs, FirstFreeIs
    <3> QED BY <3>1, <3>2 DEF Overlap
  <2>3. \A i, j \in 1..n : i # j => i < j \/ j < i
    BY <1>1, DraftIs
  <2>4. DOMAIN Grounded = 1..n
    BY <2>1
  <2> HIDE DEF n
  <2> QED BY <2>2, <2>3, <2>4 DEF GroundsAreDisjoint
<1> QED BY <1>1, ReportHolds, PTL

-----------------------------------------------------------------------------
(* Which claims are linked. *)

\* Two claims with one span are one claim.
LEMMA SpanTellsClaim ==
    ASSUME NEW text \in Seq(Symbols), NEW c \in Seq(Symbols), NEW d \in Seq(Symbols),
           NEW s \in SpansIn(text, c) \cap SpansIn(text, d)
    PROVE  c = d
<1>1. PICK at \in Occurrences(text, c) : s = SpanAt(c, at)
  BY DEF SpansIn
<1>2. PICK to \in Occurrences(text, d) : s = SpanAt(d, to)
  BY DEF SpansIn
<1>3. /\ at \in Nat /\ to \in Nat /\ Len(c) \in Nat /\ Len(d) \in Nat
      /\ s.start = at /\ s.end = at + Len(c) /\ s.start = to /\ s.end = to + Len(d)
  <2>1. at \in Nat /\ Len(c) \in Nat /\ s.start = at /\ s.end = at + Len(c)
    BY <1>1, OccurrencesAre
  <2>2. to \in Nat /\ Len(d) \in Nat /\ s.start = to /\ s.end = to + Len(d)
    BY <1>2, OccurrencesAre
  <2> QED BY <2>1, <2>2
<1>4. at = to /\ Len(c) = Len(d)
  BY <1>3
<1>5. c = SubSeq(text, at + 1, at + Len(c)) /\ d = SubSeq(text, to + 1, to + Len(d))
  BY <1>1, <1>2 DEF Occurrences, Occurs
<1> QED BY <1>4, <1>5

\* The refs before the i-th, or up to it, that cite the same claim.
Citing(claims, i, last) == {j \in 1..last : claims[j] = claims[i]}

\* One more with the i-th than without it.
LEMMA CitingOneMore ==
    ASSUME NEW claims \in Seq(Seq(Symbols)), NEW i \in 1..Len(claims)
    PROVE  /\ IsFiniteSet(Citing(claims, i, i)) /\ IsFiniteSet(Citing(claims, i, i - 1))
           /\ Cardinality(Citing(claims, i, i)) \in Nat
           /\ Cardinality(Citing(claims, i, i)) = Cardinality(Citing(claims, i, i - 1)) + 1
<1>1. Citing(claims, i, i) = Citing(claims, i, i - 1) \cup {i} /\ i \notin Citing(claims, i, i - 1)
  <2>1. 1..i = (1..(i - 1)) \cup {i} /\ i \notin 1..(i - 1)
    OBVIOUS
  <2> QED BY <2>1 DEF Citing
<1>2. IsFiniteSet(Citing(claims, i, i - 1))
  <2> DEFINE m == i - 1
  <2>1. m \in Int
    OBVIOUS
  <2>2. IsFiniteSet(1..m)
    <3> HIDE DEF m
    <3> QED BY <2>1, FS_Interval
  <2>3. Citing(claims, i, m) \in SUBSET (1..m)
    BY DEF Citing
  <2> QED BY <2>2, <2>3, FS_Subset
<1>3. /\ IsFiniteSet(Citing(claims, i, i))
      /\ Cardinality(Citing(claims, i, i)) = Cardinality(Citing(claims, i, i - 1)) + 1
  <2> DEFINE before == Citing(claims, i, i - 1)
  <2>1. IsFiniteSet(before) /\ i \notin before /\ Citing(claims, i, i) = before \cup {i}
    BY <1>1, <1>2
  <2> HIDE DEF before
  <2>2. IsFiniteSet(before \cup {i}) /\ Cardinality(before \cup {i}) = Cardinality(before) + 1
    BY <2>1, FS_AddElement
  <2> QED BY <2>1, <2>2 DEF before
<1>4. Cardinality(Citing(claims, i, i)) \in Nat
  BY <1>3, FS_CardinalityType
<1> QED BY <1>2, <1>3, <1>4

\* The refs that are linked are linked to spans of their claims, each to its own.
LEMMA LinkedAre ==
    ASSUME NEW text \in Seq(Symbols), NEW claims \in Seq(Seq(Symbols) \ {<<>>}),
           NEW spans, spans = LocateClaims(text, claims)
    PROVE  /\ spans \in [1..Len(claims) -> Spanned]
           /\ \A i \in 1..Len(claims) :
                 /\ spans[i] # None => spans[i] \in SpansIn(text, claims[i])
                 /\ spans[i] # None => \A j \in 1..(i - 1) : spans[j] # spans[i]
                 /\ spans[i] # None => \A s \in SpansIn(text, claims[i]) \ TakenBefore(spans, i) :
                        spans[i].start <= s.start
                 /\ spans[i] = None => SpansIn(text, claims[i]) \subseteq TakenBefore(spans, i)
<1>1. /\ spans \in [1..Len(claims) -> Spanned]
      /\ \A i \in 1..Len(claims) :
            spans[i] = LocateClaim(text, claims[i], TakenBefore(spans, i))
  BY LocatedAre
<1>2. ASSUME NEW i \in 1..Len(claims)
      PROVE  /\ spans[i] # None => spans[i] \in SpansIn(text, claims[i])
             /\ spans[i] # None => spans[i] \notin TakenBefore(spans, i)
             /\ spans[i] # None => \A s \in SpansIn(text, claims[i]) \ TakenBefore(spans, i) :
                    spans[i].start <= s.start
             /\ spans[i] = None => SpansIn(text, claims[i]) \subseteq TakenBefore(spans, i)
  <2>1. claims[i] \in Seq(Symbols) \ {<<>>} /\ spans[i] = LocateClaim(text, claims[i], TakenBefore(spans, i))
    BY <1>1
  <2> QED BY <2>1, LocateIs
<1>3. \A i \in 1..Len(claims) : \A j \in 1..(i - 1) :
          spans[i] # None /\ spans[j] = spans[i] => spans[i] \in TakenBefore(spans, i)
  BY DEF TakenBefore
<1> QED BY <1>1, <1>2, <1>3

\* A claim that is not linked occurs no more often than refs before it cite it.
LEMMA UnlinkedIsTaken ==
    ASSUME NEW text \in Seq(Symbols), NEW claims \in Seq(Seq(Symbols) \ {<<>>}),
           NEW spans, spans = LocateClaims(text, claims),
           NEW i \in 1..Len(claims), spans[i] = None
    PROVE  /\ IsFiniteSet(Occurrences(text, claims[i]))
           /\ Cardinality(Occurrences(text, claims[i])) \in Nat
           /\ Cardinality(Occurrences(text, claims[i])) <= Cardinality(Citing(claims, i, i - 1))
<1> DEFINE S == Occurrences(text, claims[i])
           T == Citing(claims, i, i - 1)
           R == {p \in Nat \X Nat : spans[p[2]] = SpanAt(claims[i], p[1])}
<1>1. /\ claims \in Seq(Seq(Symbols)) /\ claims[i] \in Seq(Symbols)
      /\ \A j \in 1..(i - 1) : j \in 1..Len(claims) /\ j \in Nat /\ claims[j] \in Seq(Symbols)
  OBVIOUS
<1>2. /\ SpansIn(text, claims[i]) \subseteq TakenBefore(spans, i)
      /\ \A j \in 1..Len(claims) : spans[j] # None => spans[j] \in SpansIn(text, claims[j])
  BY LinkedAre
<1>3. ASSUME NEW at \in S
      PROVE  at \in Nat /\ \E j \in T : <<at, j>> \in R
  <2>1. SpanAt(claims[i], at) \in SpansIn(text, claims[i]) /\ at \in Nat
    BY <1>1, OccurrencesAre DEF SpansIn
  <2>2. PICK j \in 1..(i - 1) : spans[j] = SpanAt(claims[i], at) /\ spans[j] # None
    BY <1>2, <2>1 DEF TakenBefore
  <2>3. spans[j] \in SpansIn(text, claims[i]) \cap SpansIn(text, claims[j])
    BY <1>1, <1>2, <2>1, <2>2
  <2>4. claims[j] = claims[i]
    BY <1>1, <2>3, SpanTellsClaim
  <2>5. j \in T /\ <<at, j>> \in R
    BY <1>1, <2>1, <2>2, <2>4 DEF Citing
  <2> QED BY <2>1, <2>5
<1>4. ASSUME NEW at \in S, NEW to \in S, NEW j \in T, <<at, j>> \in R, <<to, j>> \in R
      PROVE  at = to
  <2>1. SpanAt(claims[i], at) = SpanAt(claims[i], to)
    BY <1>4
  <2>2. SpanAt(claims[i], at).start = at /\ SpanAt(claims[i], to).start = to
    BY <1>1, OccurrencesAre
  <2> QED BY <2>1, <2>2
<1>5. IsFiniteSet(T)
  BY <1>1, CitingOneMore
<1>6. \A at \in S : \E j \in T : <<at, j>> \in R
  BY <1>3
<1>7. \A at, to \in S : \A j \in T : <<at, j>> \in R /\ <<to, j>> \in R => at = to
  BY <1>4
<1> HIDE DEF S, T, R
<1>8. IsFiniteSet(S) /\ Cardinality(S) \in Nat /\ Cardinality(S) <= Cardinality(T)
  BY <1>5, <1>6, <1>7, NoMoreThan
<1> QED BY <1>8 DEF S, T

\* A claim that the dashboard leaves unlinked is cited by more refs than the body
\* has occurrences of it, and no two refs are linked to one occurrence.
THEOREM UnlinkedIsAlwaysOverCited == Spec => []UnlinkedIsOverCited
<1>1. ASSUME ReportInv
      PROVE  UnlinkedIsOverCited
  <2> DEFINE n == Len(DraftClaims)
  <2>1. /\ Draft.body \in Seq(Symbols) /\ DraftClaims \in Seq(Seq(Symbols) \ {<<>>})
        /\ DraftClaims \in Seq(Seq(Symbols))
        /\ Linked = LocateClaims(Draft.body, DraftClaims)
    BY <1>1, DraftIs DEF Linked
  <2>2. DOMAIN Linked = 1..n
    BY <2>1, LinkedAre
  <2>3. ASSUME NEW i \in 1..n, Linked[i] = None
        PROVE  Cardinality({j \in 1..i : DraftClaims[j] = DraftClaims[i]})
                  > Cardinality(Occurrences(Draft.body, DraftClaims[i]))
    <3>1. /\ Cardinality(Occurrences(Draft.body, DraftClaims[i])) \in Nat
          /\ Cardinality(Occurrences(Draft.body, DraftClaims[i]))
                <= Cardinality(Citing(DraftClaims, i, i - 1))
      BY <2>1, <2>3, UnlinkedIsTaken
    <3>2. /\ Cardinality(Citing(DraftClaims, i, i)) \in Nat
          /\ Cardinality(Citing(DraftClaims, i, i)) = Cardinality(Citing(DraftClaims, i, i - 1)) + 1
          /\ IsFiniteSet(Citing(DraftClaims, i, i - 1))
      BY <2>1, CitingOneMore
    <3>3. Cardinality(Citing(DraftClaims, i, i - 1)) \in Nat
      BY <3>2, FS_CardinalityType
    <3>4. Cardinality(Citing(DraftClaims, i, i)) > Cardinality(Occurrences(Draft.body, DraftClaims[i]))
      BY <3>1, <3>2, <3>3
    <3> QED BY <3>4 DEF Citing
  <2>4. ASSUME NEW i \in 1..n, Linked[i] # None
        PROVE  \A j \in 1..(i - 1) : Linked[j] # Linked[i]
    BY <2>1, <2>4, LinkedAre
  <2> QED BY <2>2, <2>3, <2>4 DEF UnlinkedIsOverCited
<1> QED BY <1>1, ReportHolds, PTL

\* A claim that G05 grounds occurs at least as often as it is cited up to there.
LEMMA GroundedIsSpared ==
    ASSUME NEW text \in Seq(Symbols), NEW claims \in Seq(Seq(Symbols) \ {<<>>}),
           NEW spans, spans = GroundClaims(text, claims),
           NEW i \in 1..Len(claims), spans[i] # None,
           IsFiniteSet(Occurrences(text, claims[i]))
    PROVE  Cardinality(Citing(claims, i, i)) <= Cardinality(Occurrences(text, claims[i]))
<1> DEFINE S == Citing(claims, i, i)
           T == Occurrences(text, claims[i])
           R == {p \in Nat \X Nat : spans[p[1]] = SpanAt(claims[i], p[2])}
<1>1. /\ \A j \in 1..i : j \in 1..Len(claims) /\ j \in Nat /\ claims[j] \in Seq(Symbols) \ {<<>>}
      /\ i \in 1..i /\ Len(claims) \in Nat
  OBVIOUS
<1>2. \A j \in 1..Len(claims) :
          spans[j] = FirstFreeSpan(text, claims[j], TakenBefore(spans, j))
  BY GroundsAre
<1>3. \A j \in 1..i : /\ spans[j] \in SpansIn(text, claims[j]) \cup {None}
                      /\ spans[j] \in SpansOf(text, claims[j]) \cup {None}
                      /\ spans[j] # None => \A t \in TakenBefore(spans, j) : ~Overlap(spans[j], t)
                      /\ spans[j] = None =>
                            \A s \in SpansOf(text, claims[j]) : \E t \in TakenBefore(spans, j) : Overlap(s, t)
  BY <1>1, <1>2, FirstFreeIs
<1>4. ASSUME NEW j \in S
      PROVE  j \in 1..i /\ claims[j] = claims[i] /\ spans[j] # None
  <2>1. j \in 1..i /\ claims[j] = claims[i]
    BY DEF Citing
  <2>2. TakenBefore(spans, j) \subseteq TakenBefore(spans, i)
    <3>1. \A k \in 1..(j - 1) : k \in 1..(i - 1)
      BY <2>1
    <3> QED BY <3>1 DEF TakenBefore
  <2>3. ASSUME spans[j] = None
        PROVE  FALSE
    <3>1. spans[i] \in SpansOf(text, claims[j])
      BY <1>1, <1>3, <2>1
    <3>2. \E t \in TakenBefore(spans, j) : Overlap(spans[i], t)
      BY <1>3, <2>1, <2>3, <3>1
    <3>3. \A t \in TakenBefore(spans, i) : ~Overlap(spans[i], t)
      BY <1>1, <1>3
    <3> QED BY <2>2, <3>2, <3>3
  <2> QED BY <2>1, <2>3
<1>5. ASSUME NEW j \in S
      PROVE  \E at \in T : <<j, at>> \in R
  <2>1. spans[j] \in SpansIn(text, claims[i])
    BY <1>3, <1>4
  <2>2. PICK at \in T : spans[j] = SpanAt(claims[i], at)
    BY <2>1 DEF SpansIn
  <2>3. at \in Nat /\ j \in Nat
    BY <1>1, <1>4, OccurrencesAre
  <2> QED BY <2>2, <2>3
<1>6. ASSUME NEW j \in S, NEW k \in S, k < j, spans[j] = spans[k]
      PROVE  FALSE
  <2>1. spans[k] \in TakenBefore(spans, j)
    <3>1. k \in 1..(j - 1) /\ spans[k] # None
      BY <1>4, <1>6
    <3> QED BY <3>1 DEF TakenBefore
  <2>2. ~Overlap(spans[j], spans[j])
    BY <1>3, <1>4, <1>6, <2>1
  <2>3. PICK at \in T : spans[j] = SpanAt(claims[i], at)
    BY <1>3, <1>4 DEF SpansIn
  <2>4. claims[i] \in Seq(Symbols) /\ claims[i] # <<>>
    BY <1>1
  <2>5. /\ at \in Nat /\ Len(claims[i]) \in Nat /\ Len(claims[i]) # 0
        /\ spans[j].start = at /\ spans[j].end = at + Len(claims[i])
    BY <2>3, <2>4, OccurrencesAre
  <2> QED BY <2>2, <2>5 DEF Overlap
<1>7. ASSUME NEW j \in S, NEW k \in S, NEW at \in T, <<j, at>> \in R, <<k, at>> \in R
      PROVE  j = k
  <2>1. spans[j] = spans[k]
    BY <1>7
  <2>2. j \in Nat /\ k \in Nat
    BY <1>1, <1>4
  <2> QED BY <1>6, <2>1, <2>2
<1>8. \A j \in S : \E at \in T : <<j, at>> \in R
  BY <1>5
<1>9. \A j, k \in S : \A at \in T : <<j, at>> \in R /\ <<k, at>> \in R => j = k
  BY <1>7
<1> HIDE DEF S, T, R
<1>10. Cardinality(S) <= Cardinality(T)
  <2>1. IsFiniteSet(T)
    BY DEF T
  <2> QED BY <1>8, <1>9, <2>1, NoMoreThan
<1> QED BY <1>10 DEF S, T

\* Every claim that the gate grounds is linked on the screen, and no claim is
\* that the draft agent would reject.
THEOREM GroundedIsAlwaysLinked == Spec => []GroundedIsLinked
<1>1. ASSUME ReportInv
      PROVE  GroundedIsLinked
  <2> DEFINE n == Len(DraftClaims)
  <2>1. /\ Draft.body \in Seq(Symbols) /\ DraftClaims \in Seq(Seq(Symbols) \ {<<>>})
        /\ DraftClaims \in Seq(Seq(Symbols)) /\ DOMAIN DraftClaims = 1..n
        /\ Linked = LocateClaims(Draft.body, DraftClaims)
        /\ Grounded = GroundClaims(Draft.body, DraftClaims)
    BY <1>1, DraftIs DEF Linked, Grounded
  <2>2. DOMAIN Linked = 1..n
    BY <2>1, LinkedAre
  <2>3. ASSUME NEW i \in 1..n, Grounded[i] # None, Linked[i] = None
        PROVE  FALSE
    <3>1. /\ IsFiniteSet(Occurrences(Draft.body, DraftClaims[i]))
          /\ Cardinality(Occurrences(Draft.body, DraftClaims[i])) \in Nat
          /\ Cardinality(Occurrences(Draft.body, DraftClaims[i]))
                <= Cardinality(Citing(DraftClaims, i, i - 1))
      BY <2>1, <2>3, UnlinkedIsTaken
    <3>2. Cardinality(Citing(DraftClaims, i, i)) <= Cardinality(Occurrences(Draft.body, DraftClaims[i]))
      BY <2>1, <2>3, <3>1, GroundedIsSpared
    <3>3. /\ Cardinality(Citing(DraftClaims, i, i)) \in Nat
          /\ Cardinality(Citing(DraftClaims, i, i)) = Cardinality(Citing(DraftClaims, i, i - 1)) + 1
          /\ IsFiniteSet(Citing(DraftClaims, i, i - 1))
      BY <2>1, CitingOneMore
    <3>4. Cardinality(Citing(DraftClaims, i, i - 1)) \in Nat
      BY <3>3, FS_CardinalityType
    <3> QED BY <3>1, <3>2, <3>3, <3>4
  <2>4. ASSUME NEW i \in 1..n, Linked[i] # None
        PROVE  i \notin FindUngroundedClaims(Draft.body, DraftClaims)
    <3>1. Linked[i] \in SpansIn(Draft.body, DraftClaims[i])
      BY <2>1, <2>4, LinkedAre
    <3> QED BY <3>1 DEF SpansIn, FindUngroundedClaims
  <2> QED BY <2>2, <2>3, <2>4 DEF GroundedIsLinked
<1> QED BY <1>1, ReportHolds, PTL

-----------------------------------------------------------------------------
(* The numbers of a body. *)

\* All that is found are tokens, and tokens are spans.
LEMMA TokensAre ==
    ASSUME NEW text \in Seq(Symbols)
    PROVE  /\ NumberTokens(text) \in SUBSET Span
           /\ NumberTokens(text) \in SUBSET TokensIn(text)
<1> DEFINE D == 0..Len(text)
           V == SUBSET TokensIn(text)
           rank == [d \in D |-> Len(text) - d]
<1>1. Len(text) \in Nat
  OBVIOUS
<1>2. PICK c : /\ NumberTokens(text) = c[0]
               /\ \A d \in D : c[d] = IF DigitsFrom(text, d) = {} THEN {}
                                      ELSE {NextToken(text, d)} \cup c[NextToken(text, d).end]
  BY ScanIs
<1>3. D \subseteq {d \in D : c[d] \in V}
  <2> DEFINE T == {d \in D : c[d] \in V}
  <2>1. ASSUME NEW d \in D, \A e \in D : rank[e] < rank[d] => e \in T
        PROVE  d \in T
    <3>1. CASE DigitsFrom(text, d) = {}
      BY <1>2, <3>1
    <3>2. CASE DigitsFrom(text, d) # {}
      <4> DEFINE t == NextToken(text, d)
                 e == t.end
      <4>1. t \in TokensIn(text) /\ t.start \in d..(Len(text) - 1) /\ e \in (t.start + 1)..Len(text)
        BY <3>2, NextTokenIs
      <4>2. c[d] = {t} \cup c[e]
        BY <1>2, <3>2
      <4> HIDE DEF t
      <4>3. e \in D /\ rank[e] < rank[d]
        BY <1>1, <4>1
      <4> HIDE DEF e, rank
      <4> QED BY <2>1, <4>1, <4>2, <4>3
    <3> QED BY <3>1, <3>2
  <2>2. rank \in [D -> Nat]
    BY <1>1
  <2> HIDE DEF D, rank, T
  <2>3. D \subseteq T
    BY <2>1, <2>2, RankInduction
  <2> QED BY <2>3 DEF T
<1>4. TokensIn(text) \in SUBSET Span
  <2>1. ASSUME NEW at \in 0..(Len(text) - 1), IsDigit(text[at + 1])
        PROVE  TokenAt(text, at) \in Span
    BY <2>1, TokenIs DEF Span
  <2> QED BY <2>1 DEF TokensIn
<1>5. 0 \in D
  BY <1>1
<1> QED BY <1>2, <1>3, <1>4, <1>5

\* A value has the digits that it was made of.
LEMMA ValueKeeps ==
    ASSUME NEW X, NEW a \in Seq(X), NEW b \in Seq(X)
    PROVE  LET v == Value(a, b) IN Kept(v.whole \o v.part, NonZero) = Kept(a \o b, NonZero)
<1> DEFINE S == NonZero
           w == WithoutLeading(a)
           p == Reverse(WithoutLeading(Reverse(b)))
<1>1. "0" \notin S
  BY DEF NonZero
<1> HIDE DEF S, w, p
<1>2. w \in Seq(X) /\ Kept(w, S) = Kept(a, S)
  BY <1>1, WithoutLeadingIs DEF w
<1>3. p \in Seq(X) /\ Kept(p, S) = Kept(b, S)
  BY <1>1, WithoutTrailingIs DEF p
<1>4. Kept(w \o p, S) = Kept(w, S) \o Kept(p, S)
  <2>1. w \in Seq(X) /\ p \in Seq(X)
    BY <1>2, <1>3
  <2> QED BY <2>1, KeptOfBoth
<1>5. Kept(a \o b, S) = Kept(a, S) \o Kept(b, S)
  BY KeptOfBoth
<1>6. Value(a, b).whole = w /\ Value(a, b).part = p
  BY DEF Value, w, p
<1> QED BY <1>2, <1>3, <1>4, <1>5, <1>6 DEF S

\* Whatever a token may denote, it denotes with all of the token's digits, zeros aside.
LEMMA ReadingKeepsDigits ==
    ASSUME NEW X, NEW token \in Seq(X), NEW v \in Denoted(token)
    PROVE  Kept(v.whole \o v.part, NonZero) = Kept(token, NonZero)
<1> DEFINE clean == Filter(token, LAMBDA char : char # Space)
           groups == Groups(clean)
           marks == Marks(clean)
           whole == FlattenSeq(groups)
           thousands == FlattenSeq(Front(groups))
           last == Last(groups)
<1>1. clean = Kept(token, X \ {Space})
  <2> DEFINE P == {i \in DOMAIN token : token[i] # Space}
             Q == {i \in DOMAIN token : token[i] \in X \ {Space}}
  <2>1. P = Q
    BY LenProperties, ElementOfSeq
  <2>2. clean = AtPlaces(token, P)
    BY DEF Filter, AtPlaces
  <2>3. Kept(token, X \ {Space}) = AtPlaces(token, Q)
    BY DEF Kept
  <2> HIDE DEF P, Q, clean
  <2> QED BY <2>1, <2>2, <2>3
<1>2. clean \in Seq(X) /\ Kept(clean, NonZero) = Kept(token, NonZero)
  <2>1. X \cap NonZero \subseteq X \ {Space}
    BY DEF NonZero, Digits, Space
  <2> HIDE DEF clean
  <2>2. Kept(Kept(token, X \ {Space}), NonZero) = Kept(token, NonZero)
    BY <2>1, KeptOfKept
  <2>3. Kept(token, X \ {Space}) \in Seq(X)
    BY KeptIsIn
  <2> QED BY <1>1, <2>2, <2>3
<1>3. v \in {Value(whole, <<>>), Value(groups[1], last), Value(thousands, last)}
      /\ (v = Value(whole, <<>>) \/ v = Value(thousands, last) \/ IsDecimal(groups, marks))
  <2> HIDE DEF clean
  <2> QED BY DEF Denoted, clean
<1> HIDE DEF clean
<1>4. NonZero \subseteq Digits
  BY DEF NonZero
<1>5. /\ groups \in Seq(Seq(X)) /\ Len(groups) = Len(marks) + 1 /\ whole \in Seq(X)
      /\ Kept(whole, NonZero) = Kept(clean, NonZero) /\ marks \in Seq(X)
  BY <1>2, <1>4, GroupsKeepDigits, GroupsAre
<1>6. Len(groups) >= 1
  <2>1. Len(marks) \in Nat
    BY <1>5, LenProperties
  <2> QED BY <1>5, <2>1
<1> HIDE DEF groups, marks
<1>7. thousands \in Seq(X) /\ last \in Seq(X) /\ whole = thousands \o last /\ Front(groups) \in Seq(Seq(X))
  BY <1>5, <1>6, FrontAndLast
<1>8. CASE v = Value(whole, <<>>)
  <2>1. <<>> \in Seq(X) /\ whole \o <<>> = whole
    BY <1>5, ConcatEmptySeq
  <2> DEFINE e == <<>>
  <2> HIDE DEF whole, e
  <2>2. Kept(v.whole \o v.part, NonZero) = Kept(whole \o e, NonZero)
    BY <1>5, <1>8, <2>1, ValueKeeps DEF e
  <2> QED BY <1>2, <1>5, <2>1, <2>2 DEF e
<1>9. CASE v = Value(thousands, last)
  <2> HIDE DEF whole, thousands, last
  <2>1. Kept(v.whole \o v.part, NonZero) = Kept(thousands \o last, NonZero)
    BY <1>7, <1>9, ValueKeeps
  <2> QED BY <1>2, <1>5, <1>7, <2>1
<1>10. CASE v = Value(groups[1], last) /\ IsDecimal(groups, marks)
  <2>1. Len(marks) = 1
    BY <1>10 DEF IsDecimal
  <2>2. Len(groups) = 2
    BY <1>5, <2>1
  <2>3. groups[1] = thousands
    <3> DEFINE f == Front(groups)
               one == 1
    <3>1. f = SubSeq(groups, one, one) /\ one \in 1..Len(groups)
      BY <2>2 DEF Front
    <3>2. f = <<groups[1]>>
      <4> DEFINE V == Seq(X)
                 g == groups[one]
      <4>1. groups \in Seq(V) /\ one \in Int /\ one \in 1..Len(groups) /\ one = 1
        BY <1>5, <2>2
      <4>2. \A i \in one..one : groups[i] \in V
        <5>1. \A i \in one..one : i = one
          OBVIOUS
        <5> HIDE DEF one, V
        <5>2. groups[one] \in V
          BY <4>1, ElementOfSeq
        <5> QED BY <5>1, <5>2
      <4>3. /\ SubSeq(groups, one, one) \in Seq(V)
            /\ Len(SubSeq(groups, one, one)) = (IF one <= one THEN one - one + 1 ELSE 0)
            /\ \A i \in 1..(one - one + 1) : SubSeq(groups, one, one)[i] = groups[one + i - 1]
        <5> HIDE DEF one, V
        <5> QED BY <4>1, <4>2, SubSeqProperties
      <4>4. f \in Seq(V) /\ Len(f) = 1 /\ f[1] = groups[1]
        BY <3>1, <4>3
      <4> HIDE DEF f, V
      <4>5. f = <<f[1]>>
        BY <4>4
      <4> QED BY <4>4, <4>5
    <3>3. FlattenSeq(<<groups[1]>>) = groups[1]
      <4> DEFINE s == <<groups[1]>>
                 Flattens(h) == h = [i \in 1..1 |-> IF i = 1 THEN s[i] ELSE h[i - 1] \o s[i]]
                 c == CHOOSE h : Flattens(h)
      <4>1. Len(s) = 1 /\ s[1] = groups[1]
        OBVIOUS
      <4>2. FlattenSeq(s) = c[1]
        BY <4>1 DEF FlattenSeq
      <4>3. Flattens([i \in 1..1 |-> s[1]])
        OBVIOUS
      <4>4. Flattens(c)
        <5> HIDE DEF Flattens
        <5> QED BY <4>3
      <4> HIDE DEF c
      <4>5. c[1] = s[1]
        BY <4>4
      <4> QED BY <4>1, <4>2, <4>5
    <3> HIDE DEF f
    <3> QED BY <3>2, <3>3 DEF f
  <2> QED BY <1>9, <1>10, <2>3
<1> QED BY <1>3, <1>8, <1>9, <1>10

-----------------------------------------------------------------------------
(* What is made of words. *)

\* Sets with the empty sequence, and with a sequence also what a word makes of it.
Closed(C, words) == <<>> \in C /\ \A s \in C : \A w \in words : s \o w \in C

\* The sequences made of words: those in every such set.
MadeOf(X, words) == {s \in Seq(X) : \A C \in SUBSET Seq(X) : Closed(C, words) => s \in C}

\* They are such a set, and each of them but the empty one ends in a word.
LEMMA MadeOfIs ==
    ASSUME NEW X, NEW words \in SUBSET Seq(X)
    PROVE  /\ Closed(MadeOf(X, words), words)
           /\ \A s \in MadeOf(X, words) :
                 s = <<>> \/ \E u \in MadeOf(X, words) : \E w \in words : s = u \o w
<1> DEFINE M == MadeOf(X, words)
<1>1. <<>> \in M
  BY DEF MadeOf, Closed
<1>2. ASSUME NEW u \in M, NEW w \in words
      PROVE  u \o w \in M
  <2>1. u \in Seq(X) /\ w \in Seq(X) /\ u \o w \in Seq(X)
    <3>1. u \in Seq(X) /\ w \in Seq(X)
      BY DEF MadeOf
    <3> QED BY <3>1, ConcatProperties
  <2>2. ASSUME NEW C \in SUBSET Seq(X), Closed(C, words)
        PROVE  u \o w \in C
    BY <2>2 DEF MadeOf, Closed
  <2> QED BY <2>1, <2>2 DEF MadeOf
<1>3. ASSUME NEW s \in M
      PROVE  s = <<>> \/ \E u \in M : \E w \in words : s = u \o w
  <2> DEFINE C == {t \in M : t = <<>> \/ \E u \in M : \E w \in words : t = u \o w}
  <2>1. C \in SUBSET Seq(X)
    BY DEF MadeOf
  <2>2. Closed(C, words)
    <3>1. <<>> \in C
      BY <1>1
    <3>2. ASSUME NEW u \in C, NEW w \in words
          PROVE  u \o w \in C
      <4> HIDE DEF M
      <4> QED BY <1>2
    <3> HIDE DEF C
    <3> QED BY <3>1, <3>2 DEF Closed
  <2>3. s \in C
    <3> HIDE DEF C
    <3> QED BY <2>1, <2>2 DEF MadeOf
  <2> QED BY <2>3
<1> HIDE DEF M
<1> QED BY <1>1, <1>2, <1>3 DEF M, Closed

\* A part of a sequence up to a place ends in a word if what is before the word
\* is made of words, and the other way round.
LEMMA MadeUpTo ==
    ASSUME NEW X, NEW words \in SUBSET (Seq(X) \ {<<>>}), NEW seq \in Seq(X), NEW n \in 1..Len(seq)
    PROVE  SubSeq(seq, 1, n) \in MadeOf(X, words)
           <=> \E w \in words : /\ Len(w) <= n
                                /\ SubSeq(seq, n - Len(w) + 1, n) = w
                                /\ SubSeq(seq, 1, n - Len(w)) \in MadeOf(X, words)
<1> DEFINE M == MadeOf(X, words)
           s == SubSeq(seq, 1, n)
<1>1. n \in Nat /\ n >= 1 /\ Len(seq) \in Nat /\ n \in 0..Len(seq) /\ words \in SUBSET Seq(X)
  BY LenProperties
<1>2. s \in Seq(X) /\ Len(s) = n /\ \A i \in 1..n : s[i] = seq[i]
  BY <1>1, CutInTwo
<1>3. ASSUME NEW k \in 0..n
      PROVE  /\ SubSeq(seq, 1, k) \in Seq(X) /\ Len(SubSeq(seq, 1, k)) = k
             /\ SubSeq(s, 1, k) = SubSeq(seq, 1, k)
             /\ SubSeq(s, k + 1, n) = SubSeq(seq, k + 1, n)
             /\ SubSeq(seq, k + 1, n) \in Seq(X) /\ Len(SubSeq(seq, k + 1, n)) = n - k
             /\ s = SubSeq(seq, 1, k) \o SubSeq(seq, k + 1, n)
  <2> DEFINE a == SubSeq(seq, 1, k)
             b == SubSeq(seq, k + 1, n)
             p == SubSeq(s, 1, k)
             q == SubSeq(s, k + 1, n)
  <2>1. k \in 0..Len(s) /\ k \in 0..Len(seq) /\ Len(s) = n
    BY <1>1, <1>2
  <2> HIDE DEF s
  <2>2. /\ p \in Seq(X) /\ Len(p) = k /\ (\A i \in 1..k : p[i] = s[i])
        /\ q \in Seq(X) /\ Len(q) = n - k /\ (\A i \in 1..(n - k) : q[i] = s[k + i])
        /\ s = p \o q
    BY <1>2, <2>1, CutInTwo
  <2>3. a \in Seq(X) /\ Len(a) = k /\ \A i \in 1..k : a[i] = seq[i]
    BY <2>1, CutInTwo
  <2>4. p = a
    <3>1. \A i \in 1..k : i \in 1..n
      BY <1>1
    <3>2. \A i \in 1..k : p[i] = a[i]
      BY <1>2, <2>2, <2>3, <3>1
    <3> HIDE DEF p, a
    <3> QED BY <2>2, <2>3, <3>2, SeqEqual
  <2>5. b \in Seq(X) /\ Len(b) = n - k /\ \A i \in 1..(n - k) : b[i] = seq[k + i]
    <3> DEFINE from == k + 1
    <3>1. from \in Int /\ n \in Int /\ \A i \in from..n : seq[i] \in X
      <4>1. \A i \in from..n : i \in 1..Len(seq)
        BY <1>1
      <4> QED BY <1>1, <4>1, ElementOfSeq
    <3>2. (IF from <= n THEN n - from + 1 ELSE 0) = n - k /\ n - from + 1 = n - k
          /\ \A i \in 1..(n - k) : from + i - 1 = k + i
      BY <1>1
    <3> HIDE DEF from
    <3>3. /\ SubSeq(seq, from, n) \in Seq(X)
          /\ Len(SubSeq(seq, from, n)) = (IF from <= n THEN n - from + 1 ELSE 0)
          /\ \A i \in 1..(n - from + 1) : SubSeq(seq, from, n)[i] = seq[from + i - 1]
      BY <3>1, SubSeqProperties
    <3> QED BY <3>2, <3>3 DEF from
  <2>6. q = b
    <3>1. \A i \in 1..(n - k) : k + i \in 1..n
      BY <1>1
    <3>2. \A i \in 1..(n - k) : q[i] = b[i]
      BY <1>2, <2>2, <2>5, <3>1
    <3>3. Len(q) = Len(b)
      BY <2>2, <2>5
    <3> HIDE DEF q, b
    <3> QED BY <2>2, <2>5, <3>2, <3>3, SeqEqual
  <2> HIDE DEF a, b, p, q
  <2> QED BY <2>2, <2>3, <2>4, <2>5, <2>6 DEF a, b, p, q
<1> HIDE DEF s
<1>4. ASSUME s \in M
      PROVE  \E w \in words : /\ Len(w) <= n
                              /\ SubSeq(seq, n - Len(w) + 1, n) = w
                              /\ SubSeq(seq, 1, n - Len(w)) \in M
  <2>1. s # <<>>
    BY <1>1, <1>2
  <2>2. PICK u \in M : \E w \in words : s = u \o w
    <3>1. words \in SUBSET Seq(X)
      BY <1>1
    <3>2. \A t \in MadeOf(X, words) :
             t = <<>> \/ \E u \in MadeOf(X, words) : \E w \in words : t = u \o w
      BY <3>1, MadeOfIs
    <3> QED BY <1>4, <2>1, <3>2
  <2>3. PICK w \in words : s = u \o w
    BY <2>2
  <2>4. u \in Seq(X) /\ w \in Seq(X)
    BY DEF MadeOf
  <2> HIDE DEF M
  <2>5. /\ Len(u) \in Nat /\ Len(w) \in Nat /\ Len(s) = Len(u) + Len(w)
        /\ (\A i \in 1..Len(u) : s[i] = u[i]) /\ (\A i \in 1..Len(w) : s[Len(u) + i] = w[i])
    <3>1. Len(u) \in Nat /\ Len(w) \in Nat
      BY <2>4, LenProperties
    <3>2. Len(u \o w) = Len(u) + Len(w)
          /\ \A i \in 1..(Len(u) + Len(w)) :
                (u \o w)[i] = IF i <= Len(u) THEN u[i] ELSE w[i - Len(u)]
      BY <2>4, ConcatProperties
    <3>3. \A i \in 1..Len(u) : (u \o w)[i] = u[i]
      BY <3>1, <3>2
    <3>4. ASSUME NEW i \in 1..Len(w)
          PROVE  (u \o w)[Len(u) + i] = w[i]
      <4>1. Len(u) + i \in 1..(Len(u) + Len(w)) /\ ~(Len(u) + i <= Len(u)) /\ (Len(u) + i) - Len(u) = i
        BY <3>1
      <4> QED BY <3>2, <4>1
    <3> QED BY <2>3, <3>1, <3>2, <3>3, <3>4
  <2> DEFINE k == Len(u)
  <2>6. k \in 0..n /\ n - Len(w) = k /\ Len(w) <= n /\ Len(w) = n - k
    BY <1>2, <2>5
  <2>7. SubSeq(s, 1, k) = u
    <3>1. SubSeq(s, 1, k) \in Seq(X) /\ Len(SubSeq(s, 1, k)) = k
          /\ \A i \in 1..k : SubSeq(s, 1, k)[i] = s[i]
      <4>1. k \in 0..Len(s)
        BY <1>2, <2>6
      <4> HIDE DEF k
      <4> QED BY <1>2, <4>1, CutInTwo
    <3>2. \A i \in 1..k : SubSeq(s, 1, k)[i] = u[i]
      BY <2>5, <3>1
    <3> DEFINE p == SubSeq(s, 1, k)
    <3> HIDE DEF p
    <3> QED BY <2>4, <3>1, <3>2, SeqEqual DEF p
  <2>8. SubSeq(s, k + 1, n) = w
    <3>1. SubSeq(s, k + 1, Len(s)) \in Seq(X) /\ Len(SubSeq(s, k + 1, Len(s))) = Len(s) - k
          /\ \A i \in 1..(Len(s) - k) : SubSeq(s, k + 1, Len(s))[i] = s[k + i]
      <4>1. k \in 0..Len(s)
        BY <1>2, <2>6
      <4> HIDE DEF k
      <4> QED BY <1>2, <4>1, CutInTwo
    <3> DEFINE q == SubSeq(s, k + 1, Len(s))
    <3>2. Len(q) = Len(w) /\ \A i \in 1..Len(q) : q[i] = w[i]
      <4>1. Len(s) - k = Len(w)
        BY <1>2, <2>6
      <4> QED BY <2>5, <3>1, <4>1
    <3> HIDE DEF q
    <3>3. q = w
      BY <2>4, <3>1, <3>2, SeqEqual DEF q
    <3> QED BY <1>2, <3>3 DEF q
  <2> HIDE DEF k
  <2>9. SubSeq(seq, 1, k) = u /\ SubSeq(seq, k + 1, n) = w
    BY <1>3, <2>6, <2>7, <2>8
  <2> QED BY <2>6, <2>9
<1>5. ASSUME NEW w \in words, Len(w) <= n, SubSeq(seq, n - Len(w) + 1, n) = w,
             SubSeq(seq, 1, n - Len(w)) \in M
      PROVE  s \in M
  <2> DEFINE k == n - Len(w)
  <2>1. w \in Seq(X) /\ Len(w) \in Nat
    <3>1. w \in Seq(X)
      OBVIOUS
    <3> QED BY <3>1, LenProperties
  <2>2. k \in 0..n
    BY <1>1, <1>5, <2>1
  <2>3. SubSeq(seq, k + 1, n) = w /\ SubSeq(seq, 1, k) \in M
    BY <1>5
  <2> HIDE DEF k, M
  <2>4. s = SubSeq(seq, 1, k) \o w
    BY <1>3, <2>2, <2>3
  <2> QED BY <1>1, <2>3, <2>4, MadeOfIs DEF M, Closed
<1> QED BY <1>4, <1>5 DEF s

\* What is in the set is made of words.
LEMMA MadeOfWords ==
    ASSUME NEW X, NEW words \in SUBSET (Seq(X) \ {<<>>}), NEW seq \in MadeOf(X, words)
    PROVE  IsMadeOf(seq, words)
<1> DEFINE M == MadeOf(X, words)
           D == 0..Len(seq)
           Ends(f, n) == \E w \in words : /\ Len(w) <= n
                                          /\ SubSeq(seq, n - Len(w) + 1, n) = w
                                          /\ f[n - Len(w)]
           Made(f) == f = [n \in D |-> \/ n = 0
                                       \/ \E w \in words : /\ Len(w) <= n
                                                           /\ SubSeq(seq, n - Len(w) + 1, n) = w
                                                           /\ f[n - Len(w)]]
           g == [n \in D |-> SubSeq(seq, 1, n) \in M]
           rank == [n \in D |-> n]
<1>1. seq \in Seq(X) /\ Len(seq) \in Nat /\ \A w \in words : w \in Seq(X) /\ Len(w) \in Nat /\ Len(w) >= 1
  <2>1. seq \in Seq(X)
    BY DEF MadeOf
  <2>2. ASSUME NEW w \in words
        PROVE  w \in Seq(X) /\ Len(w) \in Nat /\ Len(w) >= 1
    <3>1. w \in Seq(X) /\ w # <<>>
      OBVIOUS
    <3> QED BY <3>1, LenProperties, EmptySeq
  <2> QED BY <2>1, <2>2, LenProperties
<1>2. <<>> \in M /\ SubSeq(seq, 1, 0) = <<>>
  <2>1. words \in SUBSET Seq(X)
    OBVIOUS
  <2> HIDE DEF M
  <2>2. <<>> \in M
    BY <2>1, MadeOfIs DEF M, Closed
  <2>3. SubSeq(seq, 1, 0) = <<>>
    <3>1. 0 \in 0..Len(seq)
      BY <1>1
    <3> DEFINE none == 0
    <3> HIDE DEF none
    <3>2. SubSeq(seq, 1, none) \in Seq(X) /\ Len(SubSeq(seq, 1, none)) = none
      BY <1>1, <3>1, CutInTwo DEF none
    <3> QED BY <3>2, EmptySeq DEF none
  <2> QED BY <2>2, <2>3
<1>3. ASSUME NEW n \in D, NEW w \in words, Len(w) <= n
      PROVE  n - Len(w) \in D /\ n - Len(w) < n
  BY <1>1, <1>3
<1>4. ASSUME NEW n \in D
      PROVE  g[n] = (n = 0 \/ Ends(g, n))
  <2>1. g[n] \in BOOLEAN /\ (g[n] <=> SubSeq(seq, 1, n) \in M)
    <3>1. g[n] = (SubSeq(seq, 1, n) \in M)
      BY Zenon
    <3>2. (SubSeq(seq, 1, n) \in M) \in BOOLEAN
      OBVIOUS
    <3> HIDE DEF g, M
    <3>3. g[n] \in BOOLEAN
      BY <3>1, <3>2, Zenon
    <3>4. g[n] <=> SubSeq(seq, 1, n) \in M
      BY <3>1, Zenon
    <3> QED BY <3>3, <3>4
  <2>2. CASE n = 0
    BY <1>2, <2>1, <2>2
  <2>3. CASE n # 0
    <3>1. n \in 1..Len(seq)
      BY <1>1, <2>3
    <3>2. SubSeq(seq, 1, n) \in M
          <=> \E w \in words : /\ Len(w) <= n
                               /\ SubSeq(seq, n - Len(w) + 1, n) = w
                               /\ SubSeq(seq, 1, n - Len(w)) \in M
      <4> HIDE DEF M
      <4> QED BY <1>1, <3>1, MadeUpTo DEF M
    <3>3. ASSUME NEW w \in words, Len(w) <= n
          PROVE  g[n - Len(w)] <=> SubSeq(seq, 1, n - Len(w)) \in M
      BY <1>3, <3>3
    <3>4. Ends(g, n) <=> SubSeq(seq, 1, n) \in M
      <4> HIDE DEF g, M
      <4> QED BY <3>2, <3>3
    <3> HIDE DEF g, M, Ends
    <3> QED BY <2>1, <2>3, <3>4
  <2> QED BY <2>2, <2>3
<1>5. Made(g)
  <2> DEFINE h == [n \in D |-> n = 0 \/ Ends(g, n)]
  <2>1. \A n \in D : g[n] = h[n]
    <3> HIDE DEF g, Ends
    <3> QED BY <1>4
  <2>2. g = [n \in D |-> g[n]] /\ h = [n \in D |-> h[n]]
    OBVIOUS
  <2>3. g = h
    <3> HIDE DEF g, h
    <3> QED BY <2>1, <2>2
  <2> HIDE DEF g
  <2> QED BY <2>3
<1> DEFINE c == CHOOSE f : Made(f)
<1>6. Made(c)
  <2> HIDE DEF Made
  <2> QED BY <1>5
<1>7. IsMadeOf(seq, words) = c[Len(seq)]
  BY DEF IsMadeOf
<1> HIDE DEF c
<1>8. \A n \in D : c[n] = (n = 0 \/ Ends(c, n))
  BY <1>6
<1> HIDE DEF Made, g
<1>9. D \subseteq {n \in D : c[n] = g[n]}
  <2> DEFINE T == {n \in D : c[n] = g[n]}
  <2>1. ASSUME NEW n \in D, \A e \in D : rank[e] < rank[n] => e \in T
        PROVE  n \in T
    <3>1. ASSUME NEW w \in words, Len(w) <= n
          PROVE  c[n - Len(w)] = g[n - Len(w)]
      BY <1>3, <2>1, <3>1
    <3>2. Ends(c, n) <=> Ends(g, n)
      BY <3>1
    <3> HIDE DEF Ends
    <3>3. (n = 0 \/ Ends(c, n)) = (n = 0 \/ Ends(g, n))
      BY <3>2
    <3> QED BY <1>4, <1>8, <3>3
  <2>2. rank \in [D -> Nat]
    BY <1>1
  <2> HIDE DEF D, rank, T
  <2>3. D \subseteq T
    BY <2>1, <2>2, RankInduction
  <2> QED BY <2>3 DEF T
<1>10. g[Len(seq)]
  <2>1. Len(seq) \in D /\ SubSeq(seq, 1, Len(seq)) = seq
    BY <1>1, SubSeqFull
  <2>2. g[Len(seq)] = (SubSeq(seq, 1, Len(seq)) \in M)
    BY <2>1 DEF g
  <2> QED BY <2>1, <2>2
<1>11. Len(seq) \in D
  BY <1>1
<1> QED BY <1>7, <1>9, <1>10, <1>11

-----------------------------------------------------------------------------
(* The outcomes of the gates. *)

\* What every outcome is like: a gate that passes marks nothing.
IsOutcome(outcome, gate) ==
    /\ DOMAIN outcome = {"gate", "severity", "passed", "spans"}
    /\ outcome.gate = gate
    /\ outcome.severity = GateSeverity(gate)
    /\ outcome.passed \in BOOLEAN
    /\ outcome.spans \in SUBSET Span
    /\ outcome.passed => outcome.spans = {}

\* A gate that objects to something marks spans.
LEMMA OutcomeIs ==
    ASSUME NEW gate, NEW objected \in BOOLEAN, NEW spans \in SUBSET Span
    PROVE  IsOutcome(Outcome(gate, objected, spans), gate)
BY DEF IsOutcome, Outcome

\* Whatever the draft, the merchant and the context, each of the thirteen outcomes
\* is the outcome of its gate.
LEMMA OutcomesAre ==
    ASSUME NEW draft, IsDraft(draft), NEW merchant, NEW context,
           NEW outcomes, outcomes = RunGates(draft, merchant, context).outcomes
    PROVE  /\ DOMAIN outcomes = 1..13
           /\ \A k \in 1..13 : IsOutcome(outcomes[k], GateOrder[k])
<1>1. /\ draft.body \in Seq(Symbols) /\ Len(draft.body) \in Nat
      /\ ClaimsOf(draft) \in Seq(Seq(Symbols) \ {<<>>})
  BY DEF IsDraft
<1>2. IsOutcome(G01Schema(draft), "G01_schema")
  BY OutcomeIs DEF G01Schema
<1>3. IsOutcome(G02Length(draft), "G02_length")
  <2> DEFINE short == draft.words < BodyMinWords
             long == draft.words > BodyMaxWords
             marked == [start |-> IF long THEN draft.overflow ELSE 0, end |-> Len(draft.body)]
             objected == short \/ long \/ draft.subjectLength > SubjectMaxLength
             spans == {s \in {marked} : (short \/ long) /\ s.start < s.end}
  <2>1. marked \in Span
    BY <1>1 DEF IsDraft, Span
  <2>2. spans \in SUBSET Span /\ objected \in BOOLEAN
    BY <2>1
  <2>3. G02Length(draft) = Outcome("G02_length", objected, spans)
    BY DEF G02Length
  <2> HIDE DEF objected, spans
  <2> QED BY <2>2, <2>3, OutcomeIs
<1>4. ASSUME NEW gate, NEW hits \in Hits
      PROVE  IsOutcome(Scanned(gate, hits), gate)
  <2> DEFINE objected == hits.inSubject \/ hits.spans # {}
  <2>1. objected \in BOOLEAN /\ hits.spans \in SUBSET Span
    BY DEF Hits
  <2>2. Scanned(gate, hits) = Outcome(gate, objected, hits.spans)
    BY DEF Scanned
  <2> HIDE DEF objected
  <2> QED BY <2>1, <2>2, OutcomeIs
<1>5. IsOutcome(G03Placeholders(draft), "G03_placeholders")
  BY <1>4 DEF G03Placeholders, IsDraft
<1>6. IsOutcome(G07BannedClaims(draft), "G07_banned_claims")
  BY <1>4 DEF G07BannedClaims, IsDraft
<1>7. IsOutcome(G04MerchantName(draft), "G04_merchant_name")
  <2> DEFINE objected == ~draft.name.exact
             spans == {draft.name.near} \ {None}
  <2>1. spans \in SUBSET Span /\ objected \in BOOLEAN
    BY DEF IsDraft
  <2>2. G04MerchantName(draft) = Outcome("G04_merchant_name", objected, spans)
    BY DEF G04MerchantName
  <2> HIDE DEF objected, spans
  <2> QED BY <2>1, <2>2, OutcomeIs
<1>8. IsOutcome(G08Pii(draft, merchant, context), "G08_pii")
  <2> DEFINE offending == {c \in draft.contacts : IsOffending(c, merchant, context.allowedLinkHosts)}
             spans == {c.span : c \in offending}
  <2>1. spans \in SUBSET Span /\ (offending # {}) \in BOOLEAN
    BY DEF IsDraft
  <2>2. G08Pii(draft, merchant, context) = Outcome("G08_pii", offending # {}, spans)
    BY DEF G08Pii
  <2> HIDE DEF offending, spans
  <2> QED BY <2>1, <2>2, OutcomeIs
<1> DEFINE located == GroundClaims(draft.body, ClaimsOf(draft))
<1>9. located \in [1..Len(ClaimsOf(draft)) -> Spanned] /\ Spanned \ {None} \subseteq Span
  <2>1. located \in [1..Len(ClaimsOf(draft)) -> Spanned]
    BY <1>1, GroundsAre
  <2>2. Spanned \ {None} \subseteq Span
    BY DEF Spanned, Span
  <2> QED BY <2>1, <2>2
<1>10. IsOutcome(G05EvidenceGrounding(draft, merchant), "G05_evidence_grounding")
  <2> DEFINE refs == DOMAIN located
             disproved == {i \in refs : /\ located[i] # None
                                        /\ ~CheckSourceValue(merchant[draft.evidence[i].sourceField],
                                                             draft.evidence[i].sourceValue)}
             objected == disproved # {} \/ \E i \in refs : located[i] = None
             spans == {located[i] : i \in disproved}
  <2>1. G05EvidenceGrounding(draft, merchant) = Outcome("G05_evidence_grounding", objected, spans)
    BY DEF G05EvidenceGrounding
  <2>2. \A i \in disproved : i \in 1..Len(ClaimsOf(draft)) /\ located[i] # None
    BY <1>9
  <2> HIDE DEF disproved, located
  <2>3. spans \in SUBSET Span /\ objected \in BOOLEAN
    BY <1>9, <2>2
  <2> HIDE DEF objected, spans
  <2> QED BY <2>1, <2>3, OutcomeIs
<1>11. IsOutcome(G13ClaimCount(draft), "G13_claim_count")
  <2> DEFINE objected == Len(draft.evidence) # RequiredClaimCount
             spans == Found(located)
  <2>1. G13ClaimCount(draft) = Outcome("G13_claim_count", objected, spans)
    BY DEF G13ClaimCount
  <2> HIDE DEF located
  <2>2. spans \in SUBSET Span /\ objected \in BOOLEAN
    BY <1>9 DEF Found, Range
  <2> HIDE DEF objected, spans
  <2> QED BY <2>1, <2>2, OutcomeIs
<1>12. IsOutcome(G06NoInventedNumbers(draft, merchant), "G06_no_invented_numbers")
  <2> DEFINE ungrounded == {t \in NumberTokens(draft.body) :
                                ~IsGrounded(TextOf(draft.body, t), GroundedNumbers(merchant))}
  <2>1. ungrounded \in SUBSET Span /\ (ungrounded # {}) \in BOOLEAN
    BY <1>1, TokensAre
  <2>2. G06NoInventedNumbers(draft, merchant)
            = Outcome("G06_no_invented_numbers", ungrounded # {}, ungrounded)
    BY DEF G06NoInventedNumbers
  <2> HIDE DEF ungrounded
  <2> QED BY <2>1, <2>2, OutcomeIs
<1>13. IsOutcome(G09Locale(draft, merchant), "G09_locale")
  <2> DEFINE elsewhere == draft.locale # merchant.locale.value \/ ReadsOtherwise(draft)
             american == {s \in draft.americanSpellings : IsBritish(draft.locale)}
             objected == elsewhere \/ american # {}
             spans == IF elsewhere THEN {} ELSE american
  <2>1. american \in SUBSET Span
    BY DEF IsDraft
  <2> HIDE DEF american
  <2>2. spans \in SUBSET Span /\ objected \in BOOLEAN
    BY <2>1
  <2>3. G09Locale(draft, merchant) = Outcome("G09_locale", objected, spans)
    BY DEF G09Locale, american
  <2> HIDE DEF objected, spans
  <2> QED BY <2>2, <2>3, OutcomeIs
<1>14. IsOutcome(G10SingleCta(draft), "G10_single_cta")
  <2> DEFINE matched == {kind \in DOMAIN draft.asks : draft.asks[kind] # {}}
             spans == UNION {draft.asks[kind] : kind \in matched}
             objected == Cardinality(matched) # 1
  <2>1. spans \in SUBSET Span /\ objected \in BOOLEAN
    BY DEF IsDraft
  <2>2. G10SingleCta(draft) = Outcome("G10_single_cta", objected, spans)
    BY DEF G10SingleCta
  <2> HIDE DEF objected, spans
  <2> QED BY <2>1, <2>2, OutcomeIs
<1>15. IsOutcome(G11FrequencyCap(context), "G11_frequency_cap")
  <2> DEFINE objected == /\ context.previousApproach # None
                         /\ ~CapHasPassed(context.now - context.previousApproach.sentAt,
                                          context.frequencyCapDays)
  <2>1. objected \in BOOLEAN /\ {} \in SUBSET Span
    OBVIOUS
  <2>2. G11FrequencyCap(context) = Outcome("G11_frequency_cap", objected, {})
    BY DEF G11FrequencyCap
  <2> HIDE DEF objected
  <2> QED BY <2>1, <2>2, OutcomeIs
<1>16. IsOutcome(G12Compliance(draft), "G12_compliance")
  <2> DEFINE exclamations == IF Cardinality(draft.exclamations) > MaxExclamations
                             THEN draft.exclamations ELSE {}
             spans == draft.urgency \cup draft.spam \cup draft.shouting \cup exclamations
  <2>1. spans \in SUBSET Span /\ (spans # {}) \in BOOLEAN
    BY DEF IsDraft
  <2>2. G12Compliance(draft) = Outcome("G12_compliance", spans # {}, spans)
    BY DEF G12Compliance
  <2> HIDE DEF spans
  <2> QED BY <2>1, <2>2, OutcomeIs
<1>17. outcomes =
            <<G01Schema(draft), G02Length(draft), G03Placeholders(draft),
              G04MerchantName(draft), G05EvidenceGrounding(draft, merchant),
              G06NoInventedNumbers(draft, merchant), G07BannedClaims(draft),
              G08Pii(draft, merchant, context), G09Locale(draft, merchant),
              G10SingleCta(draft), G11FrequencyCap(context), G12Compliance(draft),
              G13ClaimCount(draft)>>
  BY DEF RunGates
<1>18. DOMAIN outcomes = 1..13
  BY <1>17
<1>19. \A k \in 1..13 : IsOutcome(outcomes[k], GateOrder[k])
  BY <1>2, <1>3, <1>5, <1>6, <1>7, <1>8, <1>10, <1>11, <1>12, <1>13, <1>14, <1>15, <1>16, <1>17
     DEF GateOrder
<1> QED BY <1>18, <1>19

-----------------------------------------------------------------------------
(* The frequency cap. *)

\* There is a report.
Reported == report # None \/ saved # None

\* The report of a draft, outcome by outcome.
LEMMA ReportIs ==
    ASSUME ReportInv, Reported
    PROVE  /\ report = RunGates(Draft, Merchant, GateContext) /\ saved = ToContractReport(report)
           /\ DOMAIN report.outcomes = 1..13
           /\ \A k \in 1..13 : IsOutcome(report.outcomes[k], GateOrder[k])
<1>1. report = RunGates(Draft, Merchant, GateContext) /\ saved = ToContractReport(report) /\ IsDraft(Draft)
  BY DEF ReportInv, Reported, IsInput, Draft
<1> QED BY <1>1, OutcomesAre

\* No two gates have one name.
LEMMA GatesDiffer == \A k, m \in 1..13 : GateOrder[k] = GateOrder[m] => k = m
BY DEF GateOrder

\* A gate has one outcome.
LEMMA OutcomeOfIs ==
    ASSUME ReportInv, Reported, NEW k \in 1..13
    PROVE  OutcomeOf(GateOrder[k]) = report.outcomes[k]
<1>1. /\ DOMAIN report.outcomes = 1..13
      /\ \A m \in 1..13 : report.outcomes[m].gate = GateOrder[m]
  BY ReportIs DEF IsOutcome
<1>2. report.outcomes[k] \in Range(report.outcomes)
  BY <1>1 DEF Range
<1>3. \A o \in Range(report.outcomes) : o.gate = GateOrder[k] => o = report.outcomes[k]
  BY <1>1, GatesDiffer DEF Range
<1> QED BY <1>1, <1>2, <1>3 DEF OutcomeOf

\* Of finitely many sends one is the most recent.
LEMMA MostRecentIs ==
    ASSUME NEW sends \in (SUBSET Send) \ {{}}, IsFiniteSet(sends)
    PROVE  /\ MostRecent(sends) \in sends
           /\ \A other \in sends : MostRecent(sends).sentAt >= other.sentAt
<1> DEFINE times == {s.sentAt : s \in sends}
           R == {p \in Int \X Send : p[2].sentAt = p[1]}
<1>1. times \in SUBSET Int /\ times # {} /\ \A s \in sends : s.sentAt \in times
  BY DEF Send
<1>2. \A x \in times : \E s \in sends : <<x, s>> \in R
  BY DEF Send
<1>3. \A x, z \in times : \A s \in sends : <<x, s>> \in R /\ <<z, s>> \in R => x = z
  OBVIOUS
<1>4. IsFiniteSet(times)
  <2> HIDE DEF times, R
  <2> QED BY <1>2, <1>3, NoMoreThan
<1>5. PICK t \in times : \A u \in times : u <= t
  <2> HIDE DEF times
  <2> DEFINE n == Cardinality(times)
             at == Ascending(times)
  <2>1. /\ n \in Nat /\ at \in [1..n -> times]
        /\ \A i \in times : \E k \in 1..n : at[k] = i
        /\ \A k, m \in 1..n : k < m => at[k] < at[m]
    BY <1>1, <1>4, AscendingIs
  <2> HIDE DEF n, at
  <2>2. n \in 1..n
    <3>1. PICK i \in times : TRUE
      BY <1>1
    <3>2. PICK k \in 1..n : at[k] = i
      BY <2>1, <3>1
    <3> QED BY <2>1, <3>2
  <2>3. ASSUME NEW u \in times
        PROVE  u <= at[n]
    <3>1. PICK k \in 1..n : at[k] = u
      BY <2>1
    <3>2. at[n] \in Int /\ u \in Int
      BY <1>1, <2>1, <2>2
    <3>3. CASE k = n
      BY <3>1, <3>2, <3>3
    <3>4. CASE k < n
      BY <2>1, <2>2, <3>1, <3>2, <3>4
    <3> QED BY <2>1, <3>3, <3>4
  <2> QED BY <2>1, <2>2, <2>3
<1>6. PICK s \in sends : s.sentAt = t
  BY <1>5
<1>7. \A other \in sends : s.sentAt >= other.sentAt
  <2>1. \A other \in sends : other.sentAt <= t /\ other.sentAt \in Int
    <3> HIDE DEF times
    <3> QED BY <1>1, <1>5
  <2> QED BY <1>6, <2>1
<1> QED BY <1>6, <1>7 DEF MostRecent

\* G11 is given the last approach only, and knows of all of them.
THEOREM CapIsAlwaysExact == Spec => []CapIsExact
<1>1. ASSUME ReportInv
      PROVE  CapIsExact
  <2> SUFFICES ASSUME Judged
               PROVE  Passed("G11_frequency_cap") <=>
                          \A s \in input.sends : s.campaign # input.campaign =>
                              input.now - s.sentAt >= FrequencyCapDays * TicksPerDay
    BY DEF CapIsExact
  <2>0. Reported
    BY DEF Judged, Reported
  <2> DEFINE others == OthersSends(input.sends)
             last == LoadPreviousApproach(input.sends)
             cap == 30 * TicksPerDay
  <2>1. /\ input.now \in Int /\ TicksPerDay \in Nat /\ cap \in Nat
        /\ others \in SUBSET Send /\ IsFiniteSet(others) /\ None \notin Send
    <3>1. input.now \in Int /\ input.sends \subseteq Send /\ IsFiniteSet(input.sends)
      BY <1>1 DEF ReportInv, IsInput
    <3>2. others \subseteq input.sends
      BY DEF OthersSends
    <3>3. TicksPerDay \in Nat
      BY ReviewAssumption
    <3> HIDE DEF others
    <3> QED BY <3>1, <3>2, <3>3, FS_Subset, NoneIsNoValue
  <2>2. Passed("G11_frequency_cap") <=>
            (last = None \/ input.now - last.sentAt >= cap)
    <3>1. OutcomeOf("G11_frequency_cap") = report.outcomes[11]
      <4>1. GateOrder[11] = "G11_frequency_cap"
        BY DEF GateOrder
      <4> QED BY <1>1, <2>0, <4>1, OutcomeOfIs
    <3>2. report.outcomes[11] = G11FrequencyCap(GateContext)
      <4>1. report = RunGates(Draft, Merchant, GateContext)
        BY <1>1, <2>0, ReportIs
      <4> QED BY <4>1 DEF RunGates
    <3>3. /\ GateContext.now = input.now /\ GateContext.frequencyCapDays = 30
          /\ GateContext.previousApproach = last
      BY DEF GateContext, FrequencyCapDays
    <3> DEFINE context == GateContext
               objected == /\ context.previousApproach # None
                           /\ ~CapHasPassed(context.now - context.previousApproach.sentAt,
                                            context.frequencyCapDays)
    <3>4. G11FrequencyCap(context).passed = ~objected
      BY DEF G11FrequencyCap, Outcome
    <3> HIDE DEF last, context
    <3>5. objected <=> last # None /\ ~(input.now - last.sentAt >= cap)
      BY <3>3 DEF CapHasPassed, context
    <3> HIDE DEF objected
    <3> QED BY <3>1, <3>2, <3>4, <3>5 DEF Passed, context
  <2>3. \A s \in input.sends : s.campaign # input.campaign <=> s \in others
    BY DEF OthersSends
  <2>4. others \subseteq input.sends
    BY DEF OthersSends
  <2>5. FrequencyCapDays * TicksPerDay = cap
    BY DEF FrequencyCapDays
  <2>6. CASE others = {}
    <3>1. last = None
      BY <2>6 DEF LoadPreviousApproach
    <3> HIDE DEF others, last
    <3> QED BY <2>2, <2>3, <2>6, <3>1
  <2>7. CASE others # {}
    <3>1. last = MostRecent(others)
      BY <2>7 DEF LoadPreviousApproach
    <3> HIDE DEF others, last, cap
    <3>2. last \in others /\ \A s \in others : last.sentAt >= s.sentAt
      BY <2>1, <2>7, <3>1, MostRecentIs
    <3>3. last # None /\ \A s \in others : s.sentAt \in Int
      BY <2>1, <3>2 DEF Send
    <3>4. Passed("G11_frequency_cap") <=> input.now - last.sentAt >= cap
      BY <2>2, <3>3
    <3>5. (input.now - last.sentAt >= cap) <=> \A s \in others : input.now - s.sentAt >= cap
      BY <2>1, <3>2, <3>3
    <3> QED BY <2>3, <2>4, <2>5, <3>4, <3>5
  <2> QED BY <2>6, <2>7
<1> QED BY <1>1, ReportHolds, PTL

-----------------------------------------------------------------------------
(* The verdict of the gates. *)

\* The numbers up to n, in order.
LEMMA AscendingUpTo ==
    ASSUME NEW n \in Nat
    PROVE  Ascending(1..n) = [k \in 1..n |-> k]
<1>1. Cardinality(1..n) = n
  BY FS_Interval
<1>2. ASSUME NEW i \in 1..n
      PROVE  Cardinality({j \in 1..n : j <= i}) = i
  <2>1. {j \in 1..n : j <= i} = 1..i
    OBVIOUS
  <2>2. Cardinality(1..i) = i
    BY FS_Interval
  <2> QED BY <2>1, <2>2
<1>3. ASSUME NEW k \in 1..n
      PROVE  (CHOOSE i \in 1..n : Cardinality({j \in 1..n : j <= i}) = k) = k
  BY <1>2
<1> QED BY <1>1, <1>3 DEF Ascending

\* A single number, and two.
LEMMA AscendingOfOne ==
    ASSUME NEW i \in Int
    PROVE  Ascending({i}) = [k \in 1..1 |-> i]
<1> DEFINE S == {i}
<1>1. S \in SUBSET Int /\ IsFiniteSet(S) /\ Cardinality(S) = 1
  BY FS_Singleton
<1> HIDE DEF S
<1>2. Ascending(S) \in [1..1 -> S]
  BY <1>1, AscendingIs
<1> QED BY <1>2 DEF S

LEMMA AscendingOfTwo ==
    ASSUME NEW i \in Int, NEW j \in Int, i < j
    PROVE  Ascending({i, j}) = [k \in 1..2 |-> IF k = 1 THEN i ELSE j]
<1> DEFINE S == {i, j}
<1>1. S \in SUBSET Int /\ IsFiniteSet(S) /\ Cardinality(S) = 2
  <2>1. S = {i} \cup {j} /\ j \notin {i}
    OBVIOUS
  <2>2. IsFiniteSet({i}) /\ Cardinality({i}) = 1
    BY FS_Singleton
  <2>3. IsFiniteSet({i} \cup {j}) /\ Cardinality({i} \cup {j}) = 2
    BY <2>1, <2>2, FS_AddElement
  <2> QED BY <2>1, <2>3
<1> HIDE DEF S
<1>2. Ascending(S) \in [1..2 -> S] /\ \A k, m \in 1..2 : k < m => Ascending(S)[k] < Ascending(S)[m]
  BY <1>1, AscendingIs
<1> DEFINE at == Ascending(S)
<1>3. at \in [1..2 -> {i, j}] /\ at[1] < at[2]
  BY <1>2 DEF S
<1> HIDE DEF at
<1>4. at[1] \in {i, j} /\ at[2] \in {i, j}
  BY <1>3
<1>5. at[1] = i /\ at[2] = j
  BY <1>3, <1>4
<1>6. at = [k \in 1..2 |-> IF k = 1 THEN i ELSE j]
  BY <1>3, <1>5
<1> QED BY <1>6 DEF at, S

\* What fails at all fails as a warning if it is the tenth or the last gate, and
\* as blocking otherwise.
LEMMA SeveritiesAre ==
    \A k \in 1..13 : GateSeverity(GateOrder[k]) = IF k \in {10, 13} THEN "warning" ELSE "blocking"
BY DEF GateSeverity, GateOrder, WarningGates

\* What is saved is the report without its last outcome.
LEMMA SavedIs ==
    ASSUME ReportInv, Reported
    PROVE  /\ saved.outcomes = [k \in 1..12 |-> report.outcomes[k]]
           /\ saved.blocked <=> \E k \in 1..12 : IsBlockingFailure(report.outcomes[k])
<1> DEFINE outcomes == report.outcomes
           kept == {i \in DOMAIN outcomes : IsContractGate(outcomes[i].gate)}
<1>1. /\ DOMAIN outcomes = 1..13
      /\ \A k \in 1..13 : outcomes[k].gate = GateOrder[k] /\ outcomes[k].severity = GateSeverity(GateOrder[k])
  BY ReportIs DEF IsOutcome
<1>2. kept = 1..12
  <2>1. \A k \in 1..13 : GateOrder[k] # "G13_claim_count" <=> k # 13
    BY DEF GateOrder
  <2> HIDE DEF outcomes
  <2> QED BY <1>1, <2>1 DEF IsContractGate
<1>3. report = RunGates(Draft, Merchant, GateContext) /\ saved = ToContractReport(report)
  BY ReportIs
<1>4. /\ saved.outcomes = Filter(report.outcomes, LAMBDA o : IsContractGate(o.gate))
      /\ saved.blocked = report.blocked
  <2>1. report \in [outcomes : {report.outcomes}, blocked : {report.blocked}, evaluatedAt : {report.evaluatedAt}]
    BY <1>3 DEF RunGates
  <2> QED BY <1>3, <2>1 DEF ToContractReport
<1>5. saved.outcomes = [n \in DOMAIN Ascending(kept) |-> outcomes[Ascending(kept)[n]]]
  BY <1>4 DEF Filter
<1>6. Ascending(kept) = [k \in 1..12 |-> k]
  BY <1>2, AscendingUpTo
<1>7. saved.outcomes = [k \in 1..12 |-> outcomes[k]]
  <2> HIDE DEF kept, outcomes
  <2> QED BY <1>5, <1>6
<1>8. report.blocked <=> \E i \in DOMAIN outcomes : IsBlockingFailure(outcomes[i])
  BY <1>3 DEF RunGates
<1>9. ~IsBlockingFailure(outcomes[13])
  BY <1>1, SeveritiesAre DEF IsBlockingFailure
<1> HIDE DEF outcomes
<1>10. report.blocked <=> \E k \in 1..12 : IsBlockingFailure(outcomes[k])
  BY <1>1, <1>8, <1>9
<1> QED BY <1>4, <1>7, <1>10 DEF outcomes

\* The strip shows each of its twelve gates as its outcome is.
LEMMA StripIs ==
    ASSUME ReportInv, Reported
    PROVE  /\ DOMAIN GateIds = 1..12 /\ \A k \in 1..12 : GateIds[k] = GateOrder[k]
           /\ \A k \in 1..12 :
                 GateSegmentState(saved, GateOrder[k]) =
                     IF report.outcomes[k].passed THEN "pass"
                     ELSE IF k = 10 THEN "warn" ELSE "fail"
<1>2. DOMAIN GateIds = 1..12 /\ \A k \in 1..12 : GateIds[k] = GateOrder[k]
  <2> DEFINE S == {GateOrder[i] : i \in 1..12}
             m == 1
             n == 12
  <2>1. m \in Int /\ n \in Int /\ \A i \in m..n : GateOrder[i] \in S
    OBVIOUS
  <2> HIDE DEF S, m, n
  <2>2. /\ SubSeq(GateOrder, m, n) \in Seq(S)
        /\ Len(SubSeq(GateOrder, m, n)) = IF m <= n THEN n - m + 1 ELSE 0
        /\ \A i \in 1..(n - m + 1) : SubSeq(GateOrder, m, n)[i] = GateOrder[m + i - 1]
    BY <2>1, SubSeqProperties
  <2>3. GateIds \in Seq(S) /\ Len(GateIds) = 12 /\ \A i \in 1..12 : GateIds[i] = GateOrder[i]
    BY <2>2 DEF GateIds, m, n
  <2> QED BY <2>3, LenProperties
<1>3. /\ saved.outcomes = [k \in 1..12 |-> report.outcomes[k]]
      /\ \A k \in 1..12 : /\ report.outcomes[k].gate = GateOrder[k]
                          /\ report.outcomes[k].passed \in BOOLEAN
                          /\ report.outcomes[k].severity = IF k = 10 THEN "warning" ELSE "blocking"
  BY SavedIs, ReportIs, SeveritiesAre DEF IsOutcome
<1>4. ASSUME NEW k \in 1..12
      PROVE  OutcomesOf(saved, GateOrder[k]) = {report.outcomes[k]}
  <2>1. Range(saved.outcomes) = {report.outcomes[m] : m \in 1..12}
    BY <1>3 DEF Range
  <2>2. \A m \in 1..12 : report.outcomes[m].gate = GateOrder[k] => m = k
    BY <1>3, GatesDiffer
  <2> QED BY <1>3, <2>1, <2>2 DEF OutcomesOf
<1>5. ASSUME NEW k \in 1..12
      PROVE  GateSegmentState(saved, GateOrder[k]) =
                 IF report.outcomes[k].passed THEN "pass"
                 ELSE IF k = 10 THEN "warn" ELSE "fail"
  <2> DEFINE outcome == CHOOSE o \in OutcomesOf(saved, GateOrder[k]) : TRUE
  <2>1. outcome = report.outcomes[k] /\ OutcomesOf(saved, GateOrder[k]) # {}
    BY <1>4
  <2>2. GateSegmentState(saved, GateOrder[k]) =
            CASE outcome.passed -> "pass"
              [] IsBlockingFailure(outcome) -> "fail"
              [] OTHER -> "warn"
    BY <2>1 DEF GateSegmentState
  <2> HIDE DEF outcome
  <2>3. CASE outcome.passed
    BY <1>3, <2>1, <2>2, <2>3 DEF IsBlockingFailure
  <2>4. CASE ~outcome.passed /\ k = 10
    BY <1>3, <2>1, <2>2, <2>4 DEF IsBlockingFailure
  <2>5. CASE ~outcome.passed /\ k # 10
    BY <1>3, <2>1, <2>2, <2>5 DEF IsBlockingFailure
  <2> QED BY <2>1, <2>3, <2>4, <2>5
<1> QED BY <1>2, <1>5

\* The dashboard finds a blocking gate exactly if there is one, and the first of
\* them is the one the API names.
LEMMA BlockingIs ==
    ASSUME ReportInv, Reported
    PROVE  /\ saved.blocked <=> BlockingGate(saved) # None
           /\ saved.blocked => BlockingGate(saved) = BlockingFailures(report)[1]
<1> DEFINE outcomes == report.outcomes
           failing == {i \in DOMAIN GateIds : Strip(saved)[i] = "fail"}
           blocking == {i \in DOMAIN outcomes : ~outcomes[i].passed /\ outcomes[i].severity = "blocking"}
           B == {k \in 1..12 : IsBlockingFailure(outcomes[k])}
<1>1. /\ DOMAIN outcomes = 1..13
      /\ \A k \in 1..13 : /\ outcomes[k].gate = GateOrder[k]
                          /\ outcomes[k].passed \in BOOLEAN
                          /\ outcomes[k].severity = IF k \in {10, 13} THEN "warning" ELSE "blocking"
  BY ReportIs, SeveritiesAre DEF IsOutcome
<1>2. /\ DOMAIN GateIds = 1..12 /\ \A k \in 1..12 : GateIds[k] = GateOrder[k]
      /\ \A k \in 1..12 : GateSegmentState(saved, GateOrder[k]) =
             IF outcomes[k].passed THEN "pass" ELSE IF k = 10 THEN "warn" ELSE "fail"
  BY StripIs
<1>3. saved.blocked <=> B # {}
  BY SavedIs
<1> HIDE DEF outcomes
<1>4. failing = B
  <2>1. DOMAIN Strip(saved) = 1..12 /\ \A k \in 1..12 : Strip(saved)[k] = GateSegmentState(saved, GateOrder[k])
    BY <1>2 DEF Strip
  <2> QED BY <1>1, <1>2, <2>1 DEF IsBlockingFailure
<1>5. blocking = B
  BY <1>1 DEF IsBlockingFailure
<1>6. BlockingGate(saved) = IF failing = {} THEN None ELSE GateIds[Min(failing)]
  BY DEF BlockingGate
<1>7. BlockingFailures(report)
          = [n \in DOMAIN [m \in DOMAIN Ascending(blocking) |-> outcomes[Ascending(blocking)[m]]] |->
                [m \in DOMAIN Ascending(blocking) |-> outcomes[Ascending(blocking)[m]]][n].gate]
  BY DEF BlockingFailures, FailuresOf, Filter, outcomes
<1> HIDE DEF failing, blocking
<1>8. B \in SUBSET (1..12) /\ B \in SUBSET Int
  OBVIOUS
<1> HIDE DEF B
<1>9. CASE B = {}
  BY <1>3, <1>4, <1>6, <1>9
<1>10. CASE B # {}
  <2> DEFINE at == Ascending(B)
             n == Cardinality(B)
  <2>1. IsFiniteSet(B)
    <3> DEFINE lo == 1
               hi == 12
    <3>1. lo \in Int /\ hi \in Int /\ B \in SUBSET (lo..hi)
      BY <1>8
    <3> HIDE DEF lo, hi
    <3>2. IsFiniteSet(lo..hi)
      BY <3>1, FS_Interval
    <3> QED BY <3>1, <3>2, FS_Subset
  <2>2. /\ n \in Nat /\ at \in [1..n -> B]
        /\ \A i \in B : \E k \in 1..n : at[k] = i
        /\ \A k, m \in 1..n : k < m => at[k] < at[m]
    BY <1>8, <2>1, AscendingIs
  <2>3. BlockingFailures(report) = [k \in DOMAIN [m \in DOMAIN at |-> outcomes[at[m]]] |->
                                       [m \in DOMAIN at |-> outcomes[at[m]]][k].gate]
    BY <1>5, <1>7
  <2> HIDE DEF at, n
  <2>4. 1 \in 1..n
    <3>1. PICK i \in B : TRUE
      BY <1>10
    <3>2. PICK k \in 1..n : at[k] = i
      BY <2>2, <3>1
    <3> QED BY <2>2, <3>2
  <2>5. at[1] \in B /\ \A i \in B : at[1] <= i
    <3>1. ASSUME NEW i \in B
          PROVE  at[1] <= i
      <4>1. PICK k \in 1..n : at[k] = i
        BY <2>2
      <4>2. at[1] \in Int /\ i \in Int
        BY <1>8, <2>2, <2>4
      <4>3. k = 1 \/ 1 < k
        OBVIOUS
      <4> QED BY <2>2, <2>4, <4>1, <4>2, <4>3
    <3> QED BY <2>2, <2>4, <3>1
  <2>6. Min(B) = at[1]
    <3>1. ASSUME NEW x \in B, \A y \in B : x <= y
          PROVE  x = at[1]
      <4>1. x \in Int /\ at[1] \in Int /\ x <= at[1] /\ at[1] <= x
        BY <1>8, <2>5, <3>1
      <4> QED BY <4>1
    <3> QED BY <2>5, <3>1 DEF Min
  <2>7. at[1] \in 1..12
    BY <1>8, <2>5
  <2>8. BlockingGate(saved) = GateOrder[at[1]]
    BY <1>2, <1>4, <1>6, <1>10, <2>6, <2>7
  <2>9. BlockingFailures(report)[1] = GateOrder[at[1]]
    <3>1. DOMAIN at = 1..n
      BY <2>2
    <3>2. BlockingFailures(report)[1] = outcomes[at[1]].gate
      BY <2>3, <2>4, <3>1
    <3> QED BY <1>1, <2>7, <3>2
  <2>10. GateOrder[at[1]] # None
    <3>1. GateOrder[at[1]] \in Range(GateOrder)
      <4>1. DOMAIN GateOrder = 1..13
        BY DEF GateOrder
      <4> QED BY <2>7, <4>1 DEF Range
    <3> QED BY <3>1, NoneIsNoValue
  <2> QED BY <1>3, <1>10, <2>8, <2>9, <2>10
<1> QED BY <1>9, <1>10

\* Of the two gates that may warn the dashboard shows the one that the contract
\* keeps.
LEMMA WarningsAre ==
    ASSUME ReportInv, Reported
    PROVE  GatesThatWarn(saved) = Filter(WarningFailures(report), IsContractGate)
<1> DEFINE outcomes == report.outcomes
           shown == {i \in DOMAIN GateIds : GateSegmentState(saved, GateIds[i]) = "warn"}
           warned == {i \in DOMAIN outcomes : ~outcomes[i].passed /\ outcomes[i].severity = "warning"}
           all == [m \in DOMAIN Ascending(warned) |-> outcomes[Ascending(warned)[m]]]
           names == [m \in DOMAIN all |-> all[m].gate]
           kept == {m \in DOMAIN names : IsContractGate(names[m])}
           ten == ~outcomes[10].passed
           last == ~outcomes[13].passed
<1>1. /\ DOMAIN outcomes = 1..13
      /\ \A k \in 1..13 : /\ outcomes[k].gate = GateOrder[k]
                          /\ outcomes[k].passed \in BOOLEAN
                          /\ outcomes[k].severity = IF k \in {10, 13} THEN "warning" ELSE "blocking"
  BY ReportIs, SeveritiesAre DEF IsOutcome
<1>2. /\ DOMAIN GateIds = 1..12 /\ \A k \in 1..12 : GateIds[k] = GateOrder[k]
      /\ \A k \in 1..12 : GateSegmentState(saved, GateOrder[k]) =
             IF outcomes[k].passed THEN "pass" ELSE IF k = 10 THEN "warn" ELSE "fail"
  BY StripIs
<1>3. GatesThatWarn(saved) = [n \in DOMAIN Ascending(shown) |-> GateIds[Ascending(shown)[n]]]
  BY DEF GatesThatWarn, Filter
<1>4. WarningFailures(report) = names
  BY DEF WarningFailures, FailuresOf, Filter
<1>5. Filter(names, IsContractGate) = [n \in DOMAIN Ascending(kept) |-> names[Ascending(kept)[n]]]
  BY DEF Filter
<1>6. IsContractGate(GateOrder[10]) /\ ~IsContractGate(GateOrder[13])
  BY DEF IsContractGate, GateOrder
<1> HIDE DEF outcomes
<1>7. shown = {k \in {10} : ten}
  BY <1>1, <1>2
<1>8. warned = {k \in {10, 13} : ~outcomes[k].passed}
  BY <1>1
<1> HIDE DEF shown
<1>9. /\ ten => GatesThatWarn(saved) = [n \in 1..1 |-> GateOrder[10]]
      /\ ~ten => GatesThatWarn(saved) = <<>>
  <2>1. ASSUME ten
        PROVE  GatesThatWarn(saved) = [n \in 1..1 |-> GateOrder[10]]
    <3>1. Ascending(shown) = [k \in 1..1 |-> 10]
      <4> DEFINE i == 10
      <4>1. shown = {i} /\ i \in Int
        BY <1>7, <2>1
      <4> HIDE DEF i
      <4>2. Ascending(shown) = [k \in 1..1 |-> i]
        BY <4>1, AscendingOfOne
      <4> QED BY <4>2 DEF i
    <3> QED BY <1>2, <1>3, <3>1
  <2>2. ASSUME ~ten
        PROVE  GatesThatWarn(saved) = <<>>
    <3>1. shown = {}
      BY <1>7, <2>2
    <3>2. Ascending(shown) = <<>>
      BY <3>1, NothingIsAscending
    <3> QED BY <1>3, <3>2
  <2> QED BY <2>1, <2>2
<1>10. CASE ten /\ last
  <2>1. warned = {10, 13}
    BY <1>8, <1>10
  <2>2. Ascending(warned) = [k \in 1..2 |-> IF k = 1 THEN 10 ELSE 13]
    BY <2>1, AscendingOfTwo
  <2> HIDE DEF warned
  <2>3. all = [k \in 1..2 |-> outcomes[IF k = 1 THEN 10 ELSE 13]]
    BY <2>2
  <2> HIDE DEF all
  <2>4. names = [k \in 1..2 |-> GateOrder[IF k = 1 THEN 10 ELSE 13]]
    BY <1>1, <2>3
  <2> HIDE DEF names
  <2>5. kept = {1}
    BY <1>6, <2>4
  <2>6. Ascending(kept) = [k \in 1..1 |-> 1]
    BY <2>5, AscendingOfOne
  <2> HIDE DEF kept
  <2>7. Filter(names, IsContractGate) = [n \in 1..1 |-> GateOrder[10]]
    BY <1>5, <2>4, <2>6
  <2> QED BY <1>4, <1>9, <1>10, <2>7
<1>11. CASE ten /\ ~last
  <2>1. warned = {10}
    BY <1>8, <1>11
  <2>2. Ascending(warned) = [k \in 1..1 |-> 10]
    <3> DEFINE i == 10
    <3>1. warned = {i} /\ i \in Int
      BY <2>1
    <3> HIDE DEF i, warned
    <3>2. Ascending(warned) = [k \in 1..1 |-> i]
      BY <3>1, AscendingOfOne
    <3> QED BY <3>2 DEF i
  <2> HIDE DEF warned
  <2>3. all = [k \in 1..1 |-> outcomes[10]]
    BY <2>2
  <2> HIDE DEF all
  <2>4. names = [k \in 1..1 |-> GateOrder[10]]
    BY <1>1, <2>3
  <2> HIDE DEF names
  <2>5. kept = {1}
    BY <1>6, <2>4
  <2>6. Ascending(kept) = [k \in 1..1 |-> 1]
    BY <2>5, AscendingOfOne
  <2> HIDE DEF kept
  <2>7. Filter(names, IsContractGate) = [n \in 1..1 |-> GateOrder[10]]
    BY <1>5, <2>4, <2>6
  <2> QED BY <1>4, <1>9, <1>11, <2>7
<1>12. CASE ~ten /\ last
  <2>1. warned = {13}
    BY <1>8, <1>12
  <2>2. Ascending(warned) = [k \in 1..1 |-> 13]
    <3> DEFINE i == 13
    <3>1. warned = {i} /\ i \in Int
      BY <2>1
    <3> HIDE DEF i, warned
    <3>2. Ascending(warned) = [k \in 1..1 |-> i]
      BY <3>1, AscendingOfOne
    <3> QED BY <3>2 DEF i
  <2> HIDE DEF warned
  <2>3. all = [k \in 1..1 |-> outcomes[13]]
    BY <2>2
  <2> HIDE DEF all
  <2>4. names = [k \in 1..1 |-> GateOrder[13]]
    BY <1>1, <2>3
  <2> HIDE DEF names
  <2>5. kept = {}
    BY <1>6, <2>4
  <2>6. Ascending(kept) = <<>>
    BY <2>5, NothingIsAscending
  <2> HIDE DEF kept
  <2>7. Filter(names, IsContractGate) = <<>>
    BY <1>5, <2>6
  <2> QED BY <1>4, <1>9, <1>12, <2>7
<1>13. CASE ~ten /\ ~last
  <2>1. warned = {}
    BY <1>8, <1>13
  <2>2. Ascending(warned) = <<>>
    BY <2>1, NothingIsAscending
  <2> HIDE DEF warned
  <2>3. all = <<>>
    BY <2>2
  <2> HIDE DEF all
  <2>4. names = <<>>
    BY <2>3
  <2> HIDE DEF names
  <2>5. kept = {}
    BY <2>4
  <2>6. Ascending(kept) = <<>>
    BY <2>5, NothingIsAscending
  <2> HIDE DEF kept
  <2>7. Filter(names, IsContractGate) = <<>>
    BY <1>5, <2>6
  <2> QED BY <1>4, <1>9, <1>13, <2>7
<1> QED BY <1>10, <1>11, <1>12, <1>13

\* What the reviewer is told is what the gates decided, one warning aside.
THEOREM VerdictAlwaysReachesReviewer == Spec => []VerdictReachesReviewer
<1>1. ASSUME ReportInv
      PROVE  VerdictReachesReviewer
  <2>0. ASSUME Judged
        PROVE  Reported
    BY <2>0 DEF Judged, Reported
  <2>1. ASSUME Judged
        PROVE  "pending" \notin Range(Strip(saved))
    <3>1. /\ DOMAIN GateIds = 1..12 /\ \A k \in 1..12 : GateIds[k] = GateOrder[k]
          /\ \A k \in 1..12 : GateSegmentState(saved, GateOrder[k]) # "pending"
      BY <1>1, <2>0, <2>1, StripIs
    <3> QED BY <3>1 DEF Strip, Range
  <2> QED BY <1>1, <2>0, <2>1, BlockingIs, WarningsAre DEF VerdictReachesReviewer
<1> QED BY <1>1, ReportHolds, PTL

-----------------------------------------------------------------------------
(* The digits of a body. *)

\* Figures are what is kept of a text.
LEMMA FiguresAre ==
    ASSUME NEW text
    PROVE  Figures(text) = Kept(text, NonZero)
<1> DEFINE P == {i \in DOMAIN text : text[i] \in NonZero}
<1>1. Figures(text) = AtPlaces(text, P)
  BY DEF Figures, Filter, AtPlaces
<1>2. Kept(text, NonZero) = AtPlaces(text, P)
  BY DEF Kept
<1> QED BY <1>1, <1>2

\* A token is a piece of the text.
LEMMA TokenIsText ==
    ASSUME NEW text \in Seq(Symbols), NEW t \in NumberTokens(text)
    PROVE  TextOf(text, t) \in Seq(Symbols)
<1>1. PICK at \in 0..(Len(text) - 1) : IsDigit(text[at + 1]) /\ t = TokenAt(text, at)
  BY TokensAre DEF TokensIn
<1> DEFINE from == t.start + 1
           to == t.end
<1>2. t.start = at /\ to \in (at + 1)..Len(text)
  <2>1. /\ TokenAt(text, at) = [start |-> at, end |-> TokenAt(text, at).end]
        /\ TokenAt(text, at).end \in (at + 1)..Len(text)
    BY <1>1, TokenIs
  <2> DEFINE e == TokenAt(text, at).end
  <2>2. t = [start |-> at, end |-> e] /\ e \in (at + 1)..Len(text)
    BY <1>1, <2>1
  <2> HIDE DEF e
  <2> QED BY <2>2
<1>3. Len(text) \in Nat
  BY LenProperties
<1>4. from \in Int /\ to \in Int /\ \A i \in from..to : i \in 1..Len(text)
  BY <1>2, <1>3
<1>5. \A i \in from..to : text[i] \in Symbols
  BY <1>4, ElementOfSeq
<1> HIDE DEF from, to
<1>6. SubSeq(text, from, to) \in Seq(Symbols)
  BY <1>4, <1>5, SubSeqProperties
<1> QED BY <1>6 DEF TextOf, from, to

\* The digits of a token are those of all that it could denote.
LEMMA ReadingIs ==
    ASSUME NEW text \in Seq(Symbols), NEW t \in NumberTokens(text),
           NEW v \in Denoted(TextOf(text, t))
    PROVE  Figures(v.whole \o v.part) = Kept(TextOf(text, t), NonZero)
<1> DEFINE token == TextOf(text, t)
<1>1. token \in Seq(Symbols)
  BY TokenIsText
<1> HIDE DEF token
<1>2. Kept(v.whole \o v.part, NonZero) = Kept(token, NonZero)
  BY <1>1, ReadingKeepsDigits DEF token
<1> QED BY <1>2, FiguresAre DEF token

\* The numbers of the record, and the long ones of a body, are written in symbols.
LEMMA RecordDigitsAre == RecordDigits \in SUBSET (Seq(Symbols) \ {<<>>})
<1> SUFFICES ASSUME NEW v \in GroundedNumbers(Merchant)
             PROVE  Figures(v.whole \o v.part) \in Seq(Symbols)
  BY DEF RecordDigits
<1>1. GroundedNumbers(Merchant) \subseteq Decimals /\ Digits \subseteq Symbols
  BY ReviewAssumption DEF IsRecord
<1>2. v.whole \in Seq(Digits) /\ v.part \in Seq(Digits)
  BY <1>1 DEF Decimals
<1>3. v.whole \o v.part \in Seq(Digits)
  BY <1>2, ConcatProperties
<1> DEFINE w == v.whole \o v.part
<1> HIDE DEF w
<1>4. Kept(w, NonZero) \in Seq(Digits)
  BY <1>3, KeptIsIn DEF w
<1>5. Kept(w, NonZero) \in Seq(Symbols)
  BY <1>1, <1>4
<1> QED BY <1>5, FiguresAre DEF w

LEMMA LookAlikesAre ==
    ASSUME Draft.body \in Seq(Symbols)
    PROVE  LookAlikes \in SUBSET (Seq(Symbols) \ {<<>>})
<1> SUFFICES ASSUME NEW t \in NumberTokens(Draft.body)
             PROVE  Figures(TextOf(Draft.body, t)) \in Seq(Symbols)
  BY DEF LookAlikes
<1> DEFINE token == TextOf(Draft.body, t)
<1>1. token \in Seq(Symbols)
  BY TokenIsText
<1> HIDE DEF token
<1>2. Kept(token, NonZero) \in Seq(Symbols)
  BY <1>1, KeptIsIn
<1> QED BY <1>2, FiguresAre DEF token

\* If every token has the digits of a word, or none, then the text is made of words.
LEMMA TokensMakeText ==
    ASSUME NEW text \in Seq(Symbols), NEW words \in SUBSET (Seq(Symbols) \ {<<>>}),
           \A t \in NumberTokens(text) : Kept(TextOf(text, t), NonZero) \in words \cup {<<>>}
    PROVE  Kept(text, NonZero) \in MadeOf(Symbols, words)
<1> DEFINE D == 0..Len(text)
           S == NonZero
           M == MadeOf(Symbols, words)
           rank == [d \in D |-> Len(text) - d]
           upto(d) == Kept(SubSeq(text, 1, d), S)
           good == {t \in TokensIn(text) : Kept(TextOf(text, t), S) \in words \cup {<<>>}}
<1>1. Len(text) \in Nat /\ words \in SUBSET Seq(Symbols)
  BY LenProperties
<1>2. PICK c : /\ NumberTokens(text) = c[0]
               /\ \A d \in D : c[d] = IF DigitsFrom(text, d) = {} THEN {}
                                      ELSE {NextToken(text, d)} \cup c[NextToken(text, d).end]
  BY ScanIs
<1> DEFINE grounded(d) == \A t \in c[d] : Kept(TextOf(text, t), S) \in words \cup {<<>>}
           T == {d \in D : grounded(d) /\ upto(d) \in M => Kept(text, S) \in M}
<1>3. Closed(M, words)
  BY <1>1, MadeOfIs
<1>4. ASSUME NEW a \in D, NEW b \in a..Len(text), \A at \in a..(b - 1) : ~IsDigit(text[at + 1])
      PROVE  upto(b) = upto(a)
  <2> DEFINE whole == SubSeq(text, 1, b)
             one == SubSeq(text, 1, a)
             two == SubSeq(whole, a + 1, Len(whole))
  <2>1. whole \in Seq(Symbols) /\ Len(whole) = b /\ \A i \in 1..b : whole[i] = text[i]
    <3>1. b \in 0..Len(text)
      BY <1>1
    <3> QED BY <3>1, CutInTwo
  <2>2. one \in Seq(Symbols) /\ Len(one) = a /\ \A i \in 1..a : one[i] = text[i]
    <3>1. a \in 0..Len(text)
      BY <1>1
    <3> QED BY <3>1, CutInTwo
  <2>3. SubSeq(whole, 1, a) = one
    <3> DEFINE p == SubSeq(whole, 1, a)
    <3>1. p \in Seq(Symbols) /\ Len(p) = a /\ \A i \in 1..a : p[i] = whole[i]
      <4>1. a \in 0..Len(whole)
        BY <1>1, <2>1
      <4> HIDE DEF whole
      <4> QED BY <2>1, <4>1, CutInTwo
    <3>2. \A i \in 1..a : i \in 1..b
      BY <1>1
    <3> HIDE DEF whole, one, p
    <3>3. \A i \in 1..a : p[i] = one[i]
      BY <2>1, <2>2, <3>1, <3>2
    <3>4. p = one
      BY <2>2, <3>1, <3>3, SeqEqual
    <3> QED BY <3>4 DEF p
  <2>4. /\ two \in Seq(Symbols) /\ Len(two) = b - a /\ whole = SubSeq(whole, 1, a) \o two
        /\ \A i \in 1..(b - a) : two[i] = whole[a + i]
    <3>1. a \in 0..Len(whole)
      BY <1>1, <2>1
    <3> HIDE DEF whole
    <3>2. /\ two \in Seq(Symbols) /\ Len(two) = Len(whole) - a /\ whole = SubSeq(whole, 1, a) \o two
          /\ \A i \in 1..(Len(whole) - a) : two[i] = whole[a + i]
      BY <2>1, <3>1, CutInTwo
    <3> QED BY <2>1, <3>2
  <2> HIDE DEF whole, one, two
  <2>5. ASSUME NEW i \in 1..Len(two)
        PROVE  two[i] \notin S
    <3> DEFINE at == (a + i) - 1
    <3>1. i \in 1..(b - a) /\ a + i \in 1..b /\ at \in a..(b - 1) /\ at + 1 = a + i
      BY <1>1, <2>4
    <3>2. ~IsDigit(text[at + 1])
      BY <1>4, <3>1
    <3>3. two[i] = text[at + 1]
      BY <2>1, <2>4, <3>1
    <3> QED BY <3>2, <3>3 DEF IsDigit, NonZero
  <2>6. Kept(two, S) = <<>>
    <3>1. \A i \in 1..Len(two) : two[i] \notin S
      BY <2>5
    <3>2. two \in Seq(Symbols)
      BY <2>4
    <3> HIDE DEF S
    <3> QED BY <3>1, <3>2, KeptOfNone
  <2>7. Kept(one \o two, S) = Kept(one, S) \o Kept(two, S)
    <3>1. one \in Seq(Symbols) /\ two \in Seq(Symbols)
      BY <2>2, <2>4
    <3> QED BY <3>1, KeptOfBoth
  <2>8. Kept(one, S) \in Seq(Symbols)
    BY <2>2, KeptIsIn
  <2>9. Kept(whole, S) = Kept(one, S)
    BY <2>3, <2>4, <2>6, <2>7, <2>8, ConcatEmptySeq
  <2> QED BY <2>9 DEF whole, one
<1>5. ASSUME NEW a \in D, NEW b \in a..Len(text)
      PROVE  upto(b) = upto(a) \o Kept(SubSeq(text, a + 1, b), S) /\ upto(a) \in Seq(Symbols)
  <2> DEFINE one == SubSeq(text, 1, a)
             two == SubSeq(text, a + 1, b)
             ones == 1
  <2>1. one \in Seq(Symbols)
    <3>1. a \in 0..Len(text)
      BY <1>1
    <3> QED BY <3>1, CutInTwo
  <2>2. SubSeq(text, ones, a) \o SubSeq(text, a + 1, b) = SubSeq(text, ones, b)
    <3>1. ones \in 1..(Len(text) + 1) /\ a \in (ones - 1)..Len(text) /\ b \in a..Len(text)
      BY <1>1
    <3> HIDE DEF ones
    <3> QED BY <3>1, ConcatAdjacentSubSeq
  <2>3. two \in Seq(Symbols)
    <3> DEFINE from == a + 1
    <3>1. from \in Int /\ b \in Int /\ \A i \in from..b : text[i] \in Symbols
      <4>1. \A i \in from..b : i \in 1..Len(text)
        BY <1>1
      <4> QED BY <1>1, <4>1, ElementOfSeq
    <3> HIDE DEF from
    <3>2. SubSeq(text, from, b) \in Seq(Symbols)
      BY <3>1, SubSeqProperties
    <3> QED BY <3>2 DEF from
  <2>4. SubSeq(text, 1, b) = one \o two
    BY <2>2
  <2> HIDE DEF one, two
  <2>5. Kept(one \o two, S) = Kept(one, S) \o Kept(two, S)
    BY <2>1, <2>3, KeptOfBoth
  <2>6. Kept(one, S) \in Seq(Symbols)
    BY <2>1, KeptIsIn
  <2> QED BY <2>4, <2>5, <2>6 DEF one, two
<1> HIDE DEF upto
<1>6. upto(Len(text)) = Kept(text, S)
  <2>1. SubSeq(text, 1, Len(text)) = text
    BY SubSeqFull
  <2> QED BY <2>1 DEF upto
<1>7. ASSUME NEW d \in D, \A e \in D : rank[e] < rank[d] => e \in T
      PROVE  d \in T
  <2> SUFFICES ASSUME grounded(d), upto(d) \in M
               PROVE  Kept(text, S) \in M
    OBVIOUS
  <2>1. CASE DigitsFrom(text, d) = {}
    <3>1. \A at \in d..(Len(text) - 1) : ~IsDigit(text[at + 1])
      BY <2>1 DEF DigitsFrom
    <3>2. Len(text) \in d..Len(text)
      BY <1>1
    <3>3. upto(Len(text)) = upto(d)
      BY <1>4, <3>1, <3>2
    <3> QED BY <1>6, <3>3
  <2>2. CASE DigitsFrom(text, d) # {}
    <3> DEFINE t == NextToken(text, d)
               a == t.start
               e == t.end
    <3>1. a \in d..(Len(text) - 1) /\ e \in (a + 1)..Len(text)
          /\ \A at \in d..(a - 1) : ~IsDigit(text[at + 1])
      BY <2>2, NextTokenIs
    <3>2. c[d] = {t} \cup c[e]
      BY <1>2, <2>2
    <3>3. TextOf(text, t) = SubSeq(text, a + 1, e)
      BY DEF TextOf
    <3>4. Kept(SubSeq(text, a + 1, e), S) \in words \cup {<<>>} /\ grounded(e)
      <4>1. t \in c[d] /\ c[e] \subseteq c[d]
        BY <3>2
      <4>2. Kept(TextOf(text, t), S) \in words \cup {<<>>}
        BY <4>1
      <4>3. grounded(e)
        <5> HIDE DEF e
        <5> QED BY <4>1
      <4> QED BY <3>3, <4>2, <4>3
    <3> HIDE DEF a, e, t, S
    <3>5. a \in D /\ a \in d..Len(text) /\ e \in D /\ e \in a..Len(text) /\ rank[e] < rank[d]
      BY <1>1, <3>1
    <3>6. upto(a) = upto(d)
      BY <1>4, <3>1, <3>5
    <3>7. upto(e) = upto(a) \o Kept(SubSeq(text, a + 1, e), S) /\ upto(a) \in Seq(Symbols)
      BY <1>5, <3>5
    <3> DEFINE w == Kept(SubSeq(text, a + 1, e), S)
    <3>8. upto(e) \in M
      <4> HIDE DEF w, M
      <4>1. CASE w \in words
        BY <1>3, <3>6, <3>7, <4>1 DEF Closed, w
      <4>2. CASE w = <<>>
        <5>1. upto(a) \o <<>> = upto(a)
          BY <3>7, ConcatEmptySeq
        <5> QED BY <3>6, <3>7, <4>2, <5>1 DEF w
      <4> QED BY <3>4, <4>1, <4>2 DEF w
    <3>9. e \in T
      BY <1>7, <3>5
    <3> QED BY <3>4, <3>8, <3>9
  <2> QED BY <2>1, <2>2
<1>8. D \subseteq T
  <2>1. rank \in [D -> Nat]
    BY <1>1
  <2> HIDE DEF D, rank, T
  <2> QED BY <1>7, <2>1, RankInduction
<1>9. 0 \in D
  BY <1>1
<1>10. upto(0) \in M
  <2> DEFINE none == 0
  <2>1. none \in 0..Len(text)
    BY <1>1
  <2> HIDE DEF none
  <2>2. SubSeq(text, 1, none) \in Seq(Symbols) /\ Len(SubSeq(text, 1, none)) = none
    BY <2>1, CutInTwo
  <2>3. SubSeq(text, 1, none) = <<>>
    BY <2>2, EmptySeq DEF none
  <2>4. upto(none) = <<>>
    BY <2>3, KeptOfEmpty DEF upto
  <2> QED BY <1>3, <2>4 DEF Closed, none
<1>11. grounded(0)
  BY <1>2
<1>12. 0 \in T
  BY <1>8, <1>9
<1> QED BY <1>10, <1>11, <1>12

\* Whatever the body and the record, if G06 passes then the digits of the body,
\* zeros aside, are those of numbers of the record, one after another: none is
\* between two tokens, and none is lost in the reading of a token.
THEOREM NoNumberIsEverInvented == Spec => []NoNumberInvented
<1>1. ASSUME ReportInv
      PROVE  NoNumberInvented
  <2> SUFFICES ASSUME Judged, Passed("G06_no_invented_numbers")
               PROVE  IsMadeOf(Figures(Draft.body), RecordDigits \cup LookAlikes)
    BY DEF NoNumberInvented
  <2>0. Reported
    BY DEF Judged, Reported
  <2> DEFINE text == Draft.body
             grounded == GroundedNumbers(Merchant)
             ungrounded == {t \in NumberTokens(text) : ~IsGrounded(TextOf(text, t), grounded)}
             words == RecordDigits \cup LookAlikes
  <2>1. text \in Seq(Symbols)
    BY <1>1, DraftIs
  <2>2. ungrounded = {}
    <3>1. OutcomeOf("G06_no_invented_numbers") = report.outcomes[6]
      <4>1. GateOrder[6] = "G06_no_invented_numbers"
        BY DEF GateOrder
      <4> QED BY <1>1, <2>0, <4>1, OutcomeOfIs
    <3>2. report.outcomes[6] = G06NoInventedNumbers(Draft, Merchant)
      <4>1. report = RunGates(Draft, Merchant, GateContext)
        BY <1>1, <2>0, ReportIs
      <4> QED BY <4>1 DEF RunGates
    <3> DEFINE objected == ungrounded # {}
    <3>3. G06NoInventedNumbers(Draft, Merchant).passed = ~objected
      BY DEF G06NoInventedNumbers, Outcome
    <3> HIDE DEF ungrounded
    <3> QED BY <3>1, <3>2, <3>3 DEF Passed
  <2>3. ASSUME NEW t \in NumberTokens(text)
        PROVE  Kept(TextOf(text, t), NonZero) \in words \cup {<<>>}
    <3> DEFINE token == TextOf(text, t)
    <3>1. IsGrounded(token, grounded)
      BY <2>2
    <3>2. PICK v \in Denoted(token) : AsDouble(v) \in grounded
      BY <3>1 DEF IsGrounded, NumericInterpretations
    <3>3. Figures(v.whole \o v.part) = Kept(token, NonZero)
      <4> HIDE DEF text
      <4> QED BY <2>1, ReadingIs
    <3>4. CASE IsExact(v)
      <4>1. v \in grounded
        BY <3>2, <3>4 DEF AsDouble
      <4>2. Figures(v.whole \o v.part) \in RecordDigits \cup {<<>>}
        BY <4>1 DEF RecordDigits, grounded
      <4> QED BY <3>3, <4>2 DEF words
    <3>5. CASE ~IsExact(v)
      <4>1. IsLookAlike(token)
        BY <3>2, <3>5 DEF IsLookAlike, AsDouble, grounded
      <4> HIDE DEF token
      <4>2. Figures(token) \in LookAlikes \cup {<<>>}
        BY <4>1 DEF LookAlikes, token, text
      <4> QED BY <4>2, FiguresAre DEF words, token
    <3> QED BY <3>4, <3>5
  <2> HIDE DEF text
  <2>4. words \in SUBSET (Seq(Symbols) \ {<<>>})
    BY <2>1, RecordDigitsAre, LookAlikesAre DEF words, text
  <2> HIDE DEF words
  <2>5. Kept(text, NonZero) \in MadeOf(Symbols, words)
    BY <2>1, <2>3, <2>4, TokensMakeText
  <2>6. IsMadeOf(Kept(text, NonZero), words)
    BY <2>4, <2>5, MadeOfWords
  <2> QED BY <2>6, FiguresAre DEF text, words
<1> QED BY <1>1, ReportHolds, PTL

-----------------------------------------------------------------------------
(* The segments of the body. *)

\* A number kept between 0 and another.
LEMMA ClampIs ==
    ASSUME NEW value \in Int, NEW max \in Nat
    PROVE  Clamp(value, max) = IF value < 0 THEN 0 ELSE IF value > max THEN max ELSE value
<1>1. Max({value, 0}) = IF value < 0 THEN 0 ELSE value
  <2> DEFINE m == IF value < 0 THEN 0 ELSE value
  <2>1. m \in {value, 0} /\ \A y \in {value, 0} : m >= y
    OBVIOUS
  <2>2. \A x \in {value, 0} : (\A y \in {value, 0} : x >= y) => x = m
    OBVIOUS
  <2> QED BY <2>1, <2>2 DEF Max
<1>2. ASSUME NEW low \in Nat
      PROVE  Min({low, max}) = IF low > max THEN max ELSE low
  <2> DEFINE m == IF low > max THEN max ELSE low
  <2>1. m \in {low, max} /\ \A y \in {low, max} : m <= y
    OBVIOUS
  <2>2. \A x \in {low, max} : (\A y \in {low, max} : x <= y) => x = m
    OBVIOUS
  <2> QED BY <2>1, <2>2 DEF Min
<1> DEFINE low == IF value < 0 THEN 0 ELSE value
<1>3. low \in Nat /\ Clamp(value, max) = Min({low, max})
  BY <1>1 DEF Clamp
<1>4. Min({low, max}) = IF low > max THEN max ELSE low
  <2> HIDE DEF low
  <2> QED BY <1>2, <1>3
<1> QED BY <1>3, <1>4

\* The cuts of a body, in order: from its start to its end, and no cut between
\* one and the next.
LEMMA BoundsAre ==
    ASSUME NEW text \in Seq(Symbols), NEW marks \in SUBSET Span,
           NEW bounds, bounds = Ascending(Cuts(text, marks))
    PROVE  /\ Len(bounds) \in Nat /\ Len(bounds) >= 1
           /\ \A i \in 1..Len(bounds) : bounds[i] \in 0..Len(text)
           /\ bounds[1] = 0 /\ bounds[Len(bounds)] = Len(text)
           /\ \A i \in 1..(Len(bounds) - 1) :
                 /\ bounds[i] < bounds[i + 1]
                 /\ \A cut \in Cuts(text, marks) : cut <= bounds[i] \/ bounds[i + 1] <= cut
<1> DEFINE C == Cuts(text, marks)
           n == Cardinality(C)
           top == Len(text)
<1>1. top \in Nat
  OBVIOUS
<1> HIDE DEF top
<1>2. C \in SUBSET (0..top) /\ 0 \in C /\ top \in C
  <2>1. ASSUME NEW s \in marks
        PROVE  Clamp(s.start, Len(text)) \in 0..top /\ Clamp(s.end, Len(text)) \in 0..top
    <3>1. s.start \in Int /\ s.end \in Int
      BY DEF Span
    <3> QED BY <1>1, <3>1, ClampIs DEF top
  <2> QED BY <1>1, <2>1 DEF Cuts, top
<1> HIDE DEF C
<1>3. C \in SUBSET Int /\ IsFiniteSet(C)
  <2> DEFINE lo == 0
  <2>1. lo \in Int /\ top \in Int /\ C \in SUBSET (lo..top)
    BY <1>1, <1>2
  <2> HIDE DEF lo
  <2>2. IsFiniteSet(lo..top)
    BY <2>1, FS_Interval
  <2>3. IsFiniteSet(C)
    BY <2>1, <2>2, FS_Subset
  <2>4. \A i \in lo..top : i \in Int
    BY <2>1
  <2> QED BY <2>1, <2>3, <2>4
<1>4. /\ n \in Nat /\ bounds \in [1..n -> C]
      /\ \A i \in C : \E k \in 1..n : bounds[k] = i
      /\ \A k, m \in 1..n : k < m => bounds[k] < bounds[m]
  BY <1>3, AscendingIs DEF C
<1> HIDE DEF n
<1>5. Len(bounds) = n
  BY <1>4
<1>6. n >= 1
  <2>1. PICK k \in 1..n : bounds[k] = 0
    BY <1>2, <1>4
  <2> QED BY <1>4, <2>1
<1>7. \A i \in 1..n : bounds[i] \in C /\ bounds[i] \in 0..top /\ bounds[i] \in Int
  <2>1. \A i \in 1..n : bounds[i] \in C
    BY <1>4
  <2>2. \A i \in 1..n : bounds[i] \in 0..top
    BY <1>2, <2>1
  <2>3. \A i \in 0..top : i \in Int
    BY <1>1
  <2> QED BY <2>1, <2>2, <2>3
<1>8. bounds[1] = 0
  <2>1. PICK k \in 1..n : bounds[k] = 0
    BY <1>2, <1>4
  <2>2. 1 \in 1..n /\ (k = 1 \/ 1 < k)
    BY <1>4, <1>6
  <2>3. bounds[1] >= 0
    BY <1>7, <2>2
  <2> QED BY <1>4, <1>7, <2>1, <2>2, <2>3
<1>9. bounds[n] = top
  <2>1. PICK k \in 1..n : bounds[k] = top
    BY <1>2, <1>4
  <2>2. n \in 1..n /\ (k = n \/ k < n)
    BY <1>4, <1>6
  <2>3. bounds[n] <= top
    BY <1>1, <1>7, <2>2
  <2> QED BY <1>1, <1>4, <1>7, <2>1, <2>2, <2>3
<1>10. ASSUME NEW i \in 1..(n - 1)
       PROVE  /\ bounds[i] < bounds[i + 1]
              /\ \A cut \in C : cut <= bounds[i] \/ bounds[i + 1] <= cut
  <2>1. i \in 1..n /\ i + 1 \in 1..n /\ i < i + 1
    BY <1>4
  <2>2. ASSUME NEW cut \in C
        PROVE  cut <= bounds[i] \/ bounds[i + 1] <= cut
    <3>1. PICK k \in 1..n : bounds[k] = cut
      BY <1>4
    <3>2. k < i \/ k = i \/ k = i + 1 \/ i + 1 < k
      BY <1>4
    <3> QED BY <1>4, <1>7, <2>1, <3>1, <3>2
  <2> QED BY <1>4, <2>1, <2>2
<1> QED BY <1>4, <1>5, <1>6, <1>7, <1>8, <1>9, <1>10 DEF top, C

\* What is marked in the body: the claims that are linked, and what the gates
\* object to.
AllMarks == Found(Linked) \cup UNION {outcome.spans : outcome \in FailingOutcomes}
Bounds == Ascending(Cuts(Draft.body, AllMarks))

\* The outcomes that are saved and fail are those of the first twelve gates that
\* fail, and they mark spans.
LEMMA FailingAre ==
    ASSUME ReportInv, Reported
    PROVE  /\ FailingOutcomes = {report.outcomes[k] : k \in {m \in 1..12 : ~report.outcomes[m].passed}}
           /\ AllMarks \in SUBSET Span
<1>1. saved.outcomes = [k \in 1..12 |-> report.outcomes[k]]
  BY SavedIs
<1>2. \A k \in 1..12 : report.outcomes[k].spans \in SUBSET Span
  BY ReportIs DEF IsOutcome
<1>3. FailingOutcomes = {report.outcomes[k] : k \in {m \in 1..12 : ~report.outcomes[m].passed}}
  BY <1>1 DEF FailingOutcomes, Range
<1>4. Found(Linked) \in SUBSET Span
  <2>1. Linked \in [1..Len(DraftClaims) -> Spanned]
    BY DraftIs, LocatedAre DEF Linked
  <2>2. Spanned \ {None} \subseteq Span
    BY DEF Spanned, Span
  <2> QED BY <2>1, <2>2 DEF Found, Range
<1>5. \A outcome \in FailingOutcomes : outcome.spans \in SUBSET Span
  BY <1>2, <1>3
<1> QED BY <1>3, <1>4, <1>5 DEF AllMarks

\* The segments on the screen lie between neighbouring cuts.
LEMMA SegmentsAre ==
    ASSUME ReportInv, screen # None
    PROVE  /\ Reported
           /\ screen.segments =
                 [i \in 1..(Len(Bounds) - 1) |->
                     [text |-> SubSeq(Draft.body, Bounds[i] + 1, Bounds[i + 1]),
                      start |-> Bounds[i],
                      evidence |-> {r \in DOMAIN Linked :
                                       Linked[r] # None /\ Covers(Linked[r], Bounds[i], Bounds[i + 1])},
                      gates |-> {outcome.gate : outcome \in
                                    {o \in FailingOutcomes :
                                        \E s \in o.spans : Covers(s, Bounds[i], Bounds[i + 1])}}]]
<1>1. Reported /\ screen.segments = BuildBodySegments(Draft.body, ClaimsOf(Draft), FailingOutcomes)
  BY DEF ReportInv, Reported
<1>2. Linked = LocateClaims(Draft.body, ClaimsOf(Draft))
  BY DEF Linked, DraftClaims
<1> QED BY <1>1, <1>2 DEF BuildBodySegments, Bounds, AllMarks

\* The segments are not empty and lie within the body.
LEMMA TextsAre ==
    ASSUME ReportInv, screen # None, NEW i \in 1..(Len(Bounds) - 1)
    PROVE  /\ Bounds[i] \in 0..Len(Draft.body) /\ Bounds[i + 1] \in 0..Len(Draft.body)
           /\ Bounds[i] < Bounds[i + 1]
           /\ SubSeq(Draft.body, Bounds[i] + 1, Bounds[i + 1]) \in Seq(Symbols)
           /\ Len(SubSeq(Draft.body, Bounds[i] + 1, Bounds[i + 1])) = Bounds[i + 1] - Bounds[i]
<1>1. Draft.body \in Seq(Symbols) /\ AllMarks \in SUBSET Span
  BY DraftIs, SegmentsAre, FailingAre
<1>2. /\ Len(Bounds) \in Nat
      /\ \A k \in 1..Len(Bounds) : Bounds[k] \in 0..Len(Draft.body)
      /\ Bounds[i] < Bounds[i + 1]
  BY <1>1, BoundsAre DEF Bounds
<1>3. i \in 1..Len(Bounds) /\ i + 1 \in 1..Len(Bounds) /\ Len(Draft.body) \in Nat
  BY <1>1, <1>2
<1>4. Bounds[i] \in 0..Len(Draft.body) /\ Bounds[i + 1] \in 0..Len(Draft.body)
  BY <1>2, <1>3
<1> DEFINE text == Draft.body
           m == Bounds[i] + 1
           n == Bounds[i + 1]
<1>5. /\ m \in Int /\ n \in Int /\ m <= n /\ n - m + 1 = Bounds[i + 1] - Bounds[i]
      /\ \A k \in m..n : text[k] \in Symbols
  <2>1. \A k \in (Bounds[i] + 1)..Bounds[i + 1] : k \in 1..Len(Draft.body)
    BY <1>3, <1>4
  <2> QED BY <1>1, <1>2, <1>3, <1>4, <2>1
<1> HIDE DEF text, m, n
<1>6. SubSeq(text, m, n) \in Seq(Symbols) /\ Len(SubSeq(text, m, n)) = n - m + 1
  BY <1>5, SubSeqProperties
<1> QED BY <1>2, <1>4, <1>5, <1>6 DEF text, m, n

\* Whatever the marks, the segments put together are the body.
THEOREM SegmentsAlwaysReproduceBody == Spec => []SegmentsReproduceBody
<1>1. ASSUME ReportInv
      PROVE  SegmentsReproduceBody
  <2> SUFFICES ASSUME screen # None
               PROVE  /\ FlattenSeq([i \in DOMAIN screen.segments |-> screen.segments[i].text]) = Draft.body
                      /\ \A i \in DOMAIN screen.segments : screen.segments[i].text # <<>>
    BY DEF SegmentsReproduceBody, Opened
  <2> DEFINE text == Draft.body
             n == Len(Bounds) - 1
             texts == [i \in 1..n |-> SubSeq(text, Bounds[i] + 1, Bounds[i + 1])]
             sofar == [i \in 0..n |-> SubSeq(text, 1, Bounds[i + 1])]
  <2>1. /\ DOMAIN screen.segments = 1..n
        /\ \A i \in 1..n : screen.segments[i].text = texts[i]
    BY <1>1, SegmentsAre
  <2>2. text \in Seq(Symbols) /\ Len(text) \in Nat /\ AllMarks \in SUBSET Span
    BY <1>1, DraftIs, SegmentsAre, FailingAre
  <2>3. /\ Len(Bounds) \in Nat /\ n \in Nat
        /\ \A k \in 1..Len(Bounds) : Bounds[k] \in 0..Len(text)
        /\ Bounds[1] = 0 /\ Bounds[Len(Bounds)] = Len(text)
    BY <2>2, BoundsAre DEF Bounds
  <2>4. \A i \in 1..n : /\ texts[i] \in Seq(Symbols) /\ texts[i] # <<>>
                        /\ Bounds[i] \in 0..Len(text) /\ Bounds[i + 1] \in 0..Len(text)
                        /\ Bounds[i] < Bounds[i + 1]
    <3>1. ASSUME NEW i \in 1..n
          PROVE  /\ texts[i] \in Seq(Symbols) /\ Len(texts[i]) = Bounds[i + 1] - Bounds[i]
                 /\ Bounds[i] \in 0..Len(text) /\ Bounds[i + 1] \in 0..Len(text)
                 /\ Bounds[i] < Bounds[i + 1]
      BY <1>1, TextsAre
    <3>2. ASSUME NEW i \in 1..n
          PROVE  Len(texts[i]) # 0
      <4> HIDE DEF texts
      <4> QED BY <2>2, <3>1
    <3>3. Len(<<>>) = 0
      OBVIOUS
    <3> HIDE DEF texts
    <3> QED BY <3>1, <3>2, <3>3
  <2>5. texts \in Seq(Seq(Symbols)) /\ Len(texts) = n
    <3>1. texts \in [1..n -> Seq(Symbols)]
      BY <2>4
    <3> HIDE DEF texts
    <3> QED BY <2>3, <3>1
  <2>6. \A k \in 0..n : k + 1 \in 1..Len(Bounds) /\ Bounds[k + 1] \in 0..Len(text)
    BY <2>3
  <2>7. ASSUME NEW k \in 0..n
        PROVE  sofar[k] \in Seq(Symbols)
    <3> DEFINE to == Bounds[k + 1]
               one == 1
    <3>1. to \in Int /\ one \in Int /\ \A i \in one..to : text[i] \in Symbols
      BY <2>2, <2>6
    <3> HIDE DEF to, one, text
    <3>2. SubSeq(text, one, to) \in Seq(Symbols)
      BY <3>1, SubSeqProperties
    <3> QED BY <3>2 DEF to, one
  <2>8. sofar \in [0..Len(texts) -> Seq(Symbols)]
    BY <2>5, <2>7
  <2>9. sofar[0] = <<>>
    <3>1. sofar[0] = SubSeq(text, 1, 0)
      BY <2>3
    <3> HIDE DEF text, sofar
    <3> DEFINE one == 1
               zero == 0
    <3>2. one \in Int /\ zero \in Int /\ zero < one
      OBVIOUS
    <3> HIDE DEF one, zero
    <3>3. SubSeq(text, one, zero) = <<>>
      BY <3>2, SubSeqEmpty
    <3> QED BY <3>1, <3>3 DEF one, zero
  <2>10. ASSUME NEW i \in 1..Len(texts)
         PROVE  sofar[i] = sofar[i - 1] \o texts[i]
    <3> DEFINE one == 1
               k == Bounds[i]
               to == Bounds[i + 1]
    <3>1. i \in 1..n /\ i - 1 \in 0..n /\ i \in 0..n /\ (i - 1) + 1 = i
      BY <2>3, <2>5
    <3>2. one \in 1..(Len(text) + 1) /\ k \in (one - 1)..Len(text) /\ to \in k..Len(text)
      BY <2>2, <2>4, <3>1
    <3>3. sofar[i - 1] = SubSeq(text, one, k) /\ sofar[i] = SubSeq(text, one, to)
      BY <3>1
    <3>4. texts[i] = SubSeq(text, k + 1, to)
      BY <3>1
    <3> HIDE DEF one, k, to, texts, sofar, text
    <3>5. SubSeq(text, one, k) \o SubSeq(text, k + 1, to) = SubSeq(text, one, to)
      BY <2>2, <3>2, ConcatAdjacentSubSeq
    <3> QED BY <3>3, <3>4, <3>5
  <2>11. sofar[n] = text
    <3>1. sofar[n] = SubSeq(text, 1, Len(text))
      <4>1. n \in 0..n /\ n + 1 = Len(Bounds)
        BY <2>3
      <4> HIDE DEF n
      <4> QED BY <2>3, <4>1
    <3> HIDE DEF sofar, text
    <3> QED BY <2>2, <3>1, SubSeqFull
  <2>12. FlattenSeq(texts) = text
    <3> HIDE DEF texts, sofar, n, text
    <3> QED BY <2>5, <2>8, <2>9, <2>10, <2>11, FlattenIs
  <2>13. [i \in DOMAIN screen.segments |-> screen.segments[i].text] = texts
    BY <2>1
  <2> HIDE DEF texts
  <2> QED BY <2>1, <2>4, <2>12, <2>13
<1> QED BY <1>1, ReportHolds, PTL

\* A mark covers a segment exactly if it covers a character of it: where a mark
\* starts and where it ends the body is cut.
LEMMA MarkedIsCovered ==
    ASSUME ReportInv, screen # None, NEW i \in 1..(Len(Bounds) - 1),
           NEW at \in Bounds[i]..(Bounds[i + 1] - 1), NEW s \in AllMarks
    PROVE  Covers(s, Bounds[i], Bounds[i + 1]) <=> LiesIn(s, at)
<1> DEFINE top == Len(Draft.body)
           from == Bounds[i]
           to == Bounds[i + 1]
<1>1. Draft.body \in Seq(Symbols) /\ top \in Nat /\ AllMarks \in SUBSET Span
  BY DraftIs, SegmentsAre, FailingAre
<1>2. \A cut \in Cuts(Draft.body, AllMarks) : cut <= from \/ to <= cut
  BY <1>1, BoundsAre DEF Bounds
<1>3. from \in 0..top /\ to \in 0..top /\ from < to
  BY TextsAre
<1>4. s.start \in Int /\ s.end \in Int
  BY <1>1 DEF Span
<1>5. Clamp(s.start, top) \in Cuts(Draft.body, AllMarks) /\ Clamp(s.end, top) \in Cuts(Draft.body, AllMarks)
  BY DEF Cuts
<1> HIDE DEF top, from, to
<1>6. /\ (Clamp(s.start, top) <= from \/ to <= Clamp(s.start, top))
      /\ (Clamp(s.end, top) <= from \/ to <= Clamp(s.end, top))
  BY <1>2, <1>5
<1>7. /\ Clamp(s.start, top) = IF s.start < 0 THEN 0 ELSE IF s.start > top THEN top ELSE s.start
      /\ Clamp(s.end, top) = IF s.end < 0 THEN 0 ELSE IF s.end > top THEN top ELSE s.end
  BY <1>1, <1>4, ClampIs
<1>8. at \in Int /\ from <= at /\ at < to
  BY <1>1, <1>3 DEF from, to
<1>9. (s.start <= from /\ s.end >= to) <=> (s.start <= at /\ at < s.end)
  BY <1>1, <1>3, <1>4, <1>6, <1>7, <1>8
<1> QED BY <1>9 DEF Covers, LiesIn, from, to

\* Every character carries the marks that lie over it, and no others.
THEOREM SegmentsAlwaysCarryTheirMarks == Spec => []SegmentsCarryTheirMarks
<1>1. ASSUME ReportInv
      PROVE  SegmentsCarryTheirMarks
  <2> SUFFICES ASSUME screen # None, NEW i \in DOMAIN screen.segments,
                      NEW at \in screen.segments[i].start..
                                     (screen.segments[i].start + Len(screen.segments[i].text) - 1)
               PROVE  LET segment == screen.segments[i]
                      IN  /\ segment.evidence =
                                {r \in DOMAIN Linked : Linked[r] # None /\ LiesIn(Linked[r], at)}
                          /\ segment.gates \cup {"G13_claim_count"} =
                                {o.gate : o \in {p \in Range(report.outcomes) :
                                                    \E s \in p.spans : LiesIn(s, at)}}
                                \cup {"G13_claim_count"}
    BY DEF SegmentsCarryTheirMarks, Opened
  <2> DEFINE from == Bounds[i]
             to == Bounds[i + 1]
             segment == screen.segments[i]
             outcomes == report.outcomes
             under == {p \in Range(outcomes) : \E s \in p.spans : LiesIn(s, at)}
             over == {o \in FailingOutcomes : \E s \in o.spans : Covers(s, from, to)}
  <2>1. /\ Reported /\ i \in 1..(Len(Bounds) - 1)
        /\ segment.text = SubSeq(Draft.body, from + 1, to)
        /\ segment.start = from
        /\ segment.evidence = {r \in DOMAIN Linked : Linked[r] # None /\ Covers(Linked[r], from, to)}
        /\ segment.gates = {outcome.gate : outcome \in over}
    BY <1>1, SegmentsAre
  <2>2. at \in from..(to - 1)
    <3>1. Len(segment.text) = to - from /\ from \in Int /\ to \in Int
      BY <1>1, <2>1, TextsAre
    <3> HIDE DEF from, to, segment
    <3>2. from + (to - from) - 1 = to - 1
      BY <3>1
    <3> QED BY <2>1, <3>1, <3>2 DEF segment
  <2>3. \A s \in AllMarks : Covers(s, from, to) <=> LiesIn(s, at)
    BY <1>1, <2>1, <2>2, MarkedIsCovered
  <2>4. /\ DOMAIN outcomes = 1..13
        /\ \A k \in 1..13 : /\ outcomes[k].gate = GateOrder[k]
                            /\ outcomes[k].passed => outcomes[k].spans = {}
    BY <1>1, <2>1, ReportIs DEF IsOutcome
  <2>5. FailingOutcomes = {outcomes[k] : k \in {m \in 1..12 : ~outcomes[m].passed}}
    BY <1>1, <2>1, FailingAre
  <2> HIDE DEF from, to, outcomes
  <2>6. segment.evidence = {r \in DOMAIN Linked : Linked[r] # None /\ LiesIn(Linked[r], at)}
    <3>1. \A r \in DOMAIN Linked : Linked[r] # None => Linked[r] \in AllMarks
      BY DEF AllMarks, Found, Range
    <3> HIDE DEF segment
    <3> QED BY <2>1, <2>3, <3>1
  <2>7. \A o \in FailingOutcomes : \A s \in o.spans : s \in AllMarks
    BY DEF AllMarks
  <2>8. over = {o \in FailingOutcomes : \E s \in o.spans : LiesIn(s, at)}
    BY <2>3, <2>7
  <2>9. \A o \in over : o \in under
    BY <2>4, <2>5, <2>8 DEF Range
  <2>10. \A p \in under : p \in over \/ p.gate = "G13_claim_count"
    <3>1. ASSUME NEW k \in 1..13, \E s \in outcomes[k].spans : LiesIn(s, at)
          PROVE  outcomes[k] \in over \/ outcomes[k].gate = "G13_claim_count"
      <4>1. ~outcomes[k].passed
        BY <2>4, <3>1
      <4>2. CASE k = 13
        BY <2>4, <4>2 DEF GateOrder
      <4>3. CASE k # 13
        <5>1. k \in 1..12
          BY <4>3
        <5>2. outcomes[k] \in FailingOutcomes
          BY <2>5, <4>1, <5>1
        <5> HIDE DEF over
        <5> QED BY <2>8, <3>1, <5>2
      <4> QED BY <4>2, <4>3
    <3> HIDE DEF over
    <3> QED BY <2>4, <3>1 DEF Range
  <2> HIDE DEF over, under
  <2>11. {o.gate : o \in over} \cup {"G13_claim_count"} = {o.gate : o \in under} \cup {"G13_claim_count"}
    BY <2>9, <2>10
  <2> QED BY <2>1, <2>6, <2>11 DEF under, outcomes
<1> QED BY <1>1, ReportHolds, PTL

-----------------------------------------------------------------------------
(* Bodies that are composed of parts. *)

\* The parts put together one after another.
Grows(sofar, parts) ==
    /\ sofar[0] = <<>>
    /\ \A i \in 1..Len(parts) : sofar[i] = sofar[i - 1] \o parts[i].text

\* The text of a part is a text.
LEMMA PartsAre ==
    ASSUME NEW parts \in Seq(Part)
    PROVE  /\ Len(parts) \in Nat /\ DOMAIN parts = 1..Len(parts)
           /\ \A i \in 1..Len(parts) : /\ parts[i] \in Part
                                      /\ parts[i].text \in Seq(Symbols) /\ Len(parts[i].text) \in Nat
                                      /\ parts[i].isClaim \in BOOLEAN
<1>1. Len(parts) \in Nat /\ DOMAIN parts = 1..Len(parts) /\ \A i \in 1..Len(parts) : parts[i] \in Part
  OBVIOUS
<1>2. \A part \in Part : part.text \in Seq(Symbols) /\ part.isClaim \in BOOLEAN
  BY DEF Part
<1>3. \A text \in Seq(Symbols) : Len(text) \in Nat
  OBVIOUS
<1> QED BY <1>1, <1>2, <1>3

\* They can be.
LEMMA PartsGrow ==
    ASSUME NEW parts \in Seq(Part)
    PROVE  \E sofar \in [0..Len(parts) -> Seq(Symbols)] : Grows(sofar, parts)
<1> DEFINE D == 0..Len(parts)
           V == Seq(Symbols)
           leaves == {0}
           rank == [n \in D |-> n]
           base == [n \in D |-> <<>>]
           down == [n \in D |-> n - 1]
           step == [p \in D \X V |-> p[2] \o parts[p[1]].text]
<1>1. Len(parts) \in Nat /\ \A i \in 1..Len(parts) : parts[i].text \in V
  BY PartsAre
<1>2. rank \in [D -> Nat] /\ \A d \in D \cap leaves : base[d] \in V
  BY <1>1
<1>3. \A d \in D \ leaves : down[d] \in D /\ rank[down[d]] < rank[d]
  BY <1>1
<1>4. \A d \in D \ leaves : \A v \in V :
          step[<<d, v>>] = v \o parts[d].text /\ step[<<d, v>>] \in V
  <2>1. ASSUME NEW d \in D \ leaves, NEW v \in V
        PROVE  step[<<d, v>>] = v \o parts[d].text /\ step[<<d, v>>] \in V
    <3>1. <<d, v>> \in D \X V /\ d \in 1..Len(parts)
      BY <1>1
    <3>2. step[<<d, v>>] = v \o parts[d].text
      BY <3>1
    <3>3. v \o parts[d].text \in V
      BY <1>1, <3>1, ConcatProperties
    <3> QED BY <3>2, <3>3
  <2> QED BY <2>1
<1>5. PICK f \in [D -> V] : Computes(f, leaves, base, down, step)
  <2>1. \A d \in D \ leaves : \A v \in V : step[<<d, v>>] \in V
    BY <1>4
  <2> HIDE DEF D, V, leaves, rank, base, down, step
  <2> QED BY <1>2, <1>3, <2>1, RecursionExists
<1>6. f[0] = <<>>
  <2>1. 0 \in D /\ 0 \in leaves /\ base[0] = <<>> /\ DOMAIN f = D
    BY <1>1, <1>5
  <2> HIDE DEF D, V, leaves, rank, base, down, step
  <2> QED BY <1>5, <2>1 DEF Computes
<1>7. ASSUME NEW i \in 1..Len(parts)
      PROVE  f[i] = f[i - 1] \o parts[i].text
  <2>1. i \in D \ leaves /\ i - 1 \in D /\ down[i] = i - 1
    BY <1>1
  <2>2. f[i] = step[<<i, f[i - 1]>>]
    BY <1>5, <2>1 DEF Computes
  <2>3. f[i - 1] \in V
    BY <1>5, <2>1
  <2> HIDE DEF step, D, V, leaves
  <2> QED BY <1>4, <2>1, <2>2, <2>3
<1> QED BY <1>5, <1>6, <1>7 DEF Grows

\* The body of the first parts is as far as they go.
LEMMA BodyOfFirst ==
    ASSUME NEW parts \in Seq(Part), NEW sofar \in [0..Len(parts) -> Seq(Symbols)],
           Grows(sofar, parts), NEW m \in 0..Len(parts)
    PROVE  BodyOf(SubSeq(parts, 1, m)) = sofar[m]
<1> DEFINE first == SubSeq(parts, 1, m)
           texts == [i \in DOMAIN first |-> first[i].text]
           upto == [i \in 0..m |-> sofar[i]]
<1>1. Len(parts) \in Nat /\ m \in Nat /\ \A i \in 1..Len(parts) : parts[i] \in Part
  OBVIOUS
<1>2. DOMAIN first = 1..m /\ \A i \in 1..m : first[i] = parts[i]
  <2> DEFINE one == 1
  <2>1. one \in Int /\ m \in Int /\ \A i \in one..m : parts[i] \in Part
    BY <1>1
  <2> HIDE DEF one
  <2>2. /\ SubSeq(parts, one, m) \in Seq(Part)
        /\ Len(SubSeq(parts, one, m)) = IF one <= m THEN m - one + 1 ELSE 0
        /\ \A i \in 1..(m - one + 1) : SubSeq(parts, one, m)[i] = parts[one + i - 1]
    BY <2>1, SubSeqProperties
  <2>3. first \in Seq(Part) /\ Len(first) = m /\ \A i \in 1..m : first[i] = parts[i]
    BY <1>1, <2>2 DEF one
  <2> HIDE DEF first
  <2> QED BY <2>3
<1> HIDE DEF first
<1>3. texts \in Seq(Seq(Symbols)) /\ Len(texts) = m /\ \A i \in 1..m : texts[i] = parts[i].text
  <2>1. \A i \in 1..m : parts[i].text \in Seq(Symbols)
    BY <1>1, PartsAre
  <2>2. texts \in [1..m -> Seq(Symbols)] /\ \A i \in 1..m : texts[i] = parts[i].text
    BY <1>2, <2>1
  <2> HIDE DEF texts
  <2> QED BY <1>1, <2>2
<1>4. upto \in [0..Len(texts) -> Seq(Symbols)] /\ upto[0] = <<>>
  BY <1>1, <1>3 DEF Grows
<1>5. \A i \in 1..Len(texts) : upto[i] = upto[i - 1] \o texts[i]
  <2>1. ASSUME NEW i \in 1..m
        PROVE  upto[i] = upto[i - 1] \o texts[i]
    <3>1. i \in 1..Len(parts) /\ i \in 0..m /\ i - 1 \in 0..m
      BY <1>1
    <3>2. sofar[i] = sofar[i - 1] \o parts[i].text
      BY <3>1 DEF Grows
    <3> HIDE DEF texts
    <3> QED BY <1>3, <3>1, <3>2
  <2> HIDE DEF texts, upto
  <2> QED BY <1>3, <2>1
<1>6. BodyOf(first) = FlattenSeq(texts)
  BY DEF BodyOf
<1>7. FlattenSeq(texts) = upto[Len(texts)]
  <2> HIDE DEF texts, upto
  <2> QED BY <1>3, <1>4, <1>5, FlattenIs
<1>8. upto[m] = sofar[m]
  BY <1>1
<1> HIDE DEF texts, upto
<1> QED BY <1>3, <1>6, <1>7, <1>8 DEF first

\* Each part is in the body where the parts before it end.
LEMMA PartIsThere ==
    ASSUME NEW parts \in Seq(Part), NEW sofar \in [0..Len(parts) -> Seq(Symbols)],
           Grows(sofar, parts), NEW k \in 1..Len(parts)
    PROVE  /\ Len(sofar[k - 1]) \in Nat
           /\ Len(sofar[k]) = Len(sofar[k - 1]) + Len(parts[k].text)
           /\ \A m \in k..Len(parts) : Len(sofar[k]) <= Len(sofar[m])
           /\ Len(sofar[k - 1]) \in Occurrences(sofar[Len(parts)], parts[k].text)
<1> DEFINE n == Len(parts)
           D == k..n
           rank == [m \in D |-> m - k]
           T == {m \in D : /\ Len(sofar[k]) <= Len(sofar[m])
                           /\ \A x \in 1..Len(sofar[k]) : sofar[m][x] = sofar[k][x]}
<1>1. n \in Nat /\ \A i \in 1..n : parts[i].text \in Seq(Symbols)
  BY PartsAre
<1>2. ASSUME NEW i \in 1..n
      PROVE  /\ sofar[i - 1] \in Seq(Symbols) /\ sofar[i] \in Seq(Symbols)
             /\ Len(sofar[i - 1]) \in Nat /\ Len(sofar[i]) \in Nat /\ Len(parts[i].text) \in Nat
             /\ Len(sofar[i]) = Len(sofar[i - 1]) + Len(parts[i].text)
             /\ \A x \in 1..(Len(sofar[i - 1]) + Len(parts[i].text)) :
                   sofar[i][x] = IF x <= Len(sofar[i - 1]) THEN sofar[i - 1][x]
                                 ELSE parts[i].text[x - Len(sofar[i - 1])]
  <2>1. i - 1 \in 0..n /\ i \in 0..n
    BY <1>1
  <2>2. sofar[i - 1] \in Seq(Symbols) /\ sofar[i] \in Seq(Symbols) /\ parts[i].text \in Seq(Symbols)
    BY <1>1, <2>1
  <2>3. sofar[i] = sofar[i - 1] \o parts[i].text
    BY DEF Grows
  <2> DEFINE a == sofar[i - 1]
             b == parts[i].text
  <2>4. a \in Seq(Symbols) /\ b \in Seq(Symbols) /\ sofar[i] = a \o b
    BY <2>2, <2>3
  <2> HIDE DEF a, b
  <2>5. /\ Len(a) \in Nat /\ Len(b) \in Nat /\ Len(a \o b) = Len(a) + Len(b)
        /\ \A x \in 1..(Len(a) + Len(b)) : (a \o b)[x] = IF x <= Len(a) THEN a[x] ELSE b[x - Len(a)]
    BY <2>4, ConcatProperties, LenProperties
  <2>6. Len(sofar[i]) \in Nat
    BY <2>4, <2>5
  <2> QED BY <2>2, <2>4, <2>5, <2>6 DEF a, b
<1>3. ASSUME NEW m \in D, \A j \in D : rank[j] < rank[m] => j \in T
      PROVE  m \in T
  <2>1. CASE m = k
    BY <1>2, <2>1
  <2>2. CASE m # k
    <3>1. m - 1 \in D /\ m \in 1..n /\ k \in 1..n /\ rank[m - 1] < rank[m]
      <4>1. m \in Int /\ k \in Int /\ m - 1 \in D /\ m \in 1..n
        BY <1>1, <2>2
      <4>2. rank[m - 1] = m - 1 - k /\ rank[m] = m - k
        BY <4>1
      <4> HIDE DEF rank
      <4> QED BY <4>1, <4>2
    <3>2. m - 1 \in T
      <4> HIDE DEF D, rank, T
      <4> QED BY <1>3, <3>1
    <3>3. /\ Len(sofar[k]) <= Len(sofar[m - 1])
          /\ \A x \in 1..Len(sofar[k]) : sofar[m - 1][x] = sofar[k][x]
      BY <3>2
    <3>4. /\ Len(sofar[m - 1]) \in Nat /\ Len(sofar[m]) \in Nat /\ Len(parts[m].text) \in Nat
          /\ Len(sofar[k]) \in Nat
          /\ Len(sofar[m]) = Len(sofar[m - 1]) + Len(parts[m].text)
          /\ \A x \in 1..(Len(sofar[m - 1]) + Len(parts[m].text)) :
                x <= Len(sofar[m - 1]) => sofar[m][x] = sofar[m - 1][x]
      BY <1>2, <3>1
    <3> DEFINE small == Len(sofar[k])
               middle == Len(sofar[m - 1])
               added == Len(parts[m].text)
    <3>5. /\ small \in Nat /\ middle \in Nat /\ added \in Nat /\ small <= middle
          /\ Len(sofar[m]) = middle + added
          /\ \A x \in 1..small : sofar[m - 1][x] = sofar[k][x]
          /\ \A x \in 1..(middle + added) : x <= middle => sofar[m][x] = sofar[m - 1][x]
      BY <3>3, <3>4
    <3> HIDE DEF small, middle, added
    <3>6. small <= Len(sofar[m])
      BY <3>5
    <3>7. \A x \in 1..small : sofar[m][x] = sofar[k][x]
      <4>1. \A x \in 1..small : x \in 1..(middle + added) /\ x <= middle
        BY <3>5
      <4> QED BY <3>5, <4>1
    <3> QED BY <3>6, <3>7 DEF small
  <2> QED BY <2>1, <2>2
<1>4. D \subseteq T
  <2>1. rank \in [D -> Nat]
    BY <1>1
  <2>2. \A m \in D : (\A j \in D : rank[j] < rank[m] => j \in T) => m \in T
    BY <1>3
  <2> HIDE DEF D, rank, T
  <2> QED BY <2>1, <2>2, RankInduction
<1>5. \A m \in D : Len(sofar[k]) <= Len(sofar[m])
  BY <1>4
<1>6. n \in D /\ n \in T
  BY <1>1, <1>4
<1> DEFINE body == sofar[n]
           claim == parts[k].text
           at == Len(sofar[k - 1])
<1>7. /\ Len(sofar[k]) <= Len(body) /\ \A x \in 1..Len(sofar[k]) : body[x] = sofar[k][x]
      /\ body \in Seq(Symbols) /\ Len(body) \in Nat /\ claim \in Seq(Symbols) /\ Len(claim) \in Nat
      /\ at \in Nat /\ Len(sofar[k]) = at + Len(claim)
      /\ \A x \in 1..(at + Len(claim)) : x > at => sofar[k][x] = claim[x - at]
  <2>1. /\ Len(sofar[k]) <= Len(body) /\ \A x \in 1..Len(sofar[k]) : body[x] = sofar[k][x]
    BY <1>6
  <2>2. body \in Seq(Symbols) /\ Len(body) \in Nat
    BY <1>1
  <2>3. claim \in Seq(Symbols) /\ Len(claim) \in Nat /\ at \in Nat /\ Len(sofar[k]) = at + Len(claim)
    BY <1>1, <1>2
  <2>4. \A x \in 1..(at + Len(claim)) : sofar[k][x] = IF x <= at THEN sofar[k - 1][x] ELSE claim[x - at]
    BY <1>2
  <2> HIDE DEF body, claim, at
  <2>5. \A x \in 1..(at + Len(claim)) : x > at => sofar[k][x] = claim[x - at]
    BY <2>3, <2>4
  <2> QED BY <2>1, <2>2, <2>3, <2>5
<1> HIDE DEF body, claim, at
<1>8. SubSeq(body, at + 1, at + Len(claim)) = claim
  <2> DEFINE lo == at + 1
             hi == at + Len(claim)
             piece == SubSeq(body, lo, hi)
  <2>1. lo \in Int /\ hi \in Int /\ \A i \in lo..hi : body[i] \in Symbols
    BY <1>7
  <2>2. hi - lo + 1 = Len(claim) /\ (lo <= hi <=> Len(claim) # 0)
    BY <1>7
  <2>3. \A i \in 1..Len(claim) : body[lo + i - 1] = claim[i]
    <3>1. ASSUME NEW i \in 1..Len(claim)
          PROVE  body[at + i] = claim[i]
      <4>1. at + i \in 1..(at + Len(claim)) /\ at + i > at /\ (at + i) - at = i
        BY <1>7
      <4> QED BY <1>7, <4>1
    <3>2. \A i \in 1..Len(claim) : lo + i - 1 = at + i
      BY <1>7
    <3> QED BY <3>1, <3>2
  <2> HIDE DEF lo, hi
  <2>4. /\ piece \in Seq(Symbols) /\ Len(piece) = IF lo <= hi THEN hi - lo + 1 ELSE 0
        /\ \A i \in 1..(hi - lo + 1) : piece[i] = body[lo + i - 1]
    BY <2>1, SubSeqProperties
  <2> HIDE DEF piece
  <2>5. Len(piece) = Len(claim) /\ \A i \in 1..Len(piece) : piece[i] = claim[i]
    BY <1>7, <2>2, <2>3, <2>4
  <2>6. piece = claim
    BY <1>7, <2>4, <2>5, SeqEqual
  <2> QED BY <2>6 DEF piece, lo, hi
<1>9. at \in Occurrences(body, claim)
  BY <1>7, <1>8 DEF Occurrences, Occurs
<1> QED BY <1>2, <1>5, <1>9 DEF body, claim, at

\* If the claims are in the text one after another, each at its place, and no
\* claim is anywhere else, then each is linked at its place.
LEMMA LinkedWherePlaced ==
    ASSUME NEW text \in Seq(Symbols), NEW claims \in Seq(Seq(Symbols) \ {<<>>}),
           NEW spans, spans = LocateClaims(text, claims),
           NEW place \in [1..Len(claims) -> Nat],
           \A i \in 1..Len(claims) : place[i] \in Occurrences(text, claims[i]),
           \A i, j \in 1..Len(claims) : i < j => place[i] < place[j],
           \A i \in 1..Len(claims) :
               Cardinality(Occurrences(text, claims[i]))
                   <= Cardinality({j \in 1..Len(claims) : claims[j] = claims[i]})
    PROVE  \A i \in 1..Len(claims) : spans[i] = SpanAt(claims[i], place[i])
<1> DEFINE D == 1..Len(claims)
           T == {i \in D : spans[i] = SpanAt(claims[i], place[i])}
           rank == [i \in D |-> i]
<1>1. /\ Len(claims) \in Nat /\ Len(text) \in Nat
      /\ \A i \in D : claims[i] \in Seq(Symbols) \ {<<>>} /\ claims[i] \in Seq(Symbols)
  OBVIOUS
<1>2. ASSUME NEW i \in D, NEW at \in Occurrences(text, claims[i])
      PROVE  \E j \in D : claims[j] = claims[i] /\ place[j] = at
  <2> DEFINE O == Occurrences(text, claims[i])
             S == {j \in D : claims[j] = claims[i]}
             f == [j \in S |-> place[j]]
  <2>1. IsFiniteSet(O)
    <3> DEFINE lo == 0
    <3>1. lo \in Int /\ Len(text) \in Int /\ O \in SUBSET (lo..Len(text))
      BY <1>1 DEF Occurrences
    <3> HIDE DEF lo, O
    <3>2. IsFiniteSet(lo..Len(text))
      BY <3>1, FS_Interval
    <3> QED BY <3>1, <3>2, FS_Subset
  <2>2. f \in [S -> O]
    <3>1. \A j \in S : place[j] \in O
      BY <1>1
    <3> QED BY <3>1
  <2>3. \A j, k \in S : f[j] = f[k] => j = k
    <3>1. ASSUME NEW j \in S, NEW k \in S, place[j] = place[k]
          PROVE  j = k
      <4>1. j \in D /\ k \in D /\ place[j] \in Nat /\ place[k] \in Nat
        OBVIOUS
      <4>2. j < k \/ k < j \/ j = k
        BY <1>1
      <4> HIDE DEF S
      <4> QED BY <3>1, <4>1, <4>2
    <3> QED BY <3>1
  <2> HIDE DEF O, S, f
  <2>4. f \in Injection(S, O)
    BY <2>2, <2>3 DEF Injection, IsInjective
  <2>5. /\ IsFiniteSet(S) /\ Cardinality(S) <= Cardinality(O)
        /\ Cardinality(S) = Cardinality(O) <=> f \in Surjection(S, O)
    BY <2>1, <2>4, FS_Injection
  <2>6. Cardinality(S) \in Nat /\ Cardinality(O) \in Nat
    BY <2>1, <2>5, FS_CardinalityType
  <2>7. Cardinality(O) <= Cardinality(S)
    BY DEF O, S
  <2>8. f \in Surjection(S, O)
    BY <2>5, <2>6, <2>7
  <2>9. PICK j \in S : f[j] = at
    BY <2>8 DEF Surjection, O
  <2> QED BY <2>9 DEF S, f
<1>3. ASSUME NEW i \in D, \A j \in D : rank[j] < rank[i] => j \in T
      PROVE  i \in T
  <2> DEFINE this == SpanAt(claims[i], place[i])
  <2>1. \A j \in D : j < i => spans[j] = SpanAt(claims[j], place[j])
    BY <1>3
  <2>2. \A j \in D : /\ SpanAt(claims[j], place[j]).start = place[j] /\ place[j] \in Nat
    BY <1>1 DEF SpanAt
  <2>3. /\ i \in Int /\ \A j \in 1..(i - 1) : j \in D /\ j < i
        /\ \A j \in D : j < i => j \in 1..(i - 1)
        /\ \A j \in D : j < i \/ j = i \/ i < j
    BY <1>1
  <2>4. this \notin TakenBefore(spans, i)
    <3>1. \A j \in 1..(i - 1) : spans[j] # this
      <4>1. ASSUME NEW j \in 1..(i - 1)
            PROVE  spans[j] # this
        <5>1. spans[j] = SpanAt(claims[j], place[j]) /\ j \in D /\ place[j] < place[i]
          BY <2>1, <2>3
        <5> QED BY <2>2, <5>1
      <4> QED BY <4>1
    <3> HIDE DEF this
    <3> QED BY <3>1 DEF TakenBefore
  <2>5. this \in SpansIn(text, claims[i])
    BY DEF SpansIn
  <2>6. /\ spans[i] # None => spans[i] \in SpansIn(text, claims[i])
        /\ spans[i] # None => \A j \in 1..(i - 1) : spans[j] # spans[i]
        /\ spans[i] # None => \A s \in SpansIn(text, claims[i]) \ TakenBefore(spans, i) :
               spans[i].start <= s.start
        /\ spans[i] = None => SpansIn(text, claims[i]) \subseteq TakenBefore(spans, i)
    BY LinkedAre
  <2> HIDE DEF this, D
  <2>7. spans[i] # None
    BY <2>4, <2>5, <2>6
  <2>8. PICK at \in Occurrences(text, claims[i]) : spans[i] = SpanAt(claims[i], at)
    BY <2>6, <2>7 DEF SpansIn
  <2>9. PICK j \in D : claims[j] = claims[i] /\ place[j] = at
    BY <1>2, <2>8
  <2>10. spans[i] = SpanAt(claims[j], place[j]) /\ spans[i].start = place[j]
    BY <2>2, <2>8, <2>9
  <2>11. place[j] <= place[i]
    BY <2>2, <2>4, <2>5, <2>6, <2>7, <2>10 DEF this
  <2>12. ~(j < i)
    BY <2>1, <2>3, <2>6, <2>7, <2>10
  <2>13. ~(i < j)
    BY <2>2, <2>11 DEF D
  <2>14. j = i
    BY <2>3, <2>12, <2>13
  <2> QED BY <2>9, <2>10, <2>14
<1>4. D \subseteq T
  <2>1. rank \in [D -> Nat]
    BY <1>1
  <2> HIDE DEF D, rank, T
  <2> QED BY <1>3, <2>1, RankInduction
<1> QED BY <1>4

\* Whatever the parts, if the body does not have a claim in more places than it
\* is cited, each claim is linked where its part was put.
THEOREM ClaimsAlwaysLandWhereComposed == Spec => []ClaimsLandWhereComposed
<1>1. ASSUME ReportInv
      PROVE  ClaimsLandWhereComposed
  <2> DEFINE parts == input.parts
             at == ClaimParts(parts)
             n == Len(parts)
  <2> SUFFICES ASSUME parts # <<>>, AreUnambiguous(Draft.body, DraftClaims), NEW i \in DOMAIN at
               PROVE  Linked[i].start = Len(BodyOf(SubSeq(parts, 1, at[i] - 1)))
    BY DEF ClaimsLandWhereComposed
  <2>1. /\ parts \in Seq(Part) /\ Draft.body = BodyOf(parts) /\ DraftClaims = ComposedClaims(parts)
        /\ Draft.body \in Seq(Symbols) /\ DraftClaims \in Seq(Seq(Symbols) \ {<<>>})
    BY <1>1, DraftIs DEF ReportInv, IsInput, Draft, DraftClaims
  <2>2. PICK sofar \in [0..n -> Seq(Symbols)] : Grows(sofar, parts)
    BY <2>1, PartsGrow
  <2>3. n \in Nat /\ DOMAIN parts = 1..n
    BY <2>1
  <2> HIDE DEF parts, n
  <2>4. Draft.body = sofar[n]
    <3>1. n \in 0..n
      BY <2>3
    <3>2. BodyOf(SubSeq(parts, 1, n)) = sofar[n]
      BY <2>1, <2>2, <3>1, BodyOfFirst DEF n
    <3>3. SubSeq(parts, 1, n) = parts
      BY <2>1, SubSeqFull DEF n
    <3> QED BY <2>1, <3>2, <3>3
  <2> DEFINE S == {k \in DOMAIN parts : parts[k].isClaim}
             c == Cardinality(S)
  <2>5. S \in SUBSET Int /\ IsFiniteSet(S) /\ S \subseteq 1..n
    <3> DEFINE lo == 1
    <3>1. lo \in Int /\ n \in Int /\ S \in SUBSET (lo..n) /\ S \in SUBSET Int
      BY <2>3
    <3> HIDE DEF lo, S
    <3>2. IsFiniteSet(lo..n)
      BY <3>1, FS_Interval
    <3>3. IsFiniteSet(S)
      BY <3>1, <3>2, FS_Subset
    <3> QED BY <3>1, <3>3 DEF lo
  <2> HIDE DEF S
  <2>6. /\ c \in Nat /\ at \in [1..c -> S]
        /\ \A k, m \in 1..c : k < m => at[k] < at[m]
    BY <2>5, AscendingIs DEF ClaimParts, S
  <2> HIDE DEF at, c
  <2>7. Len(DraftClaims) = c /\ \A k \in 1..c : DraftClaims[k] = parts[at[k]].text
    <3>1. DraftClaims = [k \in 1..c |-> parts[at[k]].text]
      BY <2>1, <2>6 DEF ComposedClaims, at
    <3>2. DOMAIN DraftClaims = 1..c
      BY <3>1
    <3>3. DOMAIN DraftClaims = 1..Len(DraftClaims) /\ Len(DraftClaims) \in Nat
      BY <2>1
    <3>4. Len(DraftClaims) = c
      BY <2>6, <3>2, <3>3
    <3> QED BY <3>1, <3>4
  <2> DEFINE place == [k \in 1..c |-> Len(sofar[at[k] - 1])]
  <2>8. \A k \in 1..c : at[k] \in 1..n /\ at[k] \in Int
    BY <2>3, <2>5, <2>6
  <2>9. ASSUME NEW k \in 1..c
        PROVE  /\ place[k] \in Nat /\ place[k] \in Occurrences(Draft.body, DraftClaims[k])
               /\ Len(sofar[at[k]]) = place[k] + Len(DraftClaims[k])
               /\ \A m \in at[k]..n : Len(sofar[at[k]]) <= Len(sofar[m])
    <3>1. at[k] \in 1..Len(parts)
      BY <2>8 DEF n
    <3>2. /\ Len(sofar[at[k] - 1]) \in Nat
          /\ Len(sofar[at[k]]) = Len(sofar[at[k] - 1]) + Len(parts[at[k]].text)
          /\ \A m \in at[k]..Len(parts) : Len(sofar[at[k]]) <= Len(sofar[m])
          /\ Len(sofar[at[k] - 1]) \in Occurrences(sofar[Len(parts)], parts[at[k]].text)
      BY <2>1, <2>2, <3>1, PartIsThere DEF n
    <3> QED BY <2>4, <2>7, <3>2 DEF n
  <2>10. ASSUME NEW k \in 1..c, NEW m \in 1..c, k < m
         PROVE  place[k] < place[m]
    <3>1. at[k] < at[m] /\ at[m] - 1 \in at[k]..n
      <4>1. at[k] < at[m] /\ at[k] \in 1..n /\ at[m] \in 1..n
        BY <2>6, <2>8, <2>10
      <4> QED BY <2>3, <4>1
    <3>2. Len(sofar[at[k]]) <= Len(sofar[at[m] - 1])
      BY <2>9, <3>1
    <3>3. Len(DraftClaims[k]) \in Nat /\ Len(DraftClaims[k]) # 0
      BY <2>1, <2>7, OccurrencesAre
    <3>4. Len(sofar[at[k]]) = place[k] + Len(DraftClaims[k]) /\ place[k] \in Nat /\ place[m] \in Nat
      BY <2>9
    <3>5. place[m] = Len(sofar[at[m] - 1])
      OBVIOUS
    <3> HIDE DEF place
    <3> QED BY <3>2, <3>3, <3>4, <3>5
  <2>11. ASSUME NEW k \in 1..c
         PROVE  Cardinality(Occurrences(Draft.body, DraftClaims[k]))
                    <= Cardinality({j \in 1..c : DraftClaims[j] = DraftClaims[k]})
    <3>1. DOMAIN DraftClaims = 1..c
      BY <2>1, <2>7
    <3> QED BY <3>1 DEF AreUnambiguous
  <2>12. place \in [1..c -> Nat]
    BY <2>9
  <2>13. i \in 1..c
    BY <2>6
  <2>14. Linked[i] = SpanAt(DraftClaims[i], place[i])
    <3> DEFINE text == Draft.body
               claims == DraftClaims
    <3>1. text \in Seq(Symbols) /\ claims \in Seq(Seq(Symbols) \ {<<>>}) /\ Linked = LocateClaims(text, claims)
      BY <2>1 DEF Linked
    <3>2. /\ place \in [1..Len(claims) -> Nat]
          /\ \A k \in 1..Len(claims) : place[k] \in Occurrences(text, claims[k])
          /\ \A k, m \in 1..Len(claims) : k < m => place[k] < place[m]
          /\ \A k \in 1..Len(claims) :
                Cardinality(Occurrences(text, claims[k]))
                    <= Cardinality({j \in 1..Len(claims) : claims[j] = claims[k]})
      <4> HIDE DEF place
      <4> QED BY <2>7, <2>9, <2>10, <2>11, <2>12
    <3> HIDE DEF text, claims, place
    <3>3. \A k \in 1..Len(claims) : Linked[k] = SpanAt(claims[k], place[k])
      BY <3>1, <3>2, LinkedWherePlaced
    <3> QED BY <2>7, <2>13, <3>3 DEF claims
  <2>15. Linked[i].start = place[i]
    BY <2>14 DEF SpanAt
  <2>16. BodyOf(SubSeq(parts, 1, at[i] - 1)) = sofar[at[i] - 1]
    <3>1. at[i] - 1 \in 0..Len(parts)
      BY <2>3, <2>8, <2>13 DEF n
    <3> QED BY <2>1, <2>2, <3>1, BodyOfFirst DEF n
  <2> QED BY <2>13, <2>15, <2>16
<1> QED BY <1>1, ReportHolds, PTL

-----------------------------------------------------------------------------
(* Numbers with a mark between their thousands. *)

\* The characters of a sequence one after another are the sequence.
LEMMA SinglesMakeIt ==
    ASSUME NEW X, NEW W \in Seq(X)
    PROVE  FlattenSeq([i \in 1..Len(W) |-> <<W[i]>>]) = W
<1> DEFINE n == Len(W)
           V == Seq(X)
           s == [i \in 1..n |-> <<W[i]>>]
           sofar == [k \in 0..n |-> SubSeq(W, 1, k)]
<1>1. n \in Nat /\ \A i \in 1..n : W[i] \in X
  BY LenProperties, ElementOfSeq
<1>2. s \in Seq(V) /\ Len(s) = n
  <2>1. \A i \in 1..n : <<W[i]>> \in V
    BY <1>1
  <2> HIDE DEF V, n
  <2> QED BY <1>1, <2>1
<1>3. ASSUME NEW k \in 0..n
      PROVE  /\ SubSeq(W, 1, k) \in V /\ Len(SubSeq(W, 1, k)) = k
             /\ \A i \in 1..k : SubSeq(W, 1, k)[i] = W[i]
  <2> DEFINE one == 1
  <2>1. one \in Int /\ k \in Int /\ \A i \in one..k : W[i] \in X
    BY <1>1
  <2>2. (IF one <= k + 1 THEN k + 1 - one ELSE 0) = k
    BY <1>1
  <2> HIDE DEF one
  <2>3. /\ SubSeq(W, one, k) \in Seq(X)
        /\ Len(SubSeq(W, one, k)) = IF one <= k + 1 THEN k + 1 - one ELSE 0
        /\ \A i \in 1..(k - one + 1) : SubSeq(W, one, k)[i] = W[one + i - 1]
    BY <2>1, SubSeqProperties
  <2> QED BY <2>2, <2>3, <1>1 DEF one
<1>4. sofar \in [0..Len(s) -> V] /\ sofar[0] = <<>>
  <2>1. sofar[0] = SubSeq(W, 1, 0) /\ 0 \in 0..n
    BY <1>1
  <2>2. Len(sofar[0]) = 0 /\ sofar[0] \in V
    BY <2>1, <1>3
  <2> QED BY <1>2, <1>3, <2>2, EmptySeq
<1>5. ASSUME NEW i \in 1..Len(s)
      PROVE  sofar[i] = sofar[i - 1] \o s[i]
  <2>1. i \in 0..n /\ i - 1 \in 0..n /\ i \in 1..n
    BY <1>1, <1>2
  <2> DEFINE a == SubSeq(W, 1, i - 1)
             b == SubSeq(W, 1, i)
             c == W[i]
  <2>2. sofar[i] = b /\ sofar[i - 1] = a /\ s[i] = <<c>>
    BY <2>1
  <2>3. a \in Seq(X) /\ Len(a) = i - 1 /\ \A j \in 1..(i - 1) : a[j] = W[j]
    BY <1>3, <2>1
  <2>4. b \in Seq(X) /\ Len(b) = i /\ \A j \in 1..i : b[j] = W[j]
    BY <1>3, <2>1
  <2>5. c \in X /\ i \in Nat
    BY <1>1, <2>1
  <2> HIDE DEF a, b, s, sofar
  <2>6. a \o <<c>> = Append(a, c)
    BY <2>3, <2>5, AppendIsConcat
  <2>7. /\ Append(a, c) \in Seq(X) /\ Len(Append(a, c)) = Len(a) + 1
        /\ \A j \in 1..Len(a) : Append(a, c)[j] = a[j]
        /\ Append(a, c)[Len(a) + 1] = c
    BY <2>3, <2>5, AppendProperties
  <2>8. Len(Append(a, c)) = Len(b) /\ \A j \in 1..Len(b) : b[j] = Append(a, c)[j]
    BY <2>3, <2>4, <2>5, <2>7
  <2>9. b = Append(a, c)
    BY <2>4, <2>7, <2>8, SeqEqual
  <2> QED BY <2>2, <2>6, <2>9
<1>6. sofar[Len(s)] = W
  <2>1. sofar[Len(s)] = SubSeq(W, 1, n) /\ n \in 0..n
    BY <1>1, <1>2
  <2> QED BY <1>1, <1>3, <2>1, SeqEqual
<1> HIDE DEF s, sofar
<1>7. FlattenSeq(s) = sofar[Len(s)]
  BY <1>2, <1>4, <1>5, FlattenIs
<1> QED BY <1>6, <1>7 DEF s

\* A mark after the last digit and three digits more, as pieces and as a text.
WithThree(f, c, m, a, b, e) ==
    Append(Append(Append(Append(f, <<c, m>>), <<a>>), <<b>>), <<e>>)
AndThree(text, m, a, b, e) == (text \o <<m>>) \o <<a, b, e>>

\* A mark behind the last digit, and three digits more.
LEMMA ThreeMore ==
    ASSUME NEW X, NEW f \in Seq(Seq(X)), NEW c \in X, NEW m \in X,
           NEW a \in X, NEW b \in X, NEW e \in X
    PROVE  FlattenSeq(WithThree(f, c, m, a, b, e)) =
               AndThree(FlattenSeq(Append(f, <<c>>)), m, a, b, e)
<1> DEFINE V == Seq(X)
           F == FlattenSeq(f)
           cm == <<c, m>>
           C == <<c>>
           M == <<m>>
           A == <<a>>
           B == <<b>>
           E == <<e>>
           f1 == Append(f, cm)
           f2 == Append(f1, A)
           f3 == Append(f2, B)
           f4 == Append(f3, E)
<1>1. cm \in V /\ C \in V /\ M \in V /\ A \in V /\ B \in V /\ E \in V
  OBVIOUS
<1>2. C \o M = cm /\ (A \o B) \o E = <<a, b, e>>
  <2>1. C \o M = cm /\ A \o B = <<a, b>> /\ <<a, b>> \o E = <<a, b, e>>
    <3>1. C \o M = <<c, m>>
      BY TuplesTogether
    <3>2. A \o B = <<a, b>> /\ <<a, b>> \o E = <<a, b, e>>
      BY TuplesTogether
    <3> QED BY <3>1, <3>2
  <2> HIDE DEF A, B, E
  <2> QED BY <2>1
<1> HIDE DEF cm, C, M, A, B, E
<1>3. f1 \in Seq(V) /\ f2 \in Seq(V) /\ f3 \in Seq(V)
  <2>1. f \in Seq(V) /\ cm \in V /\ A \in V /\ B \in V
    BY <1>1
  <2> HIDE DEF V
  <2>2. f1 \in Seq(V)
    BY <2>1, AppendProperties
  <2>3. f2 \in Seq(V)
    <3> HIDE DEF f1
    <3> QED BY <2>1, <2>2, AppendProperties
  <2>4. f3 \in Seq(V)
    <3> HIDE DEF f2
    <3> QED BY <2>1, <2>3, AppendProperties
  <2> QED BY <2>2, <2>3, <2>4
<1>4. /\ F \in V
      /\ FlattenSeq(f1) = F \o cm
      /\ FlattenSeq(Append(f, C)) = F \o C
  BY <1>1, FlattenOneMore
<1> HIDE DEF f1
<1>5. FlattenSeq(f2) = FlattenSeq(f1) \o A
  BY <1>1, <1>3, FlattenOneMore
<1> HIDE DEF f2
<1>6. FlattenSeq(f3) = FlattenSeq(f2) \o B
  BY <1>1, <1>3, FlattenOneMore
<1> HIDE DEF f3
<1>7. FlattenSeq(f4) = FlattenSeq(f3) \o E
  BY <1>1, <1>3, FlattenOneMore
<1> HIDE DEF f4, F
<1> DEFINE G == F \o C
           H == G \o M
<1>8. G \in V /\ H \in V /\ A \o B \in V
  BY <1>1, <1>4, ConcatProperties
<1>9. F \o cm = H
  <2>1. F \in Seq(X) /\ C \in Seq(X) /\ M \in Seq(X)
    BY <1>1, <1>4
  <2>2. (F \o C) \o M = F \o (C \o M)
    BY <2>1, ConcatAssociative
  <2> QED BY <1>2, <2>2
<1> HIDE DEF H, G
<1>10. (H \o A) \o B = H \o (A \o B)
  <2>1. H \in Seq(X) /\ A \in Seq(X) /\ B \in Seq(X)
    BY <1>1, <1>8
  <2>2. ASSUME NEW s \in Seq(X), NEW t \in Seq(X), NEW u \in Seq(X)
        PROVE  (s \o t) \o u = s \o (t \o u)
    BY ConcatAssociative
  <2>3. H \in Seq(X)
    BY <2>1
  <2>4. A \in Seq(X)
    BY <2>1
  <2>5. B \in Seq(X)
    BY <2>1
  <2> QED BY <2>2, <2>3, <2>4, <2>5
<1> DEFINE AB == A \o B
<1>11. AB \in V
  BY <1>8
<1> HIDE DEF AB
<1>12. (H \o AB) \o E = H \o (AB \o E)
  <2>1. H \in Seq(X) /\ AB \in Seq(X) /\ E \in Seq(X)
    BY <1>1, <1>8, <1>11
  <2> QED BY <2>1, ConcatAssociative
<1>13. FlattenSeq(f4) = H \o <<a, b, e>>
  BY <1>2, <1>4, <1>5, <1>6, <1>7, <1>9, <1>10, <1>12 DEF AB
<1>14. H = FlattenSeq(Append(f, C)) \o M
  BY <1>4 DEF H, G
<1>15. FlattenSeq(f4) = AndThree(FlattenSeq(Append(f, C)), m, a, b, e)
  BY <1>13, <1>14 DEF AndThree, M
<1>16. f4 = WithThree(f, c, m, a, b, e)
  BY DEF f4, f3, f2, f1, cm, A, B, E, WithThree
<1> QED BY <1>15, <1>16 DEF C

\* A digit, with the mark after it if a multiple of three digits follows.
Piece(W, m, i) ==
    IF i < Len(W) /\ (Len(W) - i) % 3 = 0 THEN <<W[i], m>> ELSE <<W[i]>>

\* A number with marks, digit by digit.
LEMMA MarkedIs ==
    ASSUME NEW W, NEW m
    PROVE  Marked(W, m) = FlattenSeq([i \in 1..Len(W) |-> Piece(W, m, i)])
BY DEF Marked, Piece

\* A number of up to three digits has no marks.
LEMMA MarkedFew ==
    ASSUME NEW X, NEW W \in Seq(X), Len(W) <= 3, NEW m
    PROVE  Marked(W, m) = W
<1>1. Len(W) \in Nat
  BY LenProperties
<1>2. ASSUME NEW i \in 1..Len(W)
      PROVE  Piece(W, m, i) = <<W[i]>>
  <2>1. ~(i < Len(W) /\ (Len(W) - i) % 3 = 0)
    BY <1>1
  <2> QED BY <2>1 DEF Piece
<1>3. [i \in 1..Len(W) |-> Piece(W, m, i)] = [i \in 1..Len(W) |-> <<W[i]>>]
  BY <1>2
<1> QED BY <1>3, MarkedIs, SinglesMakeIt

\* A longer one is marked as without its last three digits, and then has a mark
\* and those.
LEMMA MarkedMore ==
    ASSUME NEW X, NEW W \in Seq(X), Len(W) > 3, NEW m \in X
    PROVE  LET n == Len(W) IN
           /\ SubSeq(W, 1, n - 3) \in Seq(X) /\ Len(SubSeq(W, 1, n - 3)) = n - 3
           /\ \A i \in 1..(n - 3) : SubSeq(W, 1, n - 3)[i] = W[i]
           /\ Marked(W, m) = (Marked(SubSeq(W, 1, n - 3), m) \o <<m>>)
                                 \o <<W[n - 2], W[n - 1], W[n]>>
<1> DEFINE n == Len(W)
           k == n - 4
           U == SubSeq(W, 1, n - 3)
           V == Seq(X)
           p == [i \in 1..n |-> Piece(W, m, i)]
           q == [i \in 1..(n - 3) |-> Piece(U, m, i)]
           f == [i \in 1..k |-> p[i]]
           cm == <<W[n - 3], m>>
           C == <<W[n - 3]>>
           A == <<W[n - 2]>>
           B == <<W[n - 1]>>
           E == <<W[n]>>
<1>1. n \in Nat /\ n > 3 /\ k \in Nat /\ n = k + 4 /\ \A i \in 1..n : W[i] \in X
  BY LenProperties, ElementOfSeq
<1>2. U \in Seq(X) /\ Len(U) = n - 3 /\ \A i \in 1..(n - 3) : U[i] = W[i]
  <2> DEFINE one == 1
             to == n - 3
  <2>1. one \in Int /\ to \in Int /\ \A i \in one..to : W[i] \in X
    BY <1>1
  <2>2. (IF one <= to + 1 THEN to + 1 - one ELSE 0) = n - 3 /\ to - one + 1 = n - 3
        /\ \A i \in 1..(n - 3) : one + i - 1 = i
    BY <1>1
  <2> HIDE DEF one, to
  <2>3. /\ SubSeq(W, one, to) \in Seq(X)
        /\ Len(SubSeq(W, one, to)) = IF one <= to + 1 THEN to + 1 - one ELSE 0
        /\ \A i \in 1..(to - one + 1) : SubSeq(W, one, to)[i] = W[one + i - 1]
    BY <2>1, SubSeqProperties
  <2>4. SubSeq(W, one, to) = U
    BY DEF one, to
  <2> HIDE DEF U, n
  <2> QED BY <2>2, <2>3, <2>4
<1> HIDE DEF U
<1>3. ASSUME NEW i \in 1..n
      PROVE  Piece(W, m, i) = IF i < n /\ (n - i) % 3 = 0 THEN <<W[i], m>> ELSE <<W[i]>>
  BY DEF Piece
<1>4. /\ Piece(W, m, n - 3) = cm /\ Piece(W, m, n - 2) = A
      /\ Piece(W, m, n - 1) = B /\ Piece(W, m, n) = E
  <2>1. n - 3 \in 1..n /\ n - 2 \in 1..n /\ n - 1 \in 1..n /\ n \in 1..n
    BY <1>1
  <2>2. /\ n - (n - 3) = 3 /\ n - (n - 2) = 2 /\ n - (n - 1) = 1
        /\ 3 % 3 = 0 /\ 2 % 3 # 0 /\ 1 % 3 # 0
    BY <1>1
  <2>3. n - 3 < n /\ ~(n < n)
    BY <1>1
  <2> HIDE DEF n
  <2> QED BY <1>3, <2>1, <2>2, <2>3
<1>5. ASSUME NEW i \in 1..k
      PROVE  Piece(U, m, i) = Piece(W, m, i)
  <2>1. i \in 1..n /\ i \in 1..(n - 3) /\ i < n /\ i < n - 3
    BY <1>1
  <2>2. ((n - 3) - i) % 3 = (n - i) % 3
    BY <1>1
  <2>3. U[i] = W[i] /\ Len(U) = n - 3
    BY <1>2, <2>1
  <2>4. Piece(U, m, i) = IF (n - i) % 3 = 0 THEN <<W[i], m>> ELSE <<W[i]>>
    BY <2>1, <2>2, <2>3 DEF Piece
  <2> QED BY <1>3, <2>1, <2>4
<1>6. Piece(U, m, n - 3) = C
  <2>1. n - 3 \in 1..(n - 3) /\ ~(n - 3 < Len(U))
    BY <1>1, <1>2
  <2>2. U[n - 3] = W[n - 3]
    BY <1>2, <2>1
  <2> QED BY <2>1, <2>2 DEF Piece
<1>7. /\ f \in Seq(V) /\ Len(f) = k /\ \A i \in 1..k : f[i] = Piece(W, m, i)
  <2>1. \A i \in 1..k : i \in 1..n /\ Piece(W, m, i) \in V
    <3> SUFFICES ASSUME NEW i \in 1..k PROVE i \in 1..n /\ Piece(W, m, i) \in V
      OBVIOUS
    <3>1. i \in 1..n
      BY <1>1
    <3>2. <<W[i], m>> \in V /\ <<W[i]>> \in V
      BY <1>1, <3>1
    <3> QED BY <1>3, <3>1, <3>2
  <2>2. \A i \in 1..k : f[i] = Piece(W, m, i)
    BY <2>1
  <2> HIDE DEF V, k
  <2> QED BY <1>1, <2>1, <2>2
<1>8. cm \in V /\ C \in V /\ A \in V /\ B \in V /\ E \in V
  <2>1. W[n - 3] \in X /\ W[n - 2] \in X /\ W[n - 1] \in X /\ W[n] \in X
    BY <1>1
  <2> QED BY <2>1
<1>9. p \in Seq(V) /\ Len(p) = n /\ \A i \in 1..n : p[i] = Piece(W, m, i)
  <2>1. \A i \in 1..n : Piece(W, m, i) \in V
    <3> SUFFICES ASSUME NEW i \in 1..n PROVE Piece(W, m, i) \in V
      OBVIOUS
    <3>1. <<W[i], m>> \in V /\ <<W[i]>> \in V
      BY <1>1
    <3> QED BY <1>3, <3>1
  <2> HIDE DEF V, n
  <2> QED BY <1>1, <2>1
<1>10. q \in Seq(V) /\ Len(q) = n - 3 /\ \A i \in 1..(n - 3) : q[i] = Piece(U, m, i)
  <2>1. \A i \in 1..(n - 3) : Piece(U, m, i) \in V
    <3> SUFFICES ASSUME NEW i \in 1..(n - 3) PROVE Piece(U, m, i) \in V
      OBVIOUS
    <3>1. U[i] \in X
      BY <1>2, ElementOfSeq
    <3>2. <<U[i], m>> \in V /\ <<U[i]>> \in V
      BY <3>1
    <3> QED BY <3>2 DEF Piece
  <2>2. n - 3 \in Nat
    BY <1>1
  <2> HIDE DEF V, n
  <2> QED BY <2>1, <2>2
<1> HIDE DEF f, p, q, cm, C, A, B, E, V
<1>11. ASSUME NEW s \in Seq(V), NEW x \in V
       PROVE  /\ Append(s, x) \in Seq(V) /\ Len(Append(s, x)) = Len(s) + 1
              /\ \A i \in 1..Len(s) : Append(s, x)[i] = s[i]
              /\ Append(s, x)[Len(s) + 1] = x
  BY AppendProperties, LenProperties
<1> DEFINE g == Append(f, C)
           f1 == Append(f, cm)
           f2 == Append(f1, A)
           f3 == Append(f2, B)
           f4 == Append(f3, E)
<1>12. /\ g \in Seq(V) /\ Len(g) = k + 1 /\ g[k + 1] = C
       /\ \A i \in 1..k : g[i] = f[i]
  BY <1>7, <1>8, <1>11
<1>13. /\ f1 \in Seq(V) /\ Len(f1) = k + 1 /\ f1[k + 1] = cm
       /\ \A i \in 1..k : f1[i] = f[i]
  BY <1>7, <1>8, <1>11
<1> HIDE DEF g, f1
<1>14. /\ f2 \in Seq(V) /\ Len(f2) = k + 2 /\ f2[k + 2] = A
       /\ \A i \in 1..(k + 1) : f2[i] = f1[i]
  <2>1. (k + 1) + 1 = k + 2
    BY <1>1
  <2> HIDE DEF k
  <2> QED BY <1>8, <1>11, <1>13, <2>1
<1> HIDE DEF f2
<1>15. /\ f3 \in Seq(V) /\ Len(f3) = k + 3 /\ f3[k + 3] = B
       /\ \A i \in 1..(k + 2) : f3[i] = f2[i]
  <2>1. (k + 2) + 1 = k + 3
    BY <1>1
  <2> HIDE DEF k
  <2> QED BY <1>8, <1>11, <1>14, <2>1
<1> HIDE DEF f3
<1>16. /\ f4 \in Seq(V) /\ Len(f4) = k + 4 /\ f4[k + 4] = E
       /\ \A i \in 1..(k + 3) : f4[i] = f3[i]
  <2>1. (k + 3) + 1 = k + 4
    BY <1>1
  <2> HIDE DEF k
  <2> QED BY <1>8, <1>11, <1>15, <2>1
<1> HIDE DEF f4
<1>17. p = f4
  <2>1. /\ p[k + 1] = cm /\ p[k + 2] = A /\ p[k + 3] = B /\ p[k + 4] = E
        /\ \A i \in 1..k : p[i] = f[i]
    <3>1. k + 1 = n - 3 /\ k + 2 = n - 2 /\ k + 3 = n - 1 /\ k + 4 = n
      BY <1>1
    <3>2. n - 3 \in 1..n /\ n - 2 \in 1..n /\ n - 1 \in 1..n /\ n \in 1..n /\ \A i \in 1..k : i \in 1..n
      BY <1>1
    <3> HIDE DEF n
    <3> QED BY <1>4, <1>7, <1>9, <3>1, <3>2
  <2>2. Len(p) = Len(f4)
    BY <1>1, <1>9, <1>16
  <2>3. ASSUME NEW i \in 1..Len(p)
        PROVE  p[i] = f4[i]
    <3>0. Len(p) = k + 4 /\ k \in Nat /\ i \in 1..Len(p)
      BY <1>1, <1>9
    <3>1. i \in 1..k \/ i = k + 1 \/ i = k + 2 \/ i = k + 3 \/ i = k + 4
      <4> HIDE DEF k, p
      <4> QED BY <3>0
    <3>2. /\ k + 1 \in 1..(k + 1) /\ k + 1 \in 1..(k + 2) /\ k + 1 \in 1..(k + 3)
          /\ k + 2 \in 1..(k + 2) /\ k + 2 \in 1..(k + 3) /\ k + 3 \in 1..(k + 3)
          /\ \A j \in 1..k : j \in 1..(k + 1) /\ j \in 1..(k + 2) /\ j \in 1..(k + 3)
      BY <1>1
    <3> HIDE DEF k
    <3> QED BY <1>13, <1>14, <1>15, <1>16, <2>1, <3>1, <3>2
  <2> QED BY <1>9, <1>16, <2>2, <2>3, SeqEqual
<1>18. q = g
  <2>1. q[k + 1] = C /\ \A i \in 1..k : q[i] = f[i]
    <3>1. k + 1 = n - 3 /\ k + 1 \in 1..(n - 3) /\ \A i \in 1..k : i \in 1..(n - 3)
      BY <1>1
    <3> HIDE DEF n
    <3> QED BY <1>5, <1>6, <1>7, <1>10, <3>1
  <2>2. Len(q) = Len(g)
    BY <1>1, <1>10, <1>12
  <2>3. ASSUME NEW i \in 1..Len(q)
        PROVE  q[i] = g[i]
    <3>0. Len(q) = k + 1 /\ k \in Nat /\ i \in 1..Len(q)
      BY <1>1, <1>10
    <3>1. i \in 1..k \/ i = k + 1
      <4> HIDE DEF k, q
      <4> QED BY <3>0
    <3> QED BY <1>12, <2>1, <3>1
  <2> QED BY <1>10, <1>12, <2>2, <2>3, SeqEqual
<1>19. Marked(W, m) = FlattenSeq(f4) /\ Marked(U, m) = FlattenSeq(g)
  <2>1. Marked(W, m) = FlattenSeq(p)
    BY MarkedIs DEF p
  <2>2. Marked(U, m) = FlattenSeq(q)
    <3>1. Marked(U, m) = FlattenSeq([i \in 1..Len(U) |-> Piece(U, m, i)])
      BY MarkedIs
    <3> QED BY <1>2, <3>1 DEF q
  <2> QED BY <1>17, <1>18, <2>1, <2>2
<1>20. FlattenSeq(f4) = (FlattenSeq(g) \o <<m>>) \o <<W[n - 2], W[n - 1], W[n]>>
  <2> DEFINE c == W[n - 3]
             a == W[n - 2]
             b == W[n - 1]
             e == W[n]
  <2>0. c \in X /\ a \in X /\ b \in X /\ e \in X
    BY <1>1
  <2>1. f \in Seq(Seq(X))
    BY <1>7 DEF V
  <2> HIDE DEF c, a, b, e
  <2>2. FlattenSeq(WithThree(f, c, m, a, b, e)) =
            AndThree(FlattenSeq(Append(f, <<c>>)), m, a, b, e)
    BY <2>0, <2>1, ThreeMore
  <2>3. f4 = WithThree(f, c, m, a, b, e) /\ g = Append(f, <<c>>)
    BY DEF c, a, b, e, f4, f3, f2, f1, g, cm, C, A, B, E, WithThree
  <2>4. FlattenSeq(f4) = AndThree(FlattenSeq(g), m, a, b, e)
    BY <2>2, <2>3
  <2> QED BY <2>4 DEF c, a, b, e, AndThree
<1> QED BY <1>2, <1>19, <1>20 DEF U

IsGroup(d) == IsDigits(d) /\ Len(d) = 3

\* One mark and three digits after a number that is spelt with such marks.
LEMMA SpeltMore ==
    ASSUME NEW X, NEW t \in Seq(X), NEW digits \in Seq(X), NEW m \in X, m \in {Space, Comma, Point},
           NEW d \in Seq(X), IsGroup(d),
           Spelt(t, digits, m), InThousands(Groups(t))
    PROVE  /\ (t \o <<m>>) \o d \in Seq(X)
           /\ Spelt((t \o <<m>>) \o d, digits \o d, m)
           /\ InThousands(Groups((t \o <<m>>) \o d))
<1> DEFINE q == (t \o <<m>>) \o d
           groups == Groups(t)
           marks == Marks(t)
           V == Seq(X)
           long == Append(groups, d)
           more == Append(marks, m)
<1>1. /\ BeginsWithDigit(t) /\ All(marks, m) /\ <<>> \notin Range(groups)
      /\ FlattenSeq(groups) = digits /\ InThousands(groups)
      /\ (m = Space => Clean(t) = digits)
  BY DEF Spelt
<1>2. /\ q \in Seq(X) /\ Len(q) = Len(t) + 1 + Len(d)
      /\ \A i \in 1..Len(t) : q[i] = t[i]
  <2>1. /\ q \in Seq(X) /\ Len(q) = Len(t) + 1 + Len(d)
        /\ \A i \in 1..Len(t) : q[i] = t[i]
        /\ q[Len(t) + 1] = m
        /\ \A i \in 1..Len(d) : q[Len(t) + 1 + i] = d[i]
    BY ThreeParts
  <2> QED BY <2>1
<1>3. d # <<>> /\ (\A i \in 1..Len(d) : d[i] \in Digits) /\ m \in X \ Digits /\ d \in V
  BY DEF IsGroup, IsDigits, Digits, Space, Comma, Point
<1>4. Groups(q) = long /\ Marks(q) = more
  BY <1>3, OneMoreGroup
<1>5. groups \in Seq(V) /\ Len(groups) = Len(marks) + 1 /\ marks \in Seq(X) /\ Len(marks) \in Nat
  <2> DEFINE S == {}
  <2>1. S \subseteq Digits
    OBVIOUS
  <2> HIDE DEF S
  <2>2. groups \in Seq(Seq(X)) /\ Len(groups) = Len(marks) + 1
    BY <2>1, GroupsKeepDigits
  <2>3. marks \in Seq(X)
    BY MarksAre
  <2> QED BY <2>2, <2>3, LenProperties
<1> HIDE DEF q, groups, marks
<1>6. BeginsWithDigit(q)
  <2>1. Len(t) \in Nat /\ Len(t) >= 1 /\ t[1] \in Digits /\ 1 \in 1..Len(t)
    BY <1>1, LenProperties DEF BeginsWithDigit
  <2> QED BY <1>2, <2>1 DEF BeginsWithDigit
<1>7. All(more, m)
  <2>1. /\ more \in Seq(X) /\ Len(more) = Len(marks) + 1
        /\ \A i \in 1..Len(marks) : more[i] = marks[i]
        /\ more[Len(marks) + 1] = m
    BY <1>5, AppendProperties
  <2>2. DOMAIN more = 1..(Len(marks) + 1) /\ DOMAIN marks = 1..Len(marks)
    BY <1>5, <2>1, LenProperties
  <2> HIDE DEF more
  <2>3. \A i \in 1..Len(marks) : marks[i] = m
    BY <1>1, <2>2 DEF All
  <2>4. ASSUME NEW i \in 1..(Len(marks) + 1)
        PROVE  more[i] = m
    <3>1. i \in 1..Len(marks) \/ i = Len(marks) + 1
      BY <1>5
    <3> QED BY <2>1, <2>3, <3>1
  <2> QED BY <2>2, <2>4 DEF All
<1>8. /\ long \in Seq(V) /\ Len(long) = Len(groups) + 1
      /\ \A i \in 1..Len(groups) : long[i] = groups[i]
      /\ long[Len(groups) + 1] = d
      /\ DOMAIN long = 1..(Len(groups) + 1) /\ DOMAIN groups = 1..Len(groups)
  <2>1. groups \in Seq(V) /\ d \in V
    BY <1>3, <1>5
  <2> HIDE DEF V
  <2> QED BY <2>1, AppendProperties, LenProperties
<1>9. FlattenSeq(long) = digits \o d
  <2>1. groups \in Seq(Seq(X))
    BY <1>5
  <2> QED BY <1>1, <2>1, FlattenOneMore
<1> HIDE DEF long, more, V
<1>10. <<>> \notin Range(long)
  <2>1. \A i \in 1..Len(groups) : groups[i] # <<>>
    BY <1>1, <1>8 DEF Range
  <2>2. Len(groups) \in Nat
    BY <1>5
  <2>3. \A i \in 1..(Len(groups) + 1) : long[i] # <<>>
    BY <1>3, <1>8, <2>1, <2>2
  <2> QED BY <1>8, <2>3 DEF Range
<1>11. InThousands(long)
  <2>1. Len(groups) \in Nat /\ Len(groups) >= 1 /\ 1 \in 1..Len(groups)
    BY <1>5
  <2>2. long[1] = groups[1]
    BY <1>8, <2>1
  <2>3. Len(groups[1]) \in 1..3 /\ \A i \in 2..Len(groups) : Len(groups[i]) = 3
    BY <1>1 DEF InThousands
  <2>4. ASSUME NEW i \in 2..Len(long)
        PROVE  Len(long[i]) = 3
    <3>1. i \in 2..Len(groups) \/ i = Len(groups) + 1
      BY <1>8, <2>1
    <3>2. \A j \in 2..Len(groups) : long[j] = groups[j]
      BY <1>8, <2>1
    <3>3. Len(d) = 3
      BY DEF IsGroup
    <3> QED BY <1>8, <2>3, <3>1, <3>2, <3>3
  <2> QED BY <2>2, <2>3, <2>4 DEF InThousands
<1>12. m = Space => Clean(q) = digits \o d
  <2> SUFFICES ASSUME m = Space PROVE Clean(q) = digits \o d
    OBVIOUS
  <2> DEFINE one == <<m>>
             S == X \ {Space}
             u == t \o one
  <2>1. one \in Seq(X) /\ u \in Seq(X)
    <3>1. one \in Seq(X)
      OBVIOUS
    <3> HIDE DEF one
    <3> QED BY <3>1, ConcatProperties
  <2>2. Kept(t, S) = digits
    BY <1>1, CleanIs
  <2>3. Kept(d, S) = d
    <3>1. \A i \in 1..Len(d) : d[i] # Space
      BY <1>3 DEF Digits, Space
    <3> QED BY <3>1, CleanIs
  <2>4. Kept(one, S) = <<>>
    <3>1. \A i \in 1..Len(one) : one[i] \notin S
      OBVIOUS
    <3> HIDE DEF one, S
    <3> QED BY <2>1, <3>1, KeptOfNone
  <2>5. Clean(q) = Kept(q, S)
    BY <1>2, CleanIs
  <2> HIDE DEF one, S
  <2>6. Kept(u, S) = Kept(t, S) \o Kept(one, S)
    BY <2>1, KeptOfBoth
  <2> HIDE DEF u
  <2>7. Kept(u \o d, S) = Kept(u, S) \o Kept(d, S)
    <3>1. u \in Seq(X) /\ d \in Seq(X)
      BY <2>1
    <3> QED BY <3>1, KeptOfBoth
  <2>8. digits \o <<>> = digits
    BY ConcatEmptySeq
  <2> QED BY <2>2, <2>3, <2>4, <2>5, <2>6, <2>7, <2>8 DEF q, u, one
<1> QED BY <1>2, <1>4, <1>6, <1>7, <1>9, <1>10, <1>11, <1>12 DEF Spelt, q

\* A number that is written with marks between its thousands is spelt with them.
LEMMA MarkedIsSpelt ==
    ASSUME NEW X, NEW m \in X, m \in {Space, Comma, Point}, NEW W \in Seq(X), IsDigits(W)
    PROVE  Marked(W, m) \in Seq(X) /\ Spelt(Marked(W, m), W, m)
<1> DEFINE D == Seq(X)
           rank == [w \in D |-> Len(w)]
           Good(w) == /\ Marked(w, m) \in Seq(X) /\ Spelt(Marked(w, m), w, m)
                      /\ InThousands(Groups(Marked(w, m)))
           T == {w \in D : IsDigits(w) => Good(w)}
<1>1. rank \in [D -> Nat]
  BY LenProperties
<1>2. ASSUME NEW w \in D, \A e \in D : rank[e] < rank[w] => e \in T
      PROVE  w \in T
  <2> SUFFICES ASSUME IsDigits(w) PROVE Good(w)
    OBVIOUS
  <2>1. w # <<>> /\ Len(w) \in Nat /\ Len(w) >= 1 /\ \A i \in 1..Len(w) : w[i] \in Digits
    BY LenProperties, EmptySeq DEF IsDigits
  <2>2. CASE Len(w) <= 3
    <3>1. Marked(w, m) = w
      BY <2>2, MarkedFew
    <3>2. Spelt(w, w, m) /\ Groups(w) = <<w>>
      BY DigitsAreSpelt
    <3>3. InThousands(<<w>>)
      <4> DEFINE l == Len(w)
      <4>9. l \in Nat /\ l >= 1 /\ l <= 3
        BY <2>1, <2>2
      <4> HIDE DEF l
      <4>0. l \in 1..3
        BY <4>9
      <4>1. Len(<<w>>) = 1 /\ <<w>>[1] = w /\ Len(w) \in 1..3
        BY <4>0 DEF l
      <4> QED BY <4>1 DEF InThousands
    <3> QED BY <3>1, <3>2, <3>3
  <2>3. CASE Len(w) > 3
    <3> DEFINE n == Len(w)
               u == SubSeq(w, 1, n - 3)
               d == <<w[n - 2], w[n - 1], w[n]>>
    <3>1. /\ u \in Seq(X) /\ Len(u) = n - 3
          /\ \A i \in 1..(n - 3) : u[i] = w[i]
          /\ Marked(w, m) = (Marked(u, m) \o <<m>>) \o d
      BY <2>3, MarkedMore
    <3>2. /\ n - 2 \in 1..n /\ n - 1 \in 1..n /\ n \in 1..n /\ n - 3 \in Nat /\ n - 3 >= 1
          /\ \A i \in 1..(n - 3) : i \in 1..n
      BY <2>1, <2>3
    <3>3. w[n - 2] \in X /\ w[n - 1] \in X /\ w[n] \in X
      BY <3>2, ElementOfSeq
    <3>4. d \in Seq(X) /\ Len(d) = 3 /\ d[1] = w[n - 2] /\ d[2] = w[n - 1] /\ d[3] = w[n]
      BY <3>3
    <3> HIDE DEF u, d
    <3>5. IsDigits(d)
      <4>1. d # <<>>
        <5>1. d \in Seq(X) /\ Len(d) # 0
          BY <3>4
        <5> QED BY <5>1, EmptySeq
      <4>2. w[n - 2] \in Digits /\ w[n - 1] \in Digits /\ w[n] \in Digits
        BY <2>1, <3>2
      <4>3. \A i \in 1..Len(d) : i = 1 \/ i = 2 \/ i = 3
        BY <3>4
      <4> QED BY <3>4, <4>1, <4>2, <4>3 DEF IsDigits
    <3>6. IsDigits(u)
      <4>1. u # <<>>
        BY <3>1, <3>2, EmptySeq
      <4>2. \A i \in 1..Len(u) : u[i] \in Digits
        <5> HIDE DEF n
        <5> QED BY <2>1, <3>1, <3>2 DEF n
      <4> QED BY <4>1, <4>2 DEF IsDigits
    <3>7. rank[u] < rank[w]
      BY <3>1, <2>1
    <3>8. Good(u)
      BY <1>2, <3>1, <3>6, <3>7
    <3> DEFINE t == Marked(u, m)
    <3>9. t \in Seq(X) /\ Spelt(t, u, m) /\ InThousands(Groups(t))
      BY <3>8
    <3> HIDE DEF t
    <3>10. /\ (t \o <<m>>) \o d \in Seq(X)
           /\ Spelt((t \o <<m>>) \o d, u \o d, m)
           /\ InThousands(Groups((t \o <<m>>) \o d))
      <4>1. u \in Seq(X) /\ d \in Seq(X) /\ IsGroup(d)
        BY <3>1, <3>4, <3>5 DEF IsGroup
      <4> QED BY <3>9, <4>1, SpeltMore
    <3>11. u \o d = w
      <4>1. u \o d \in Seq(X) /\ Len(u \o d) = Len(u) + Len(d)
            /\ \A i \in 1..(Len(u) + Len(d)) : (u \o d)[i] = IF i <= Len(u) THEN u[i] ELSE d[i - Len(u)]
        BY <3>1, <3>4, ConcatProperties
      <4>2. Len(u) + Len(d) = n
        BY <3>1, <3>2, <3>4
      <4>3. ASSUME NEW i \in 1..n
            PROVE  (u \o d)[i] = w[i]
        <5>1. i \in 1..(n - 3) \/ i = n - 2 \/ i = n - 1 \/ i = n
          BY <2>1
        <5>2. /\ (n - 2) - (n - 3) = 1 /\ (n - 1) - (n - 3) = 2 /\ n - (n - 3) = 3
              /\ ~(n - 2 <= n - 3) /\ ~(n - 1 <= n - 3) /\ ~(n <= n - 3)
              /\ \A j \in 1..(n - 3) : j <= n - 3
          BY <2>1
        <5>3. (u \o d)[i] = IF i <= n - 3 THEN u[i] ELSE d[i - (n - 3)]
          BY <3>1, <4>1, <4>2
        <5> HIDE DEF n
        <5> QED BY <3>1, <3>4, <5>1, <5>2, <5>3
      <4>4. Len(u \o d) = Len(w)
        BY <4>1, <4>2
      <4> DEFINE v == u \o d
      <4>5. v \in Seq(X) /\ Len(v) = Len(w) /\ \A i \in 1..Len(v) : v[i] = w[i]
        BY <4>1, <4>3, <4>4
      <4> HIDE DEF v
      <4>6. v = w
        BY <4>5, SeqEqual
      <4> QED BY <4>6 DEF v
    <3> QED BY <3>1, <3>10, <3>11 DEF t
  <2> QED BY <2>1, <2>2, <2>3
<1> HIDE DEF D, rank, T
<1>3. D \subseteq T
  BY <1>1, <1>2, RankInduction
<1> QED BY <1>3 DEF D, T

-----------------------------------------------------------------------------
(* The numbers of the record, as they may be written. *)

\* A zero before the mark is no digit of the number.
LEMMA ZeroIsNothing == ASSUME NEW p PROVE Value(<<"0">>, p) = Value(<<>>, p)
<1>1. WithoutLeading(<<"0">>) = <<>>
  <2>1. {i \in DOMAIN <<"0">> : <<"0">>[i] # "0"} = {}
    OBVIOUS
  <2> QED BY <2>1 DEF WithoutLeading
<1>2. WithoutLeading(<<>>) = <<>>
  <2>1. {i \in DOMAIN <<>> : <<>>[i] # "0"} = {}
    OBVIOUS
  <2> QED BY <2>1 DEF WithoutLeading
<1> QED BY <1>1, <1>2 DEF Value

\* The text is of digits that have the value of the whole part, with a mark that is
\* not the decimal one.
IsWhole(w, whole, decimal) ==
    \E digits, mark : /\ mark \in {Space, Comma, Point}
                      /\ decimal \in {Point, Comma} => mark # decimal
                      /\ Spelt(w, digits, mark)
                      /\ digits # <<>>
                      /\ \A p : Value(digits, p) = Value(whole, p)

\* The whole part of a number is spelt with one mark, which is not the decimal one.
LEMMA WholesAreSpelt ==
    ASSUME NEW X, Figured \subseteq X, NEW whole \in Seq(Digits), NEW decimal,
           NEW w \in Wholes(whole, decimal)
    PROVE  w \in Seq(X) /\ IsWhole(w, whole, decimal)
<1>1. Digits \subseteq X /\ Space \in X /\ Comma \in X /\ Point \in X
  BY DEF Figured
<1>2. Space \in {Space, Comma, Point} /\ (decimal \in {Point, Comma} => Space # decimal)
  BY DEF Space, Comma, Point
<1>3. CASE whole = <<>>
  <2> DEFINE zero == <<"0">>
  <2>1. w = zero
    BY <1>3 DEF Wholes
  <2>2. zero \in Seq(X) /\ zero # <<>> /\ Len(zero) = 1 /\ zero[1] \in Digits
    <3>1. "0" \in Digits
      BY DEF Digits
    <3>2. zero \in Seq(X)
      BY <1>1, <3>1
    <3>3. zero # <<>> /\ Len(zero) = 1 /\ zero[1] = "0"
      OBVIOUS
    <3> QED BY <3>1, <3>2, <3>3
  <2>3. \A p : Value(zero, p) = Value(whole, p)
    BY <1>3, ZeroIsNothing
  <2> HIDE DEF zero
  <2>4. IsDigits(zero)
    BY <2>2 DEF IsDigits
  <2>5. zero \in Seq(X)
    BY <2>2
  <2>6. Spelt(zero, zero, Space)
    BY <2>4, <2>5, DigitsAreSpelt
  <2> QED BY <1>2, <2>1, <2>2, <2>3, <2>6 DEF IsWhole
<1>4. CASE whole # <<>>
  <2>1. whole \in Seq(X)
    BY <1>1
  <2>2. IsDigits(whole)
    <3>1. \A i \in 1..Len(whole) : whole[i] \in Digits
      BY ElementOfSeq
    <3> QED BY <1>4, <3>1 DEF IsDigits
  <2>3. CASE w = whole
    <3>1. Spelt(whole, whole, Space)
      BY <2>1, <2>2, DigitsAreSpelt
    <3> QED BY <1>2, <1>4, <2>1, <2>3, <3>1 DEF IsWhole
  <2>4. CASE w # whole
    <3>1. PICK m \in {Space, Comma, Point} \ {decimal} : w = Marked(whole, m)
      BY <1>4, <2>4 DEF Wholes
    <3>2. m \in X /\ m \in {Space, Comma, Point} /\ m # decimal
      BY <1>1, <3>1
    <3>3. Marked(whole, m) \in Seq(X) /\ Spelt(Marked(whole, m), whole, m)
      BY <2>1, <2>2, <3>2, MarkedIsSpelt
    <3> QED BY <1>4, <3>1, <3>2, <3>3 DEF IsWhole
  <2> QED BY <2>3, <2>4
<1> QED BY <1>3, <1>4

\* However a number is spelt, it is one token and can be read as that number.
LEMMA SpellingIsRead ==
    ASSUME NEW X, Figured \subseteq X, NEW v, v.whole \in Seq(Digits), v.part \in Seq(Digits),
           v = Value(v.whole, v.part), Len(v.part) <= 2, NEW s \in Spellings(v)
    PROVE  /\ s \in Seq(X) /\ BeginsWithDigit(s) /\ (IsSpaced(s) \/ IsPlain(s))
           /\ v \in Denoted(s)
<1>1. Digits \subseteq X /\ Point \in X /\ Comma \in X
  BY DEF Figured
<1>2. CASE v.part = <<>>
  <2>1. s \in Wholes(v.whole, None)
    BY <1>2 DEF Spellings
  <2>2. PICK digits, mark : /\ mark \in {Space, Comma, Point}
                            /\ Spelt(s, digits, mark)
                            /\ digits # <<>>
                            /\ \A p : Value(digits, p) = Value(v.whole, p)
    <3>1. IsWhole(s, v.whole, None)
      BY <2>1, WholesAreSpelt
    <3> QED BY <3>1 DEF IsWhole
  <2>3. s \in Seq(X)
    BY <2>1, WholesAreSpelt
  <2>4. /\ IsSpaced(s) \/ IsPlain(s)
        /\ Value(digits, <<>>) \in Denoted(s)
    BY <2>2, <2>3, WholeIsRead
  <2>5. Value(digits, <<>>) = v
    BY <1>2, <2>2
  <2>6. BeginsWithDigit(s)
    BY <2>2 DEF Spelt
  <2> QED BY <2>3, <2>4, <2>5, <2>6
<1>3. CASE v.part # <<>>
  <2>1. PICK d \in {Point, Comma} : \E w \in Wholes(v.whole, d) : s = w \o <<d>> \o v.part
    BY <1>3 DEF Spellings
  <2>2. PICK w \in Wholes(v.whole, d) : s = w \o <<d>> \o v.part
    BY <2>1
  <2>3. PICK digits, mark : /\ mark \in {Space, Comma, Point}
                            /\ d \in {Point, Comma} => mark # d
                            /\ Spelt(w, digits, mark)
                            /\ digits # <<>>
                            /\ \A p : Value(digits, p) = Value(v.whole, p)
    <3>1. IsWhole(w, v.whole, d)
      BY WholesAreSpelt
    <3> QED BY <3>1 DEF IsWhole
  <2>4. w \in Seq(X)
    BY WholesAreSpelt
  <2> DEFINE p == v.part
  <2>5. p \in Seq(X) /\ IsDigits(p) /\ Len(p) <= 2
    <3>1. \A i \in 1..Len(p) : p[i] \in Digits
      BY ElementOfSeq
    <3>2. IsDigits(p)
      BY <1>3, <3>1 DEF IsDigits
    <3> QED BY <1>1, <3>2
  <2>6. d \in X /\ d \in {Point, Comma} /\ d # mark
    BY <1>1, <2>3
  <2>7. Value(digits, p) = v
    BY <2>3
  <2> HIDE DEF p
  <2> DEFINE t == (w \o <<d>>) \o p
  <2>8. /\ IsSpaced(t) \/ IsPlain(t)
        /\ BeginsWithDigit(t)
        /\ Value(digits, p) \in Denoted(t)
    BY <2>3, <2>4, <2>5, <2>6, DecimalIsRead
  <2>9. t \in Seq(X)
    BY <2>4, <2>5, <2>6, ThreeParts
  <2> HIDE DEF t
  <2>10. s = t
    BY <2>2 DEF t, p
  <2> QED BY <2>7, <2>8, <2>9, <2>10
<1> QED BY <1>2, <1>3

\* A text between two letters that is one token is the only one.
LEMMA OneTokenBetween ==
    ASSUME NEW X, NEW h \in X, h \notin Figured, NEW s \in Seq(X), BeginsWithDigit(s),
           IsSpaced(s) \/ IsPlain(s)
    PROVE  TokenTexts(<<h>> \o s \o <<h>>) = {s}
<1> DEFINE one == <<h>>
           u == one \o s
           none == <<>>
<1>1. one \in Seq(X) /\ none \in Seq(X) /\ HasNoDigits(one) /\ HasNoDigits(none) /\ one \o none = one
  <2>1. one \in Seq(X) /\ none \in Seq(X) /\ one \o none = one
    OBVIOUS
  <2>2. h \notin Digits
    BY DEF Figured
  <2>3. HasNoDigits(one) /\ HasNoDigits(none)
    BY <2>2 DEF HasNoDigits
  <2> QED BY <2>1, <2>3
<1> HIDE DEF none
<1>2. TokenTexts(none) = {}
  BY <1>1, NothingToFind
<1>3. TokenTexts(s) = {s}
  BY WholeToken
<1> HIDE DEF one
<1>4. u \in Seq(X)
  BY <1>1, ConcatProperties
<1>5. TokenTexts(u) = TokenTexts(s)
  BY <1>1, AfterNoDigits
<1> HIDE DEF u
<1>6. TokenTexts(u \o (<<h>> \o none)) = TokenTexts(u) \cup TokenTexts(none)
  BY <1>1, <1>4, TokensOfBoth
<1>7. u \o (<<h>> \o none) = <<h>> \o s \o <<h>>
  BY <1>1 DEF u, one
<1> QED BY <1>2, <1>3, <1>5, <1>6, <1>7

\* Whatever the record and the number, a body that says no more than a number of
\* the record passes G06, in whichever of the named ways the number is written.
THEOREM HonestNumbersAlwaysPass == Spec => []HonestNumbersPass
<1>1. ASSUME ReportInv
      PROVE  HonestNumbersPass
  <2> SUFFICES ASSUME Judged, Draft.body \in HonestBodies
               PROVE  Passed("G06_no_invented_numbers")
    BY DEF HonestNumbersPass
  <2>0. Reported
    BY DEF Judged, Reported
  <2> DEFINE text == Draft.body
             grounded == GroundedNumbers(Merchant)
             ungrounded == {t \in NumberTokens(text) : ~IsGrounded(TextOf(text, t), grounded)}
             X == Symbols \cup Figured \cup {"x"}
  <2>1. PICK v \in NumbersOf(Merchant) : \E s \in Spellings(v) : text = <<"x">> \o s \o <<"x">>
    BY DEF HonestBodies
  <2>2. PICK s \in Spellings(v) : text = <<"x">> \o s \o <<"x">>
    BY <2>1
  <2>3. v \in grounded
    BY DEF NumbersOf, GroundedNumbers
  <2>4. /\ v.whole \in Seq(Digits) /\ v.part \in Seq(Digits)
        /\ v = Value(v.whole, v.part) /\ Len(v.part) <= 2 /\ IsExact(v)
    <3>1. PICK f \in DOMAIN Merchant : Merchant[f].kind = "number" /\ v = Merchant[f].value
      BY DEF NumbersOf
    <3>2. /\ v \in [whole : Seq(Digits), part : Seq(Digits)]
          /\ v = Value(v.whole, v.part) /\ Len(v.part) <= 2 /\ IsExact(v)
      BY <3>1, ReviewAssumption DEF IsRecord, Decimals
    <3>3. v.whole \in Seq(Digits) /\ v.part \in Seq(Digits)
      BY <3>2
    <3> QED BY <3>2, <3>3
  <2>5. Figured \subseteq X /\ "x" \in X /\ "x" \notin Figured
    BY DEF Figured, Digits, Space, Point, Comma
  <2> HIDE DEF X
  <2>6. /\ s \in Seq(X) /\ BeginsWithDigit(s) /\ (IsSpaced(s) \/ IsPlain(s))
        /\ v \in Denoted(s)
    BY <2>4, <2>5, SpellingIsRead
  <2>7. TokenTexts(text) = {s}
    <3> DEFINE h == "x"
    <3>1. h \in X /\ h \notin Figured /\ text = <<h>> \o s \o <<h>>
      BY <2>2, <2>5
    <3> HIDE DEF h, text
    <3>2. TokenTexts(<<h>> \o s \o <<h>>) = {s}
      BY <2>6, <3>1, OneTokenBetween
    <3> QED BY <3>1, <3>2
  <2>8. ungrounded = {}
    <3> SUFFICES ASSUME NEW t \in NumberTokens(text) PROVE IsGrounded(TextOf(text, t), grounded)
      OBVIOUS
    <3>1. TextOf(text, t) = s
      BY <2>7 DEF TokenTexts, TextsOf
    <3>2. v # Infinity
      <4> DEFINE name == "Infinity"
      <4>1. name \notin Digits
        BY DEF Digits
      <4> HIDE DEF name
      <4>2. Infinity.whole = <<name>> /\ <<name>> \notin Seq(Digits)
        BY <4>1 DEF Infinity, name
      <4> QED BY <2>4, <4>2
    <3>3. v \in NumericInterpretations(s)
      BY <2>4, <2>6, <3>2 DEF NumericInterpretations, AsDouble
    <3> QED BY <2>3, <3>1, <3>3 DEF IsGrounded
  <2>9. OutcomeOf("G06_no_invented_numbers") = report.outcomes[6]
    <3>1. GateOrder[6] = "G06_no_invented_numbers"
      BY DEF GateOrder
    <3> QED BY <1>1, <2>0, <3>1, OutcomeOfIs
  <2>10. report.outcomes[6] = G06NoInventedNumbers(Draft, Merchant)
    <3>1. report = RunGates(Draft, Merchant, GateContext)
      BY <1>1, <2>0, ReportIs
    <3> QED BY <3>1 DEF RunGates
  <2> DEFINE objected == ungrounded # {}
  <2>11. G06NoInventedNumbers(Draft, Merchant).passed = ~objected
    BY DEF G06NoInventedNumbers, Outcome
  <2> HIDE DEF ungrounded
  <2> QED BY <2>8, <2>9, <2>10, <2>11 DEF Passed
<1> QED BY <1>1, ReportHolds, PTL
===============================================================================
