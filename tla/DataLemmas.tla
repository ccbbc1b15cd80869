------------------------------ MODULE DataLemmas ------------------------------
(***************************************************************************)
(* Induction and recursion over data, for the proofs about the modules that *)
(* compute with sums and texts.  A predicate is a set here and a step of a   *)
(* recursion a function, so that every lemma is of first order.             *)
(***************************************************************************)
EXTENDS Ordered, SequencesExt, SequenceTheorems, FiniteSetTheorems, WellFoundedInduction, TLAPS

-----------------------------------------------------------------------------
(* Induction. *)

\* Every set of naturals has a least element.
LEMMA LeastNatural ==
    ASSUME NEW T \in SUBSET Nat, T # {}
    PROVE  \E n \in T : \A m \in T : n <= m
<1> DEFINE Less == {p \in Nat \X Nat : p[1] < p[2]}
<1>1. IsWellFoundedOn(Less, Nat)
  BY NatLessThanWellFounded DEF OpToRel
<1> HIDE DEF Less
<1>2. PICK n \in T : \A m \in T : ~ (<<m, n>> \in Less)
  BY <1>1, WFMin
<1>3. ASSUME NEW m \in T
      PROVE  n <= m
  <2>1. n \in Nat /\ m \in Nat
    OBVIOUS
  <2>2. m < n => <<m, n>> \in Less
    BY <2>1 DEF Less
  <2>3. ~ (m < n)
    BY <1>2, <2>2
  <2> QED BY <2>1, <2>3
<1> QED BY <1>3

\* Induction on the rank of the elements of a set.
LEMMA RankInduction ==
    ASSUME NEW D, NEW rank \in [D -> Nat], NEW T,
           \A d \in D : (\A e \in D : rank[e] < rank[d] => e \in T) => d \in T
    PROVE  D \subseteq T
<1> SUFFICES ASSUME NEW bad \in D, bad \notin T
             PROVE  FALSE
  OBVIOUS
<1> DEFINE Ranks == {rank[d] : d \in D \ T}
<1>1. Ranks \in SUBSET Nat /\ Ranks # {}
  OBVIOUS
<1>2. PICK n \in Ranks : \A m \in Ranks : n <= m
  <2> HIDE DEF Ranks
  <2> QED BY <1>1, LeastNatural
<1>3. PICK d \in D \ T : n = rank[d]
  BY <1>2
<1>4. ASSUME NEW e \in D, rank[e] < rank[d]
      PROVE  e \in T
  <2>1. rank[e] \in Nat /\ rank[d] \in Nat
    OBVIOUS
  <2>2. e \notin T => rank[e] \in Ranks
    OBVIOUS
  <2>3. e \notin T => rank[d] <= rank[e]
    <3> HIDE DEF Ranks
    <3> QED BY <1>2, <1>3, <2>2
  <2> QED BY <1>4, <2>1, <2>3
<1> QED BY <1>3, <1>4

-----------------------------------------------------------------------------
(* Recursion. *)

\* f computes by the recursion that ends in the leaves, goes down otherwise and
\* puts a step on what it finds there.
Computes(f, leaves, base, down, step) ==
    \A d \in DOMAIN f :
        f[d] = IF d \in leaves THEN base[d] ELSE step[<<d, f[down[d]]>>]

\* Two functions that compute the same agree where both are defined, if both are
\* defined wherever they go down to.
LEMMA RecursionIsUnique ==
    ASSUME NEW D, NEW rank \in [D -> Nat], NEW leaves, NEW base, NEW down, NEW step,
           NEW f, NEW g, DOMAIN f \subseteq D,
           Computes(f, leaves, base, down, step),
           Computes(g, leaves, base, down, step),
           \A d \in (DOMAIN f \cap DOMAIN g) \ leaves :
               /\ down[d] \in DOMAIN f \cap DOMAIN g
               /\ rank[down[d]] < rank[d]
    PROVE  \A d \in DOMAIN f \cap DOMAIN g : f[d] = g[d]
<1> DEFINE Both == DOMAIN f \cap DOMAIN g
           T == {d \in Both : f[d] = g[d]}
           r == [d \in Both |-> rank[d]]
<1>1. r \in [Both -> Nat]
  OBVIOUS
<1>2. ASSUME NEW d \in Both, \A e \in Both : r[e] < r[d] => e \in T
      PROVE  d \in T
  <2>1. CASE d \in leaves
    BY <2>1 DEF Computes
  <2>2. CASE d \notin leaves
    <3>1. down[d] \in Both /\ rank[down[d]] < rank[d]
      BY <2>2
    <3>2. f[down[d]] = g[down[d]]
      BY <1>2, <3>1
    <3>3. f[d] = step[<<d, f[down[d]]>>] /\ g[d] = step[<<d, g[down[d]]>>]
      BY <2>2 DEF Computes
    <3> QED BY <3>2, <3>3
  <2> QED BY <2>1, <2>2
<1>3. Both \subseteq T
  <2> HIDE DEF r, T, Both
  <2> QED BY <1>1, <1>2, RankInduction
<1> QED BY <1>3

\* A recursion that goes down in rank computes something.
LEMMA RecursionExists ==
    ASSUME NEW D, NEW rank \in [D -> Nat], NEW V, NEW leaves, NEW base, NEW down, NEW step,
           \A d \in D \cap leaves : base[d] \in V,
           \A d \in D \ leaves : down[d] \in D /\ rank[down[d]] < rank[d],
           \A d \in D \ leaves : \A v \in V : step[<<d, v>>] \in V
    PROVE  \E f \in [D -> V] : Computes(f, leaves, base, down, step)
<1> DEFINE Up(n) == {d \in D : rank[d] < n}
           Approx(n) == {f \in [Up(n) -> V] : Computes(f, leaves, base, down, step)}
           T == {n \in Nat : Approx(n) # {}}
           id == [n \in Nat |-> n]
<1>1. id \in [Nat -> Nat]
  OBVIOUS
<1>2. ASSUME NEW n \in Nat, \A m \in Nat : id[m] < id[n] => m \in T
      PROVE  n \in T
  <2>1. CASE n = 0
    <3> DEFINE e == [d \in Up(0) |-> base[d]]
    <3>1. Up(0) = {}
      OBVIOUS
    <3>2. e \in Approx(0)
      BY <3>1 DEF Computes
    <3> QED BY <3>2, <2>1
  <2>2. CASE n # 0
    <3>0. n - 1 \in T
      <4>1. n - 1 \in Nat /\ id[n - 1] < id[n]
        BY <2>2
      <4> HIDE DEF id, T
      <4> QED BY <1>2, <4>1
    <3>1. PICK f \in Approx(n - 1) : TRUE
      BY <3>0
    <3> DEFINE val(d) == IF d \in leaves THEN base[d] ELSE step[<<d, f[down[d]]>>]
               g == [d \in Up(n) |-> val(d)]
    <3>2. ASSUME NEW d \in Up(n)
          PROVE  d \notin leaves => down[d] \in Up(n - 1)
      BY <2>2
    <3>3. ASSUME NEW d \in Up(n)
          PROVE  val(d) \in V
      BY <3>2
    <3>4. ASSUME NEW d \in Up(n - 1)
          PROVE  d \in Up(n) /\ g[d] = f[d]
      BY <2>2 DEF Computes
    <3>5. Computes(g, leaves, base, down, step)
      BY <3>2, <3>4 DEF Computes
    <3>6. g \in [Up(n) -> V]
      BY <3>3
    <3> QED BY <3>5, <3>6
  <2> QED BY <2>1, <2>2
<1>3. Nat \subseteq T
  <2> HIDE DEF id, T
  <2> QED BY <1>1, <1>2, RankInduction
<1> DEFINE h == [n \in Nat |-> CHOOSE f \in Approx(n) : TRUE]
<1>4. ASSUME NEW n \in Nat
      PROVE  h[n] \in Approx(n)
  BY <1>3
<1>5. ASSUME NEW n \in Nat, NEW m \in Nat, NEW d \in Up(n) \cap Up(m)
      PROVE  h[n][d] = h[m][d]
  <2> DEFINE p == h[n]
             q == h[m]
  <2>1. /\ DOMAIN p = Up(n) /\ DOMAIN q = Up(m)
        /\ Computes(p, leaves, base, down, step)
        /\ Computes(q, leaves, base, down, step)
    BY <1>4
  <2>2. \A x \in (Up(n) \cap Up(m)) \ leaves :
           down[x] \in Up(n) \cap Up(m) /\ rank[down[x]] < rank[x]
    OBVIOUS
  <2>3. Up(n) \subseteq D
    OBVIOUS
  <2> HIDE DEF p, q, Up
  <2>4. \A x \in DOMAIN p \cap DOMAIN q : p[x] = q[x]
    BY <2>1, <2>2, <2>3, RecursionIsUnique
  <2> QED BY <2>1, <2>4 DEF p, q
<1> DEFINE f == [d \in D |-> h[rank[d] + 1][d]]
<1> HIDE DEF h
<1>6. ASSUME NEW d \in D
      PROVE  f[d] \in V /\ f[d] = IF d \in leaves THEN base[d] ELSE step[<<d, f[down[d]]>>]
  <2> DEFINE n == rank[d] + 1
  <2>1. n \in Nat /\ d \in Up(n)
    OBVIOUS
  <2>2. h[n] \in [Up(n) -> V] /\ Computes(h[n], leaves, base, down, step)
    BY <1>4, <2>1
  <2>3. f[d] = h[n][d]
    OBVIOUS
  <2>4. f[d] = IF d \in leaves THEN base[d] ELSE step[<<d, h[n][down[d]]>>]
    <3> HIDE DEF n, Up, f
    <3> QED BY <2>1, <2>2, <2>3 DEF Computes
  <2>5. CASE d \notin leaves
    <3>1. down[d] \in D /\ rank[down[d]] < rank[d] /\ rank[down[d]] + 1 \in Nat
      BY <2>5
    <3>2. down[d] \in Up(n) \cap Up(rank[down[d]] + 1)
      BY <3>1
    <3>3. h[n][down[d]] = h[rank[down[d]] + 1][down[d]]
      <4> HIDE DEF Up, n
      <4> QED BY <1>5, <2>1, <3>1, <3>2
    <3>4. f[down[d]] = h[rank[down[d]] + 1][down[d]]
      BY <3>1
    <3>5. f[d] \in V
      <4> HIDE DEF Up, n, f
      <4> QED BY <2>1, <2>2, <2>3
    <3> HIDE DEF f, n, Up
    <3> QED BY <2>4, <2>5, <3>3, <3>4, <3>5
  <2>6. CASE d \in leaves
    <3> HIDE DEF f
    <3> QED BY <2>4, <2>6
  <2> QED BY <2>5, <2>6
<1>7. f \in [D -> V] /\ DOMAIN f = D
  BY <1>6
<1>8. Computes(f, leaves, base, down, step)
  <2> HIDE DEF f
  <2> QED BY <1>6, <1>7 DEF Computes
<1> HIDE DEF f
<1> QED BY <1>7, <1>8

-----------------------------------------------------------------------------
(* Sums over finite sets. *)

\* What computes the sum of g over each subset of S: one element is taken out.
Picked(s) == CHOOSE x \in s : TRUE
SumsUp(iter, g, S) ==
    iter = [s \in SUBSET S |-> IF s = {} THEN 0 ELSE g[Picked(s)] + iter[s \ {Picked(s)}]]

LEMMA SumIsFold ==
    ASSUME NEW g, NEW S
    PROVE  SumFunctionOnSet(g, S) = (CHOOSE iter : SumsUp(iter, g, S))[S]
BY DEF SumFunctionOnSet, FoldFunctionOnSet, MapThenFoldSet, SumsUp, Picked

\* A set without one of its elements is a smaller finite set.
LEMMA OneOut ==
    ASSUME NEW S, IsFiniteSet(S), NEW x \in S
    PROVE  /\ IsFiniteSet(S \ {x})
           /\ Cardinality(S \ {x}) \in Nat /\ Cardinality(S) \in Nat
           /\ Cardinality(S \ {x}) < Cardinality(S)
<1>1. IsFiniteSet(S \ {x}) /\ Cardinality(S \ {x}) = Cardinality(S) - 1
  BY FS_RemoveElement
<1>2. Cardinality(S \ {x}) \in Nat /\ Cardinality(S) \in Nat
  BY <1>1, FS_CardinalityType
<1> QED BY <1>1, <1>2

LEMMA SumIterates ==
    ASSUME NEW S, IsFiniteSet(S), NEW g, \A x \in S : g[x] \in Int
    PROVE  \E iter \in [SUBSET S -> Int] : SumsUp(iter, g, S)
<1> DEFINE rank == [s \in SUBSET S |-> Cardinality(s)]
           base == [s \in {{}} |-> 0]
           down == [s \in SUBSET S |-> s \ {Picked(s)}]
           step == [p \in (SUBSET S) \X Int |-> g[Picked(p[1])] + p[2]]
<1>1. rank \in [SUBSET S -> Nat]
  BY FS_Subset, FS_CardinalityType
<1>2. ASSUME NEW s \in (SUBSET S) \ {{}}
      PROVE  /\ Picked(s) \in s
             /\ down[s] \in SUBSET S
             /\ rank[down[s]] < rank[s]
             /\ \A v \in Int : step[<<s, v>>] = g[Picked(s)] + v /\ step[<<s, v>>] \in Int
  <2>1. Picked(s) \in s
    BY DEF Picked
  <2>2. IsFiniteSet(s) /\ down[s] = s \ {Picked(s)} /\ down[s] \in SUBSET S
    BY FS_Subset
  <2>3. Cardinality(s \ {Picked(s)}) < Cardinality(s)
    BY <2>1, <2>2, OneOut
  <2>4. rank[down[s]] < rank[s]
    BY <2>2, <2>3
  <2>5. ASSUME NEW v \in Int
        PROVE  step[<<s, v>>] = g[Picked(s)] + v /\ step[<<s, v>>] \in Int
    <3>1. <<s, v>> \in (SUBSET S) \X Int
      OBVIOUS
    <3>2. step[<<s, v>>] = g[Picked(s)] + v
      BY <3>1
    <3>3. g[Picked(s)] \in Int
      BY <2>1
    <3> QED BY <3>2, <3>3
  <2> QED BY <2>1, <2>2, <2>4, <2>5
<1>3. \A s \in (SUBSET S) \cap {{}} : base[s] \in Int
  OBVIOUS
<1>4. PICK f \in [SUBSET S -> Int] : Computes(f, {{}}, base, down, step)
  <2> HIDE DEF rank, base, down, step
  <2> QED BY <1>1, <1>2, <1>3, RecursionExists
<1>5. ASSUME NEW s \in SUBSET S
      PROVE  f[s] = IF s = {} THEN 0 ELSE g[Picked(s)] + f[s \ {Picked(s)}]
  <2>1. CASE s = {}
    BY <1>4, <2>1 DEF Computes
  <2>2. CASE s # {}
    <3>1. f[s] = step[<<s, f[down[s]]>>]
      <4> HIDE DEF step, down, base
      <4> QED BY <1>4, <2>2 DEF Computes
    <3>2. f[down[s]] \in Int /\ down[s] = s \ {Picked(s)}
      BY <1>2, <2>2
    <3>3. step[<<s, f[down[s]]>>] = g[Picked(s)] + f[down[s]]
      <4> HIDE DEF step, down
      <4> QED BY <1>2, <2>2, <3>2
    <3> HIDE DEF step, down
    <3> QED BY <2>2, <3>1, <3>2, <3>3
  <2> QED BY <2>1, <2>2
<1>6. SumsUp(f, g, S)
  BY <1>5 DEF SumsUp
<1> QED BY <1>6

\* The sum over a set is that of one function for all of its subsets.
LEMMA SumsAgree ==
    ASSUME NEW S, NEW T \in SUBSET S, IsFiniteSet(S), NEW g, NEW f, NEW h,
           SumsUp(f, g, S), SumsUp(h, g, T)
    PROVE  f[T] = h[T]
<1> DEFINE rank == [s \in SUBSET T |-> Cardinality(s)]
           Same == {s \in SUBSET T : f[s] = h[s]}
<1>0. IsFiniteSet(T)
  BY FS_Subset
<1>1. rank \in [SUBSET T -> Nat]
  BY <1>0, FS_Subset, FS_CardinalityType
<1>2. ASSUME NEW s \in SUBSET T, \A e \in SUBSET T : rank[e] < rank[s] => e \in Same
      PROVE  s \in Same
  <2>1. CASE s = {}
    BY <2>1 DEF SumsUp
  <2>2. CASE s # {}
    <3>1. Picked(s) \in s /\ s \ {Picked(s)} \in SUBSET T
      BY <2>2 DEF Picked
    <3>2. rank[s \ {Picked(s)}] < rank[s]
      BY <1>0, <3>1, FS_Subset, OneOut
    <3>3. f[s \ {Picked(s)}] = h[s \ {Picked(s)}]
      BY <1>2, <3>1, <3>2
    <3>4. /\ f[s] = g[Picked(s)] + f[s \ {Picked(s)}]
          /\ h[s] = g[Picked(s)] + h[s \ {Picked(s)}]
      BY <2>2 DEF SumsUp
    <3> QED BY <3>3, <3>4
  <2> QED BY <2>1, <2>2
<1>3. SUBSET T \subseteq Same
  <2> HIDE DEF rank, Same
  <2> QED BY <1>1, <1>2, RankInduction
<1> QED BY <1>3

\* How a sum is computed: some element and the sum of the others.
LEMMA SumOneStep ==
    ASSUME NEW S, IsFiniteSet(S), NEW g, \A x \in S : g[x] \in Int
    PROVE  /\ SumFunctionOnSet(g, S) \in Int
           /\ S = {} => SumFunctionOnSet(g, S) = 0
           /\ S # {} => \E x \in S :
                 SumFunctionOnSet(g, S) = g[x] + SumFunctionOnSet(g, S \ {x})
<1> DEFINE f == CHOOSE iter : SumsUp(iter, g, S)
<1>1. PICK k \in [SUBSET S -> Int] : SumsUp(k, g, S)
  BY SumIterates
<1>2. SumsUp(f, g, S)
  BY <1>1
<1>3. SumFunctionOnSet(g, S) = f[S]
  BY SumIsFold
<1> HIDE DEF f
<1>4. f[S] = k[S]
  BY <1>1, <1>2, SumsAgree
<1>5. ASSUME S # {}
      PROVE  \E x \in S : SumFunctionOnSet(g, S) = g[x] + SumFunctionOnSet(g, S \ {x})
  <2> DEFINE x == Picked(S)
             h == CHOOSE iter : SumsUp(iter, g, S \ {x})
  <2>1. x \in S
    BY <1>5 DEF Picked
  <2>2. IsFiniteSet(S \ {x}) /\ \A y \in S \ {x} : g[y] \in Int
    BY <2>1, FS_RemoveElement
  <2> HIDE DEF x
  <2>3. \E iter : SumsUp(iter, g, S \ {x})
    BY <2>2, SumIterates
  <2>4. SumsUp(h, g, S \ {x})
    BY <2>3
  <2>5. SumFunctionOnSet(g, S \ {x}) = h[S \ {x}]
    BY SumIsFold
  <2> HIDE DEF h
  <2>6. f[S \ {x}] = h[S \ {x}]
    BY <1>2, <2>4, SumsAgree
  <2>7. f[S] = g[x] + f[S \ {x}]
    BY <1>2, <1>5 DEF SumsUp, x
  <2> QED BY <1>3, <2>1, <2>5, <2>6, <2>7
<1>6. S = {} => f[S] = 0
  BY <1>2 DEF SumsUp
<1> QED BY <1>1, <1>3, <1>4, <1>5, <1>6

\* Any element may be the one taken out.
LEMMA SumTakeOut ==
    ASSUME NEW S, IsFiniteSet(S), NEW g, \A x \in S : g[x] \in Int
    PROVE  \A x \in S : SumFunctionOnSet(g, S) = g[x] + SumFunctionOnSet(g, S \ {x})
<1> DEFINE rank == [s \in SUBSET S |-> Cardinality(s)]
           Sum(s) == SumFunctionOnSet(g, s)
           Good == {s \in SUBSET S : \A x \in s : Sum(s) = g[x] + Sum(s \ {x})}
<1>1. rank \in [SUBSET S -> Nat]
  BY FS_Subset, FS_CardinalityType
<1>2. ASSUME NEW s \in SUBSET S, \A e \in SUBSET S : rank[e] < rank[s] => e \in Good
      PROVE  s \in Good
  <2> SUFFICES ASSUME NEW x \in s
               PROVE  Sum(s) = g[x] + Sum(s \ {x})
    OBVIOUS
  <2>0. IsFiniteSet(s) /\ \A y \in s : g[y] \in Int
    BY FS_Subset
  <2>1. PICK c \in s : Sum(s) = g[c] + Sum(s \ {c})
    BY <2>0, SumOneStep
  <2>2. CASE c = x
    BY <2>1, <2>2
  <2>3. CASE c # x
    <3>1. rank[s \ {c}] < rank[s] /\ rank[s \ {x}] < rank[s]
      <4>1. Cardinality(s \ {c}) < Cardinality(s) /\ Cardinality(s \ {x}) < Cardinality(s)
        BY <2>0, OneOut
      <4> QED BY <4>1
    <3>2. s \ {c} \in Good /\ s \ {x} \in Good
      <4> HIDE DEF Good, rank
      <4> QED BY <1>2, <3>1
    <3>3. Sum(s \ {c}) = g[x] + Sum((s \ {c}) \ {x})
      BY <2>3, <3>2
    <3>4. Sum(s \ {x}) = g[c] + Sum((s \ {x}) \ {c})
      BY <2>3, <3>2
    <3>5. (s \ {c}) \ {x} = (s \ {x}) \ {c}
      OBVIOUS
    <3>6. Sum((s \ {x}) \ {c}) \in Int
      <4>1. IsFiniteSet((s \ {x}) \ {c})
        BY <2>0, FS_Subset
      <4> QED BY <2>0, <4>1, SumOneStep
    <3>7. g[x] \in Int /\ g[c] \in Int
      BY <2>0
    <3>8. Sum((s \ {c}) \ {x}) = Sum((s \ {x}) \ {c})
      BY <3>5
    <3> HIDE DEF Sum
    <3> QED BY <2>1, <3>3, <3>4, <3>6, <3>7, <3>8
  <2> QED BY <2>2, <2>3
<1>3. SUBSET S \subseteq Good
  <2> HIDE DEF rank, Good
  <2> QED BY <1>1, <1>2, RankInduction
<1> QED BY <1>3

\* Functions that agree on a set have one sum over it.
LEMMA SumOfEqual ==
    ASSUME NEW S, IsFiniteSet(S), NEW g, NEW h,
           \A x \in S : g[x] \in Int /\ g[x] = h[x]
    PROVE  SumFunctionOnSet(g, S) = SumFunctionOnSet(h, S)
<1> DEFINE rank == [s \in SUBSET S |-> Cardinality(s)]
           Good == {s \in SUBSET S : SumFunctionOnSet(g, s) = SumFunctionOnSet(h, s)}
<1>1. rank \in [SUBSET S -> Nat]
  BY FS_Subset, FS_CardinalityType
<1>2. ASSUME NEW s \in SUBSET S, \A e \in SUBSET S : rank[e] < rank[s] => e \in Good
      PROVE  s \in Good
  <2>0. IsFiniteSet(s) /\ (\A y \in s : g[y] \in Int) /\ (\A y \in s : h[y] \in Int)
    BY FS_Subset
  <2>1. CASE s = {}
    <3>1. SumFunctionOnSet(g, s) = 0 /\ SumFunctionOnSet(h, s) = 0
      BY <2>0, <2>1, SumOneStep
    <3> QED BY <3>1
  <2>2. CASE s # {}
    <3>1. PICK x \in s : SumFunctionOnSet(g, s) = g[x] + SumFunctionOnSet(g, s \ {x})
      BY <2>0, <2>2, SumOneStep
    <3>2. SumFunctionOnSet(h, s) = h[x] + SumFunctionOnSet(h, s \ {x})
      BY <2>0, SumTakeOut
    <3>3. rank[s \ {x}] < rank[s]
      BY <2>0, OneOut
    <3>4. s \ {x} \in Good
      <4> HIDE DEF Good, rank
      <4> QED BY <1>2, <3>3
    <3> QED BY <3>1, <3>2, <3>4
  <2> QED BY <2>1, <2>2
<1>3. SUBSET S \subseteq Good
  <2> HIDE DEF rank, Good
  <2> QED BY <1>1, <1>2, RankInduction
<1> QED BY <1>3

\* What a sum becomes when one of its terms changes.
LEMMA SumChangesBy ==
    ASSUME NEW S, IsFiniteSet(S), NEW g, NEW h, NEW x \in S,
           \A y \in S : g[y] \in Int /\ h[y] \in Int,
           \A y \in S \ {x} : h[y] = g[y]
    PROVE  /\ SumFunctionOnSet(g, S) \in Int
           /\ SumFunctionOnSet(h, S) = SumFunctionOnSet(g, S) - g[x] + h[x]
<1>1. SumFunctionOnSet(g, S) = g[x] + SumFunctionOnSet(g, S \ {x})
  BY SumTakeOut
<1>2. SumFunctionOnSet(h, S) = h[x] + SumFunctionOnSet(h, S \ {x})
  BY SumTakeOut
<1>3. IsFiniteSet(S \ {x})
  BY FS_RemoveElement
<1>4. SumFunctionOnSet(g, S \ {x}) = SumFunctionOnSet(h, S \ {x})
  BY <1>3, SumOfEqual
<1>5. SumFunctionOnSet(g, S \ {x}) \in Int /\ g[x] \in Int /\ h[x] \in Int
  BY <1>3, SumOneStep
<1> QED BY <1>1, <1>2, <1>4, <1>5

-----------------------------------------------------------------------------
(* Positions in an order. *)

\* Different elements of a finite set have different numbers of elements before
\* them, so that every number between the extremes is that of an element.
LEMMA RanksAreAll ==
    ASSUME NEW S, IsFiniteSet(S), NEW below \in [S -> SUBSET S], NEW lo \in Int,
           \A x, y \in S : x # y =>
               /\ below[x] # below[y]
               /\ below[x] \subseteq below[y] \/ below[y] \subseteq below[x],
           \A x \in S : Cardinality(below[x]) \in lo..(lo + Cardinality(S) - 1)
    PROVE  /\ \A k \in lo..(lo + Cardinality(S) - 1) : \E x \in S : Cardinality(below[x]) = k
           /\ \A x, y \in S : Cardinality(below[x]) = Cardinality(below[y]) => x = y
<1> DEFINE T == lo..(lo + Cardinality(S) - 1)
           f == [x \in S |-> Cardinality(below[x])]
<1>1. Cardinality(S) \in Nat
  BY FS_CardinalityType
<1>2. IsFiniteSet(T) /\ Cardinality(T) = Cardinality(S)
  <2> DEFINE hi == lo + Cardinality(S) - 1
  <2>1. hi \in Int /\ (IF lo > hi THEN 0 ELSE hi - lo + 1) = Cardinality(S)
    BY <1>1
  <2>2. IsFiniteSet(lo..hi) /\ Cardinality(lo..hi) = IF lo > hi THEN 0 ELSE hi - lo + 1
    <3> HIDE DEF hi
    <3> QED BY <2>1, FS_Interval
  <2> QED BY <2>1, <2>2
<1>3. f \in [S -> T]
  OBVIOUS
<1>4. ASSUME NEW x \in S, NEW y \in S, Cardinality(below[x]) = Cardinality(below[y])
      PROVE  x = y
  <2>1. IsFiniteSet(below[x]) /\ IsFiniteSet(below[y])
    BY FS_Subset
  <2>2. below[x] \subseteq below[y] => below[x] = below[y]
    BY <1>4, <2>1, FS_Subset
  <2>3. below[y] \subseteq below[x] => below[x] = below[y]
    BY <1>4, <2>1, FS_Subset
  <2> QED BY <2>2, <2>3
<1>5. f \in Injection(S, T)
  BY <1>3, <1>4 DEF Injection, IsInjective
<1>6. f \in Surjection(S, T)
  <2> HIDE DEF f, T
  <2> QED BY <1>2, <1>5, FS_Injection
<1>7. \A k \in T : \E x \in S : Cardinality(below[x]) = k
  BY <1>6 DEF Surjection
<1> QED BY <1>4, <1>7

-----------------------------------------------------------------------------
(* Numbers in order. *)

\* Every number of a finite set is at its rank, and what is at a later place is
\* greater.
LEMMA AscendingIs ==
    ASSUME NEW S \in SUBSET Int, IsFiniteSet(S)
    PROVE  /\ Cardinality(S) \in Nat
           /\ Ascending(S) \in [1..Cardinality(S) -> S]
           /\ \A i \in S : \E k \in 1..Cardinality(S) : Ascending(S)[k] = i
           /\ \A k, m \in 1..Cardinality(S) : k < m => Ascending(S)[k] < Ascending(S)[m]
<1> DEFINE below == [i \in S |-> {j \in S : j <= i}]
           at == Ascending(S)
<1>2. Cardinality(S) \in Nat
  BY FS_CardinalityType
<1>3. below \in [S -> SUBSET S]
  OBVIOUS
<1>4. \A i, j \in S : i # j =>
          /\ below[i] # below[j]
          /\ below[i] \subseteq below[j] \/ below[j] \subseteq below[i]
  <2> SUFFICES ASSUME NEW i \in S, NEW j \in S, i # j
               PROVE  /\ below[i] # below[j]
                      /\ below[i] \subseteq below[j] \/ below[j] \subseteq below[i]
    OBVIOUS
  <2>0. S \subseteq Int /\ i \in Int /\ j \in Int
    OBVIOUS
  <2>1. CASE i < j
    <3>1. j \in {k \in S : k <= j} /\ j \notin {k \in S : k <= i}
      BY <2>0, <2>1
    <3>2. \A k \in Int : k <= i => k <= j
      BY <2>0, <2>1
    <3> QED BY <2>0, <3>1, <3>2
  <2>2. CASE j < i
    <3>1. i \in {k \in S : k <= i} /\ i \notin {k \in S : k <= j}
      BY <2>0, <2>2
    <3>2. \A k \in Int : k <= j => k <= i
      BY <2>0, <2>2
    <3> QED BY <2>0, <3>1, <3>2
  <2> QED BY <2>0, <2>1, <2>2
<1>5. ASSUME NEW i \in S
      PROVE  Cardinality(below[i]) \in 1..Cardinality(S)
  <2>1. IsFiniteSet(below[i]) /\ Cardinality(below[i]) <= Cardinality(S)
    BY <1>3, FS_Subset
  <2>2. Cardinality(below[i]) \in Nat
    BY <2>1, FS_CardinalityType
  <2>3. Cardinality(below[i]) # 0
    <3>1. i \in below[i]
      OBVIOUS
    <3> HIDE DEF below
    <3> QED BY <2>1, <3>1, FS_EmptySet
  <2> HIDE DEF below
  <2> QED BY <1>2, <2>1, <2>2, <2>3
<1>6. /\ \A k \in 1..Cardinality(S) : \E i \in S : Cardinality(below[i]) = k
      /\ \A x, y \in S : Cardinality(below[x]) = Cardinality(below[y]) => x = y
  <2> DEFINE lo == 1
  <2>1. /\ lo \in Int /\ IsFiniteSet(S) /\ below \in [S -> SUBSET S]
        /\ \A x, y \in S : x # y =>
               /\ below[x] # below[y]
               /\ below[x] \subseteq below[y] \/ below[y] \subseteq below[x]
        /\ \A x \in S : Cardinality(below[x]) \in lo..(lo + Cardinality(S) - 1)
    BY <1>2, <1>3, <1>4, <1>5
  <2> HIDE DEF below, lo
  <2>2. /\ \A k \in lo..(lo + Cardinality(S) - 1) : \E x \in S : Cardinality(below[x]) = k
        /\ \A x, y \in S : Cardinality(below[x]) = Cardinality(below[y]) => x = y
    BY <2>1, RanksAreAll, Zenon
  <2>3. lo..(lo + Cardinality(S) - 1) = 1..Cardinality(S)
    BY <1>2 DEF lo
  <2> QED BY <2>2, <2>3
<1>7. ASSUME NEW k \in 1..Cardinality(S)
      PROVE  at[k] \in S /\ Cardinality(below[at[k]]) = k
  <2>1. at[k] = CHOOSE i \in S : Cardinality({j \in S : j <= i}) = k
    BY DEF Ascending
  <2>2. \E i \in S : Cardinality({j \in S : j <= i}) = k
    BY <1>6
  <2>3. at[k] \in S /\ Cardinality({j \in S : j <= at[k]}) = k
    <3> HIDE DEF at, below
    <3> QED BY <2>1, <2>2
  <2> QED BY <2>3
<1>8. at \in [1..Cardinality(S) -> S]
  <2> DEFINE Ranked(n) == CHOOSE i \in S : Cardinality({j \in S : j <= i}) = n
  <2>1. at = [n \in 1..Cardinality(S) |-> Ranked(n)]
    BY DEF Ascending
  <2> HIDE DEF at, below, Ranked
  <2> QED BY <1>7, <2>1
<1>9. ASSUME NEW i \in S
      PROVE  \E k \in 1..Cardinality(S) : at[k] = i
  <2> HIDE DEF at, below
  <2> QED BY <1>5, <1>6, <1>7
<1>10. ASSUME NEW k \in 1..Cardinality(S), NEW m \in 1..Cardinality(S), k < m
       PROVE  at[k] < at[m]
  <2> HIDE DEF at
  <2>1. at[k] \in S /\ at[m] \in S /\ at[k] \in Int /\ at[m] \in Int /\ k \in Int /\ m \in Int
    <3> HIDE DEF below
    <3>1. at[k] \in S /\ at[m] \in S
      BY <1>7
    <3>2. at[k] \in Int /\ at[m] \in Int
      BY <3>1
    <3>3. k \in Int /\ m \in Int
      BY <1>2
    <3> QED BY <3>1, <3>2, <3>3
  <2>2. ASSUME at[m] <= at[k]
        PROVE  FALSE
    <3>1. below[at[m]] \subseteq below[at[k]]
      <4>1. \A j \in Int : j <= at[m] => j <= at[k]
        BY <2>1, <2>2
      <4> QED BY <2>1, <4>1
    <3> HIDE DEF below
    <3>2. IsFiniteSet(below[at[k]]) /\ below[at[k]] \in SUBSET S
      BY <1>3, <2>1, FS_Subset
    <3>3. Cardinality(below[at[m]]) <= Cardinality(below[at[k]])
      BY <3>1, <3>2, FS_Subset
    <3> QED BY <1>7, <1>10, <2>1, <3>3
  <2> HIDE DEF below
  <2> QED BY <2>1, <2>2
<1> QED BY <1>2, <1>8, <1>9, <1>10

-----------------------------------------------------------------------------
(* Counting. *)

\* There are no more of S than of a finite T, if every one of S has one of T and
\* no two have the same.
LEMMA NoMoreThan ==
    ASSUME NEW S, NEW T, IsFiniteSet(T), NEW R,
           \A x \in S : \E y \in T : <<x, y>> \in R,
           \A x, z \in S : \A y \in T : <<x, y>> \in R /\ <<z, y>> \in R => x = z
    PROVE  /\ IsFiniteSet(S)
           /\ Cardinality(S) \in Nat /\ Cardinality(T) \in Nat
           /\ Cardinality(S) <= Cardinality(T)
<1> DEFINE f == [x \in S |-> CHOOSE y \in T : <<x, y>> \in R]
<1>1. \A x \in S : f[x] \in T /\ <<x, f[x]>> \in R
  OBVIOUS
<1>2. f \in [S -> T]
  BY <1>1
<1> HIDE DEF f
<1>3. \A x, z \in S : f[x] = f[z] => x = z
  BY <1>1
<1>4. f \in Injection(S, T)
  BY <1>2, <1>3 DEF Injection, IsInjective
<1>5. IsFiniteSet(S) /\ Cardinality(S) <= Cardinality(T)
  BY <1>4, FS_Injection
<1>6. Cardinality(S) \in Nat /\ Cardinality(T) \in Nat
  BY <1>5, FS_CardinalityType
<1> QED BY <1>5, <1>6

-----------------------------------------------------------------------------
(* Sequences, and numbers in order. *)

\* What holds of the empty sequence, and of a longer one if of what is before its
\* last element, holds of every sequence.
LEMMA SequenceInduction ==
    ASSUME NEW X, NEW T, <<>> \in T,
           \A s \in Seq(X) : \A x \in X : s \in T => Append(s, x) \in T
    PROVE  Seq(X) \subseteq T
<1> DEFINE rank == [s \in Seq(X) |-> Len(s)]
<1>1. rank \in [Seq(X) -> Nat]
  BY LenProperties
<1>2. ASSUME NEW s \in Seq(X), \A t \in Seq(X) : rank[t] < rank[s] => t \in T
      PROVE  s \in T
  <2>1. CASE s = <<>>
    BY <2>1
  <2>2. CASE s # <<>>
    <3>1. PICK t \in Seq(X), x \in X : s = Append(t, x)
      BY <2>2, SequenceEmptyOrAppend
    <3>2. Len(s) = Len(t) + 1 /\ Len(t) \in Nat
      BY <3>1, AppendProperties, LenProperties
    <3>3. rank[t] < rank[s]
      BY <3>2
    <3> HIDE DEF rank
    <3> QED BY <1>2, <3>1, <3>3
  <2> QED BY <2>1, <2>2
<1> DEFINE D == Seq(X)
<1>3. rank \in [D -> Nat] /\ \A s \in D : (\A t \in D : rank[t] < rank[s] => t \in T) => s \in T
  BY <1>1, <1>2
<1> HIDE DEF rank, D
<1>4. D \subseteq T
  BY <1>3, RankInduction
<1> QED BY <1>4 DEF D

\* The number with as many others up to it as its place.
LEMMA AscendingRanks ==
    ASSUME NEW S \in SUBSET Int, IsFiniteSet(S), NEW k \in 1..Cardinality(S)
    PROVE  /\ Ascending(S)[k] \in S
           /\ \A i \in S : Cardinality({j \in S : j <= i}) = k <=> i = Ascending(S)[k]
<1> DEFINE at == Ascending(S)
           up(i) == {j \in S : j <= i}
<1>1. /\ Cardinality(S) \in Nat
      /\ at \in [1..Cardinality(S) -> S]
      /\ \A i \in S : \E m \in 1..Cardinality(S) : at[m] = i
      /\ \A n, m \in 1..Cardinality(S) : n < m => at[n] < at[m]
  BY AscendingIs
<1> HIDE DEF at
<1>2. ASSUME NEW n \in 1..Cardinality(S)
      PROVE  Cardinality(up(at[n])) = n
  <2> DEFINE f == [m \in 1..n |-> at[m]]
  <2>1. n \in Nat /\ \A m \in 1..n : m \in 1..Cardinality(S)
    BY <1>1
  <2>2. \A m \in 1..n : at[m] \in S /\ at[m] <= at[n]
    <3>1. ASSUME NEW m \in 1..n
          PROVE  at[m] \in S /\ at[m] <= at[n]
      <4>1. m \in 1..Cardinality(S) /\ at[m] \in S /\ at[n] \in S /\ at[m] \in Int /\ at[n] \in Int
        BY <1>1, <2>1
      <4>2. m = n \/ m < n
        BY <2>1
      <4> QED BY <1>1, <4>1, <4>2
    <3> QED BY <3>1
  <2>3. \A m, l \in 1..n : at[m] = at[l] => m = l
    <3>1. ASSUME NEW m \in 1..n, NEW l \in 1..n, at[m] = at[l], m < l
          PROVE  FALSE
      <4>1. at[m] < at[l] /\ at[m] \in S /\ at[m] \in Int
        BY <1>1, <2>1, <2>2, <3>1
      <4> QED BY <3>1, <4>1
    <3>2. \A m, l \in 1..n : m < l \/ l < m \/ m = l
      BY <2>1
    <3> QED BY <3>1, <3>2
  <2>4. ASSUME NEW i \in up(at[n])
        PROVE  \E m \in 1..n : at[m] = i
    <3>1. PICK m \in 1..Cardinality(S) : at[m] = i
      BY <1>1
    <3>2. m \in 1..n
      <4>1. i <= at[n] /\ i \in Int /\ at[n] \in S /\ at[n] \in Int
        BY <1>1
      <4>2. n < m => at[n] < at[m]
        BY <1>1
      <4>3. ~(n < m)
        BY <3>1, <4>1, <4>2
      <4> QED BY <1>1, <4>3
    <3> QED BY <3>1, <3>2
  <2> DEFINE D == 1..n
             R == up(at[n])
  <2>5. f \in [D -> R] /\ (\A m, l \in D : f[m] = f[l] => m = l) /\ \A i \in R : \E m \in D : f[m] = i
    <3>1. \A m \in 1..n : at[m] \in R
      BY <2>2
    <3> HIDE DEF R
    <3>2. \A i \in R : \E m \in 1..n : at[m] = i
      BY <2>4 DEF R
    <3> QED BY <2>3, <3>1, <3>2
  <2>6. IsFiniteSet(R)
    BY FS_Subset
  <2>7. IsFiniteSet(D) /\ Cardinality(D) = n
    BY <2>1, FS_Interval
  <2> HIDE DEF D, R, f
  <2>8. f \in Bijection(D, R)
    BY <2>5 DEF Bijection, Injection, IsInjective, Surjection
  <2>9. Cardinality(R) = n
    BY <2>6, <2>7, <2>8, FS_Bijection DEF ExistsBijection
  <2> QED BY <2>9 DEF R
<1>3. ASSUME NEW i \in S, Cardinality(up(i)) = k
      PROVE  i = at[k]
  <2>1. PICK m \in 1..Cardinality(S) : at[m] = i
    BY <1>1
  <2>2. m = k
    BY <1>2, <1>3, <2>1
  <2> QED BY <2>1, <2>2
<1>4. at[k] \in S
  BY <1>1
<1> QED BY <1>2, <1>3, <1>4 DEF at

\* A greater number comes after the others.
LEMMA AscendingOneMore ==
    ASSUME NEW S \in SUBSET Int, IsFiniteSet(S), NEW m \in Int, \A i \in S : i < m
    PROVE  /\ Cardinality(S \cup {m}) = Cardinality(S) + 1
           /\ Cardinality(S) \in Nat
           /\ \A k \in 1..Cardinality(S) : Ascending(S \cup {m})[k] = Ascending(S)[k]
           /\ Ascending(S \cup {m})[Cardinality(S) + 1] = m
<1> DEFINE U == S \cup {m}
           n == Cardinality(S)
<1>1. m \notin S
  OBVIOUS
<1>2. IsFiniteSet(U) /\ Cardinality(U) = n + 1 /\ n \in Nat /\ U \in SUBSET Int
  BY <1>1, FS_AddElement, FS_CardinalityType
<1>3. ASSUME NEW i \in S
      PROVE  {j \in U : j <= i} = {j \in S : j <= i}
  <2>1. i \in Int /\ i < m
    OBVIOUS
  <2>2. ~(m <= i)
    BY <2>1
  <2> QED BY <2>2
<1>4. {j \in U : j <= m} = U
  <2>1. \A j \in S : j \in Int /\ j < m
    OBVIOUS
  <2>2. m <= m /\ \A j \in S : j <= m
    BY <2>1
  <2>3. \A j \in U : j <= m
    BY <2>2
  <2> HIDE DEF U
  <2> QED BY <2>3
<1>5. ASSUME NEW k \in 1..n
      PROVE  Ascending(U)[k] = Ascending(S)[k]
  <2>1. k \in 1..Cardinality(U)
    BY <1>2
  <2>2. Ascending(S)[k] \in S /\ Cardinality({j \in S : j <= Ascending(S)[k]}) = k
    BY AscendingRanks
  <2> DEFINE a == Ascending(S)[k]
  <2>3. a \in U /\ Cardinality({j \in U : j <= a}) = k
    <3> HIDE DEF U
    <3> QED BY <1>3, <2>2 DEF U
  <2> HIDE DEF U, a
  <2> QED BY <1>2, <2>1, <2>3, AscendingRanks DEF a
<1>6. Ascending(U)[n + 1] = m
  <2>1. n + 1 \in 1..Cardinality(U)
    BY <1>2
  <2>2. m \in U /\ Cardinality({j \in U : j <= m}) = n + 1
    BY <1>2, <1>4
  <2> DEFINE k == n + 1
  <2>3. k \in 1..Cardinality(U) /\ Cardinality({j \in U : j <= m}) = k
    BY <2>1, <2>2
  <2> HIDE DEF U, k
  <2> QED BY <1>2, <2>2, <2>3, AscendingRanks DEF k
<1> QED BY <1>2, <1>5, <1>6

-----------------------------------------------------------------------------
(* What is kept of a sequence. *)

\* What of a sequence is at some places, in order, and what of it is in a set.
AtPlaces(seq, places) ==
    LET at == Ascending(places) IN [n \in DOMAIN at |-> seq[at[n]]]
Kept(seq, S) == AtPlaces(seq, {i \in DOMAIN seq : seq[i] \in S})

LEMMA PlacesIs ==
    ASSUME NEW X, NEW seq \in Seq(X), NEW places \in SUBSET (1..Len(seq))
    PROVE  /\ IsFiniteSet(places) /\ Cardinality(places) \in Nat /\ places \in SUBSET Int
           /\ DOMAIN Ascending(places) = 1..Cardinality(places)
           /\ AtPlaces(seq, places) \in Seq(X)
           /\ Len(AtPlaces(seq, places)) = Cardinality(places)
           /\ \A k \in 1..Cardinality(places) :
                 /\ Ascending(places)[k] \in places
                 /\ AtPlaces(seq, places)[k] = seq[Ascending(places)[k]]
<1> DEFINE lo == 1
<1>1. lo \in Int /\ Len(seq) \in Int /\ places \in SUBSET (lo..Len(seq)) /\ places \in SUBSET Int
  BY LenProperties
<1>2. IsFiniteSet(places)
  <2> HIDE DEF lo
  <2>1. IsFiniteSet(lo..Len(seq))
    BY <1>1, FS_Interval
  <2> QED BY <1>1, <2>1, FS_Subset
<1> DEFINE at == Ascending(places)
           n == Cardinality(places)
<1>3. at \in [1..n -> places] /\ n \in Nat
  BY <1>1, <1>2, AscendingIs
<1>4. AtPlaces(seq, places) = [k \in 1..n |-> seq[at[k]]]
  <2>1. DOMAIN at = 1..n
    BY <1>3
  <2> HIDE DEF at, n
  <2> QED BY <2>1 DEF AtPlaces, at
<1> HIDE DEF at, n
<1>5. \A k \in 1..n : at[k] \in places /\ seq[at[k]] \in X
  BY <1>3, ElementOfSeq
<1>6. [k \in 1..n |-> seq[at[k]]] \in Seq(X) /\ Len([k \in 1..n |-> seq[at[k]]]) = n
  BY <1>3, <1>5
<1> QED BY <1>1, <1>2, <1>3, <1>4, <1>5, <1>6 DEF at, n

\* An element after the others is kept after them or not at all.
LEMMA KeptOneMore ==
    ASSUME NEW X, NEW seq \in Seq(X), NEW x \in X, NEW S
    PROVE  Kept(Append(seq, x), S) = IF x \in S THEN Append(Kept(seq, S), x) ELSE Kept(seq, S)
<1> DEFINE long == Append(seq, x)
           n == Len(seq)
           m == n + 1
           P == {i \in DOMAIN seq : seq[i] \in S}
           Q == {i \in DOMAIN long : long[i] \in S}
<1>1. /\ n \in Nat /\ m \in Int /\ DOMAIN seq = 1..n
      /\ long \in Seq(X) /\ Len(long) = m /\ DOMAIN long = 1..m
      /\ (\A i \in 1..n : long[i] = seq[i]) /\ long[m] = x
  BY AppendProperties, LenProperties
<1>2. Q = IF x \in S THEN P \cup {m} ELSE P
  <2>1. 1..m = (1..n) \cup {m} /\ m \notin 1..n
    BY <1>1
  <2> HIDE DEF long, m
  <2> QED BY <1>1, <2>1
<1>3. P \in SUBSET (1..Len(seq)) /\ Q \in SUBSET (1..Len(long))
  BY <1>1
<1>4. /\ IsFiniteSet(P) /\ Cardinality(P) \in Nat /\ P \in SUBSET Int
      /\ DOMAIN Ascending(P) = 1..Cardinality(P)
      /\ AtPlaces(seq, P) \in Seq(X) /\ Len(AtPlaces(seq, P)) = Cardinality(P)
      /\ \A k \in 1..Cardinality(P) :
            Ascending(P)[k] \in P /\ AtPlaces(seq, P)[k] = seq[Ascending(P)[k]]
  <2> HIDE DEF P
  <2> QED BY <1>3, PlacesIs
<1>5. /\ AtPlaces(long, Q) \in Seq(X) /\ Len(AtPlaces(long, Q)) = Cardinality(Q)
      /\ \A k \in 1..Cardinality(Q) : AtPlaces(long, Q)[k] = long[Ascending(Q)[k]]
  <2> HIDE DEF Q, long
  <2> QED BY <1>1, <1>3, PlacesIs
<1>6. Kept(seq, S) = AtPlaces(seq, P) /\ Kept(long, S) = AtPlaces(long, Q)
  BY DEF Kept
<1>7. \A i \in P : i \in 1..n /\ i < m /\ long[i] = seq[i]
  BY <1>1
<1> HIDE DEF P, Q, long, m
<1>8. CASE x \in S
  <2>1. Q = P \cup {m}
    BY <1>2, <1>8
  <2>2. /\ Cardinality(Q) = Cardinality(P) + 1
        /\ \A k \in 1..Cardinality(P) : Ascending(Q)[k] = Ascending(P)[k]
        /\ Ascending(Q)[Cardinality(P) + 1] = m
    BY <1>1, <1>4, <1>7, <2>1, AscendingOneMore
  <2> DEFINE p == AtPlaces(seq, P)
             c == Cardinality(P)
  <2>3. /\ Append(p, x) \in Seq(X) /\ Len(Append(p, x)) = c + 1
        /\ (\A k \in 1..c : Append(p, x)[k] = p[k]) /\ Append(p, x)[c + 1] = x
    BY <1>4, AppendProperties
  <2>4. ASSUME NEW k \in 1..(c + 1)
        PROVE  AtPlaces(long, Q)[k] = Append(p, x)[k]
    <3>1. AtPlaces(long, Q)[k] = long[Ascending(Q)[k]]
      BY <1>5, <2>2
    <3>2. CASE k \in 1..c
      <4>1. Ascending(Q)[k] = Ascending(P)[k] /\ Ascending(P)[k] \in P
        BY <1>4, <2>2, <3>2
      <4>2. long[Ascending(P)[k]] = seq[Ascending(P)[k]]
        BY <1>7, <4>1
      <4>3. Append(p, x)[k] = seq[Ascending(P)[k]]
        BY <1>4, <2>3, <3>2
      <4> QED BY <3>1, <4>1, <4>2, <4>3
    <3>3. CASE k = c + 1
      BY <1>1, <2>2, <2>3, <3>1, <3>3
    <3>4. k \in 1..c \/ k = c + 1
      BY <1>4
    <3> QED BY <3>2, <3>3, <3>4
  <2> HIDE DEF p, c
  <2>5. Len(AtPlaces(long, Q)) = c + 1 /\ c \in Nat
    BY <1>4, <1>5, <2>2 DEF c
  <2>6. AtPlaces(long, Q) = Append(p, x)
    BY <1>5, <2>3, <2>4, <2>5, SeqEqual
  <2> QED BY <1>6, <1>8, <2>6 DEF p, long
<1>9. CASE x \notin S
  <2>1. Q = P
    BY <1>2, <1>9
  <2>2. ASSUME NEW k \in 1..Cardinality(P)
        PROVE  AtPlaces(long, Q)[k] = AtPlaces(seq, P)[k]
    BY <1>4, <1>5, <1>7, <2>1
  <2>3. AtPlaces(long, Q) = AtPlaces(seq, P)
    BY <1>4, <1>5, <2>1, <2>2, SeqEqual
  <2> QED BY <1>6, <1>9, <2>3 DEF long
<1> QED BY <1>8, <1>9

\* Nothing is kept of nothing.
LEMMA KeptOfEmpty ==
    ASSUME NEW S
    PROVE  Kept(<<>>, S) = <<>>
<1> DEFINE e == <<>>
           X == {}
           P == {i \in DOMAIN e : e[i] \in S}
<1>1. e \in Seq(X) /\ Len(e) = 0 /\ P = {}
  OBVIOUS
<1>2. P \in SUBSET (1..Len(e)) /\ Cardinality(P) = 0
  BY <1>1, FS_EmptySet
<1> HIDE DEF e, X, P
<1>3. AtPlaces(e, P) \in Seq(X) /\ Len(AtPlaces(e, P)) = 0
  BY <1>1, <1>2, PlacesIs
<1>4. AtPlaces(e, P) = <<>>
  BY <1>3, EmptySeq
<1> QED BY <1>4 DEF Kept, e, P

\* What is kept is of the sequence, and in the set.
LEMMA KeptIsIn ==
    ASSUME NEW X, NEW seq \in Seq(X), NEW S
    PROVE  Kept(seq, S) \in Seq(X)
<1> DEFINE P == {i \in DOMAIN seq : seq[i] \in S}
<1>1. P \in SUBSET (1..Len(seq))
  BY LenProperties
<1> HIDE DEF P
<1>2. AtPlaces(seq, P) \in Seq(X)
  BY <1>1, PlacesIs
<1> QED BY <1>2 DEF Kept, P

\* What is kept of two sequences, one after the other.
LEMMA KeptOfBoth ==
    ASSUME NEW X, NEW s \in Seq(X), NEW t \in Seq(X), NEW S
    PROVE  Kept(s \o t, S) = Kept(s, S) \o Kept(t, S)
<1> DEFINE T == {u \in Seq(X) : Kept(s \o u, S) = Kept(s, S) \o Kept(u, S)}
<1>1. <<>> \in T
  <2>1. <<>> \in Seq(X) /\ s \o <<>> = s /\ Kept(s, S) \o <<>> = Kept(s, S)
    BY KeptIsIn, ConcatEmptySeq
  <2> QED BY <2>1, KeptOfEmpty
<1>2. ASSUME NEW u \in Seq(X), NEW x \in X, u \in T
      PROVE  Append(u, x) \in T
  <2>1. Append(u, x) \in Seq(X) /\ Append(u, x) = u \o <<x>> /\ <<x>> \in Seq(X)
    BY AppendProperties, AppendIsConcat
  <2>2. s \o u \in Seq(X) /\ s \o Append(u, x) = Append(s \o u, x)
    <3>1. s \o u \in Seq(X)
      BY ConcatProperties
    <3>2. s \o (u \o <<x>>) = (s \o u) \o <<x>>
      BY <2>1, ConcatAssociative
    <3>3. (s \o u) \o <<x>> = Append(s \o u, x)
      BY <3>1, AppendIsConcat
    <3> QED BY <2>1, <3>1, <3>2, <3>3
  <2> DEFINE a == Kept(s, S)
             b == Kept(u, S)
  <2>3. a \in Seq(X) /\ b \in Seq(X) /\ Kept(s \o u, S) = a \o b
    BY <1>2, KeptIsIn
  <2>4. Kept(Append(u, x), S) = (IF x \in S THEN Append(b, x) ELSE b)
    BY KeptOneMore
  <2>5. Kept(Append(s \o u, x), S) = (IF x \in S THEN Append(a \o b, x) ELSE a \o b)
    <3> DEFINE w == s \o u
    <3>1. w \in Seq(X) /\ Kept(w, S) = a \o b
      BY <2>2, <2>3
    <3> HIDE DEF w, a, b
    <3>2. Kept(Append(w, x), S) = IF x \in S THEN Append(Kept(w, S), x) ELSE Kept(w, S)
      BY <3>1, KeptOneMore
    <3> QED BY <3>1, <3>2 DEF w
  <2> HIDE DEF a, b
  <2>6. a \o Append(b, x) = Append(a \o b, x)
    <3>1. a \o b \in Seq(X) /\ Append(b, x) = b \o <<x>> /\ Append(a \o b, x) = (a \o b) \o <<x>>
      BY <2>3, ConcatProperties, AppendIsConcat
    <3> QED BY <2>1, <2>3, <3>1, ConcatAssociative
  <2>7. Kept(s \o Append(u, x), S) = a \o Kept(Append(u, x), S)
    BY <2>2, <2>4, <2>5, <2>6
  <2> QED BY <2>1, <2>7 DEF a
<1>3. t \in T
  <2> HIDE DEF T
  <2>1. Seq(X) \subseteq T
    BY <1>1, <1>2, SequenceInduction
  <2> QED BY <2>1
<1> QED BY <1>3

\* Keeping less of what was kept.
LEMMA KeptOfKept ==
    ASSUME NEW X, NEW s \in Seq(X), NEW R, NEW S, X \cap S \subseteq R
    PROVE  Kept(Kept(s, R), S) = Kept(s, S)
<1> DEFINE T == {u \in Seq(X) : Kept(Kept(u, R), S) = Kept(u, S)}
<1>1. <<>> \in T
  BY KeptOfEmpty
<1>2. ASSUME NEW u \in Seq(X), NEW x \in X, u \in T
      PROVE  Append(u, x) \in T
  <2>1. Append(u, x) \in Seq(X) /\ Kept(u, R) \in Seq(X)
    BY AppendProperties, KeptIsIn
  <2>2. /\ Kept(Append(u, x), R) = IF x \in R THEN Append(Kept(u, R), x) ELSE Kept(u, R)
        /\ Kept(Append(u, x), S) = IF x \in S THEN Append(Kept(u, S), x) ELSE Kept(u, S)
    BY KeptOneMore
  <2>3. Kept(Append(Kept(u, R), x), S)
          = IF x \in S THEN Append(Kept(Kept(u, R), S), x) ELSE Kept(Kept(u, R), S)
    BY <2>1, KeptOneMore
  <2>4. Kept(Kept(u, R), S) = Kept(u, S)
    BY <1>2
  <2>5. x \in S => x \in R
    OBVIOUS
  <2>6. Kept(Kept(Append(u, x), R), S) = Kept(Append(u, x), S)
    BY <2>2, <2>3, <2>4, <2>5
  <2> QED BY <2>1, <2>6
<1>3. s \in T
  <2> HIDE DEF T
  <2>1. Seq(X) \subseteq T
    BY <1>1, <1>2, SequenceInduction
  <2> QED BY <2>1
<1> QED BY <1>3

\* Of a sequence without any, nothing.
LEMMA KeptOfNone ==
    ASSUME NEW X, NEW s \in Seq(X), NEW S, \A i \in 1..Len(s) : s[i] \notin S
    PROVE  Kept(s, S) = <<>>
<1> DEFINE P == {i \in DOMAIN s : s[i] \in S}
<1>1. P = {} /\ {} \in SUBSET (1..Len(s)) /\ Cardinality({}) = 0
  BY LenProperties, FS_EmptySet
<1>2. AtPlaces(s, {}) \in Seq(X) /\ Len(AtPlaces(s, {})) = 0
  BY <1>1, PlacesIs
<1>3. AtPlaces(s, {}) = <<>>
  BY <1>2, EmptySeq
<1> HIDE DEF P
<1> QED BY <1>1, <1>3 DEF Kept, P

-----------------------------------------------------------------------------
(* Sequences of sequences. *)

\* Sequences one after another, as far as the last of them.
LEMMA FlattenIs ==
    ASSUME NEW S, NEW seqs \in Seq(Seq(S)), NEW sofar \in [0..Len(seqs) -> Seq(S)],
           sofar[0] = <<>>,
           \A i \in 1..Len(seqs) : sofar[i] = sofar[i - 1] \o seqs[i]
    PROVE  FlattenSeq(seqs) = sofar[Len(seqs)]
<1> DEFINE n == Len(seqs)
           Flattens(s) == s = [i \in 1..n |-> IF i = 1 THEN seqs[i] ELSE s[i - 1] \o seqs[i]]
           g == [i \in 1..n |-> sofar[i]]
           rank == [i \in 1..n |-> i]
           c == CHOOSE s : Flattens(s)
           T == {i \in 1..n : c[i] = sofar[i]}
<1>1. n \in Nat /\ \A i \in 1..n : seqs[i] \in Seq(S)
  OBVIOUS
<1>2. CASE n = 0
  BY <1>1, <1>2 DEF FlattenSeq
<1>3. CASE n # 0
  <2>1. sofar[1] = seqs[1]
    <3>1. 1 \in 1..n
      BY <1>1, <1>3
    <3>2. sofar[1] = sofar[1 - 1] \o seqs[1]
      BY <3>1
    <3>3. sofar[1] = <<>> \o seqs[1] /\ seqs[1] \in Seq(S)
      BY <1>1, <3>1, <3>2
    <3> QED BY <3>3, ConcatEmptySeq
  <2>2. \A i \in 1..n : i # 1 => i - 1 \in 1..n
    BY <1>1
  <2>3. Flattens(g)
    <3>1. ASSUME NEW i \in 1..n
          PROVE  g[i] = IF i = 1 THEN seqs[i] ELSE g[i - 1] \o seqs[i]
      BY <2>1, <2>2
    <3> HIDE DEF n
    <3> QED BY <3>1
  <2>4. Flattens(c)
    <3> HIDE DEF Flattens
    <3> QED BY <2>3
  <2> HIDE DEF c
  <2>5. ASSUME NEW i \in 1..n, \A j \in 1..n : rank[j] < rank[i] => j \in T
        PROVE  i \in T
    <3>1. c[i] = IF i = 1 THEN seqs[i] ELSE c[i - 1] \o seqs[i]
      BY <2>4
    <3>2. CASE i = 1
      BY <2>1, <3>1, <3>2
    <3>3. CASE i # 1
      <4>1. i - 1 \in 1..n /\ rank[i - 1] < rank[i]
        BY <2>2, <3>3
      <4>2. i - 1 \in T
        BY <2>5, <4>1
      <4>3. c[i] = sofar[i - 1] \o seqs[i]
        BY <3>1, <3>3, <4>2
      <4> QED BY <4>3
    <3> QED BY <3>2, <3>3
  <2>6. 1..n \subseteq T
    <3> DEFINE D == 1..n
    <3>1. rank \in [D -> Nat]
      BY <1>1
    <3>2. \A i \in D : (\A j \in D : rank[j] < rank[i] => j \in T) => i \in T
      BY <2>5
    <3> HIDE DEF D, rank, T
    <3>3. D \subseteq T
      BY <3>1, <3>2, RankInduction
    <3> QED BY <3>3 DEF D
  <2>7. n \in 1..n
    BY <1>1, <1>3
  <2>8. FlattenSeq(seqs) = c[n]
    BY <1>3 DEF FlattenSeq, c
  <2> QED BY <2>6, <2>7, <2>8
<1> QED BY <1>2, <1>3

\* There is such a row of beginnings.
LEMMA BeginningsExist ==
    ASSUME NEW S, NEW seqs \in Seq(Seq(S))
    PROVE  \E sofar \in [0..Len(seqs) -> Seq(S)] :
              /\ sofar[0] = <<>>
              /\ \A i \in 1..Len(seqs) : sofar[i] = sofar[i - 1] \o seqs[i]
<1> DEFINE n == Len(seqs)
           D == 0..n
           V == Seq(S)
           leaves == {0}
           rank == [d \in D |-> d]
           base == [d \in D |-> <<>>]
           down == [d \in D |-> d - 1]
           step == [p \in D \X V |-> p[2] \o seqs[p[1]]]
<1>1. n \in Nat /\ \A i \in 1..n : seqs[i] \in V
  BY LenProperties, ElementOfSeq
<1>2. ASSUME NEW d \in D \ leaves
      PROVE  d \in 1..n /\ d - 1 \in D /\ down[d] = d - 1 /\ down[d] \in D /\ rank[down[d]] < rank[d]
  BY <1>1
<1>3. ASSUME NEW d \in D \ leaves, NEW v \in V
      PROVE  step[<<d, v>>] = v \o seqs[d] /\ step[<<d, v>>] \in V
  <2>1. <<d, v>> \in D \X V /\ seqs[d] \in V
    BY <1>1, <1>2
  <2>2. step[<<d, v>>] = v \o seqs[d]
    BY <2>1
  <2>3. v \o seqs[d] \in V
    BY <2>1, ConcatProperties
  <2> QED BY <2>2, <2>3
<1>4. PICK f \in [D -> V] : Computes(f, leaves, base, down, step)
  <2>1. rank \in [D -> Nat] /\ \A d \in D \cap leaves : base[d] \in V
    BY <1>1, EmptySeq
  <2>2. \A d \in D \ leaves : down[d] \in D /\ rank[down[d]] < rank[d]
    BY <1>2
  <2>3. \A d \in D \ leaves : \A v \in V : step[<<d, v>>] \in V
    BY <1>3
  <2> HIDE DEF D, V, leaves, rank, base, down, step
  <2> QED BY <2>1, <2>2, <2>3, RecursionExists
<1>5. f[0] = <<>>
  <2>1. 0 \in D /\ 0 \in leaves /\ base[0] = <<>>
    BY <1>1
  <2> HIDE DEF D, leaves, base, down, step
  <2> QED BY <1>4, <2>1 DEF Computes
<1>6. ASSUME NEW i \in 1..n
      PROVE  f[i] = f[i - 1] \o seqs[i]
  <2>1. i \in D \ leaves
    BY <1>1
  <2>2. f[i] = step[<<i, f[down[i]]>>]
    <3> HIDE DEF D, leaves, base, down, step
    <3> QED BY <1>4, <2>1 DEF Computes
  <2>3. down[i] = i - 1 /\ f[i - 1] \in V
    BY <1>2, <1>4, <2>1
  <2>4. step[<<i, f[i - 1]>>] = f[i - 1] \o seqs[i]
    BY <1>3, <2>1, <2>3
  <2> QED BY <2>2, <2>3, <2>4
<1> QED BY <1>4, <1>5, <1>6

\* One more sequence is put after the others.
LEMMA FlattenOneMore ==
    ASSUME NEW S, NEW seqs \in Seq(Seq(S)), NEW x \in Seq(S)
    PROVE  /\ FlattenSeq(seqs) \in Seq(S)
           /\ FlattenSeq(Append(seqs, x)) = FlattenSeq(seqs) \o x
<1> DEFINE long == Append(seqs, x)
           n == Len(seqs)
           m == n + 1
<1>1. /\ long \in Seq(Seq(S)) /\ Len(long) = m /\ n \in Nat
      /\ (\A i \in 1..n : long[i] = seqs[i]) /\ long[m] = x
  <2> DEFINE V == Seq(S)
  <2>1. seqs \in Seq(V) /\ x \in V
    OBVIOUS
  <2> HIDE DEF V
  <2>2. /\ long \in Seq(V) /\ Len(long) = m /\ n \in Nat
        /\ (\A i \in 1..n : long[i] = seqs[i]) /\ long[m] = x
    BY <2>1, AppendProperties, LenProperties
  <2> QED BY <2>2 DEF V
<1> HIDE DEF long
<1>2. PICK all \in [0..Len(long) -> Seq(S)] :
              /\ all[0] = <<>>
              /\ \A i \in 1..Len(long) : all[i] = all[i - 1] \o long[i]
  BY <1>1, BeginningsExist
<1>3. FlattenSeq(long) = all[m]
  BY <1>1, <1>2, FlattenIs
<1> DEFINE some == [i \in 0..n |-> all[i]]
<1>4. /\ some \in [0..Len(seqs) -> Seq(S)] /\ some[0] = <<>> /\ some[n] = all[n]
      /\ \A i \in 1..Len(seqs) : some[i] = some[i - 1] \o seqs[i]
  <2>1. \A i \in 0..n : i \in 0..Len(long) /\ some[i] = all[i]
    BY <1>1
  <2>2. ASSUME NEW i \in 1..n
        PROVE  some[i] = some[i - 1] \o seqs[i]
    <3>1. i \in 1..Len(long) /\ i \in 0..n /\ i - 1 \in 0..n /\ long[i] = seqs[i]
      BY <1>1
    <3> HIDE DEF some
    <3> QED BY <1>2, <2>1, <3>1
  <2>3. 0 \in 0..n /\ n \in 0..n
    BY <1>1
  <2> QED BY <1>2, <2>1, <2>2, <2>3
<1> HIDE DEF some
<1>5. FlattenSeq(seqs) = some[n]
  BY <1>4, FlattenIs
<1>6. all[m] = all[n] \o x /\ all[n] \in Seq(S)
  <2>1. m \in 1..Len(long) /\ m - 1 = n /\ n \in 0..Len(long)
    BY <1>1
  <2> QED BY <1>1, <1>2, <2>1
<1> QED BY <1>3, <1>4, <1>5, <1>6 DEF long
=============================================================================
