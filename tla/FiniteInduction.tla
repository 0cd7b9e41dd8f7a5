--------------------------- MODULE FiniteInduction ---------------------------
(***************************************************************************)
(* Induction over numbers and over the subsets of a finite set, stated for  *)
(* a set instead of a predicate, and what follows for sums and folds.       *)
(***************************************************************************)
EXTENDS Integers, Lists, FiniteSetTheorems, WellFoundedInduction, TLAPS

\* The order of the numbers as a relation.
LessThan == {ss \in Nat \X Nat : ss[1] < ss[2]}

\* Every set of numbers that is not empty has a least one.
LEMMA LeastNumber ==
  ASSUME NEW T \in SUBSET Nat, T # {}
  PROVE  \E m \in T : \A k \in T : m <= k
<1>1. IsWellFoundedOn(LessThan, Nat)  BY NatLessThanWellFounded DEF OpToRel, LessThan
<1>2. PICK m \in T : \A k \in T : ~(<<k, m>> \in LessThan)  BY <1>1, WFMin
<1>3. ASSUME NEW k \in T  PROVE m <= k
  <2>1. k < m => <<k, m>> \in LessThan  BY DEF LessThan
  <2> QED  BY <1>2, <2>1
<1> QED  BY <1>2, <1>3

\* A set of numbers up to n that is not empty has a largest one.
LEMMA LargestNumber ==
    ASSUME NEW n \in Nat, NEW S \in SUBSET (0..n), S # {}
    PROVE  \E m \in S : \A k \in S : k <= m
  <1> DEFINE T == {j \in Nat : n - j \in S}
  <1>1. T \subseteq Nat /\ T # {}
    <2>1. PICK k \in S : TRUE OBVIOUS
    <2>2. n - k \in Nat /\ n - (n - k) = k BY <2>1
    <2> QED  BY <2>1, <2>2
  <1>2. PICK j \in T : \A i \in T : j <= i BY <1>1, LeastNumber
  <1>3. n - j \in S /\ j \in Nat BY <1>2
  <1>4. ASSUME NEW k \in S PROVE k <= n - j
    <2>1. k \in 0..n /\ n - k \in Nat /\ n - (n - k) = k OBVIOUS
    <2>2. j <= n - k BY <1>2, <2>1
    <2> QED  BY <1>3, <2>1, <2>2
  <1> QED  BY <1>3, <1>4

\* Induction over the numbers, for a set instead of a predicate.
LEMMA Induction ==
  ASSUME NEW G, 0 \in G, \A n \in G : n + 1 \in G
  PROVE  \A n \in Nat : n \in G
<1> SUFFICES ASSUME NEW n \in Nat, n \notin G PROVE FALSE  OBVIOUS
<1>1. PICK m \in Nat \ G : \A k \in Nat \ G : m <= k  BY LeastNumber
<1>2. m # 0 /\ m - 1 \in Nat /\ m - 1 < m  OBVIOUS
<1>3. m - 1 \in G  BY <1>1, <1>2
<1>4. (m - 1) + 1 \in G  BY <1>3
<1> QED  BY <1>2, <1>4

\* Induction over the subsets of a finite set.
LEMMA SubsetInduction ==
  ASSUME NEW S, IsFiniteSet(S), NEW G,
         ASSUME NEW s \in SUBSET S, \A r \in SUBSET s : r # s => r \in G PROVE s \in G
  PROVE  \A s \in SUBSET S : s \in G
<1> SUFFICES ASSUME NEW q \in SUBSET S, q \notin G PROVE FALSE  OBVIOUS
<1> DEFINE Bad == {s \in SUBSET S : s \notin G}
           Sizes == {Cardinality(s) : s \in Bad}
<1>1. \A s \in SUBSET S : IsFiniteSet(s) /\ Cardinality(s) \in Nat  BY FS_Subset, FS_CardinalityType
<1>2. Sizes \in SUBSET Nat /\ Sizes # {}  BY <1>1
<1>3. PICK m \in Sizes : \A k \in Sizes : m <= k
  <2> HIDE DEF Sizes
  <2> QED  BY <1>2, LeastNumber
<1>4. PICK s \in Bad : m = Cardinality(s)  BY <1>3
<1>5. ASSUME NEW r \in SUBSET s, r # s PROVE r \in G
  <2>1. Cardinality(r) < Cardinality(s)  BY <1>1, <1>4, <1>5, FS_Subset, FS_CardinalityType
  <2>2. r \in SUBSET S  BY <1>4
  <2>3. Cardinality(r) \in Nat /\ Cardinality(s) \in Nat /\ ~(m <= Cardinality(r))  BY <1>1, <1>4, <2>1, <2>2
  <2>4. r \in Bad => Cardinality(r) \in Sizes  OBVIOUS
  <2> QED  BY <1>3, <2>2, <2>3, <2>4
<1> QED  BY <1>4, <1>5

-----------------------------------------------------------------------------
(* Sums over finite sets: SumFunctionOnSet of the community modules takes    *)
(* the terms in an order nobody chose                                       *)

\* The term a sum takes next, and what the function that sums f over subsets of S satisfies.
Pick(s) == CHOOSE x \in s : TRUE
SumsUp(g, f, S) == g = [s \in SUBSET S |-> IF s = {} THEN 0 ELSE f[Pick(s)] + g[s \ {Pick(s)}]]

\* f has numbers on S; f and e agree on T.
NatOn(f, S) == \A x \in S : f[x] \in Nat
SameOn(f, e, T) == \A x \in T : f[x] = e[x]

\* What the community modules' sum unfolds to.
LEMMA SumRec ==
  ASSUME NEW f, NEW S
  PROVE  SumFunctionOnSet(f, S) = (CHOOSE g : SumsUp(g, f, S))[S]
  BY DEF SumFunctionOnSet, FoldFunctionOnSet, MapThenFoldSet, Pick, SumsUp

\* The next term is one of the set.
LEMMA PickIn ==
  ASSUME NEW s, s # {}
  PROVE  Pick(s) \in s
  BY DEF Pick

\* There is such a function: by induction over the size of the subsets it is defined on.
LEMMA SumExists ==
  ASSUME NEW S, IsFiniteSet(S), NEW f
  PROVE  \E g : SumsUp(g, f, S)
<1> DEFINE Small(n) == {s \in SUBSET S : Cardinality(s) <= n}
           IsRec(g, n) == g = [s \in Small(n) |-> IF s = {} THEN 0 ELSE f[Pick(s)] + g[s \ {Pick(s)}]]
           G == {n \in Nat : \E g : IsRec(g, n)}
<1>1. \A s \in SUBSET S : IsFiniteSet(s) /\ Cardinality(s) \in Nat  BY FS_Subset, FS_CardinalityType
<1>2. \A s \in SUBSET S : s # {} => Cardinality(s \ {Pick(s)}) = Cardinality(s) - 1  BY <1>1, FS_RemoveElement, PickIn
<1>3. 0 \in G
  <2>1. Small(0) = {{}}  BY <1>1, FS_EmptySet
  <2>2. IsRec([s \in Small(0) |-> 0], 0)  BY <2>1
  <2> QED  BY <2>2
<1>4. ASSUME NEW n \in G PROVE n + 1 \in G
  <2>1. PICK g : IsRec(g, n)  OBVIOUS
  <2> DEFINE h == [s \in Small(n + 1) |-> IF s = {} THEN 0 ELSE f[Pick(s)] + g[s \ {Pick(s)}]]
  <2>2. ASSUME NEW s \in Small(n) PROVE h[s] = g[s] /\ s \in Small(n + 1)
    <3>1. s \in Small(n + 1)  BY <1>1
    <3> QED  BY <2>1, <3>1
  <2>3. ASSUME NEW s \in Small(n + 1), s # {} PROVE s \ {Pick(s)} \in Small(n)  BY <1>1, <1>2, <2>3
  <2>4. h = [s \in Small(n + 1) |-> IF s = {} THEN 0 ELSE f[Pick(s)] + h[s \ {Pick(s)}]]
    <3> HIDE DEF Small
    <3> QED  BY <2>2, <2>3
  <2>5. \E k : IsRec(k, n + 1)
    <3> HIDE DEF h, Small
    <3> QED  BY <2>4
  <2>6. n + 1 \in Nat  OBVIOUS
  <2> QED  BY <2>5, <2>6
<1>5. \A n \in Nat : n \in G
  <2> HIDE DEF G
  <2> QED  BY <1>3, <1>4, Induction
<1>6. PICK g : IsRec(g, Cardinality(S))  BY <1>1, <1>5
<1>7. Small(Cardinality(S)) = SUBSET S  BY <1>1, FS_Subset
<1> QED  BY <1>6, <1>7 DEF SumsUp

\* Whichever term is taken first, the sum is the same.
LEMMA AnyFirst ==
  ASSUME NEW S, IsFiniteSet(S), NEW f, NatOn(f, S), NEW g, SumsUp(g, f, S)
  PROVE  \A s \in SUBSET S : g[s] \in Nat /\ (s = {} => g[s] = 0) /\ \A x \in s : g[s] = f[x] + g[s \ {x}]
<1> DEFINE G == {s \in SUBSET S : g[s] \in Nat /\ (s = {} => g[s] = 0) /\ \A x \in s : g[s] = f[x] + g[s \ {x}]}
<1>1. \A s \in SUBSET S : g[s] = IF s = {} THEN 0 ELSE f[Pick(s)] + g[s \ {Pick(s)}]  BY DEF SumsUp
<1>2. ASSUME NEW s \in SUBSET S, \A r \in SUBSET s : r # s => r \in G PROVE s \in G
  <2>1. CASE s = {}
    <3>1. g[s] = 0  BY <1>1, <2>1
    <3> QED  BY <2>1, <3>1
  <2>2. CASE s # {}
    <3> DEFINE p == Pick(s)
    <3>1. p \in s /\ f[p] \in Nat  BY <2>2, PickIn DEF NatOn
    <3>2. s \ {p} \in G /\ s \ {p} \in SUBSET S  BY <1>2, <3>1
    <3>3. g[s] = f[p] + g[s \ {p}]  BY <1>1, <2>2
    <3> HIDE DEF p
    <3>4. ASSUME NEW x \in s, x # p PROVE g[s] = f[x] + g[s \ {x}]
      <4>1. s \ {x} \in G /\ p \in s \ {x} /\ x \in s \ {p}  BY <1>2, <3>1, <3>4
      <4>2. g[s \ {p}] = f[x] + g[(s \ {p}) \ {x}]  BY <3>2, <4>1
      <4>3. g[s \ {x}] = f[p] + g[(s \ {x}) \ {p}]  BY <4>1
      <4>4. (s \ {p}) \ {x} = (s \ {x}) \ {p}  OBVIOUS
      <4>5. (s \ {p}) \ {x} \in G  BY <1>2, <3>1
      <4>6. g[(s \ {p}) \ {x}] \in Nat  BY <4>5
      <4>7. f[x] \in Nat  BY DEF NatOn
      <4>8. g[s] = f[p] + (f[x] + g[(s \ {p}) \ {x}])  BY <3>3, <4>2
      <4>9. f[x] + g[s \ {x}] = f[x] + (f[p] + g[(s \ {p}) \ {x}])  BY <4>3, <4>4
      <4> DEFINE a == f[p]
                 b == f[x]
                 c == g[(s \ {p}) \ {x}]
      <4>10. a \in Nat /\ b \in Nat /\ c \in Nat  BY <3>1, <4>6, <4>7
      <4> HIDE DEF a, b, c
      <4>11. a + (b + c) = b + (a + c)  BY <4>10
      <4> QED  BY <4>8, <4>9, <4>11 DEF a, b, c
    <3>5. g[s] \in Nat  BY <3>1, <3>2, <3>3
    <3>6. \A x \in s : g[s] = f[x] + g[s \ {x}]  BY <3>3, <3>4
    <3> QED  BY <2>2, <3>5, <3>6
  <2> QED  BY <2>1, <2>2
<1>3. \A s \in SUBSET S : s \in G
  <2> HIDE DEF G
  <2> QED  BY <1>2, SubsetInduction
<1> QED  BY <1>3

\* Two functions that agree on T have the same sum over each subset of T.
LEMMA SameRest ==
  ASSUME NEW S, IsFiniteSet(S), NEW f, NEW e, NEW T \in SUBSET S, SameOn(f, e, T),
         NEW g, SumsUp(g, f, S), NEW h, SumsUp(h, e, S)
  PROVE  \A s \in SUBSET T : g[s] = h[s]
<1> DEFINE G == {s \in SUBSET T : g[s] = h[s]}
<1>1. IsFiniteSet(T)  BY FS_Subset
<1>2. \A s \in SUBSET S : /\ g[s] = IF s = {} THEN 0 ELSE f[Pick(s)] + g[s \ {Pick(s)}]
                          /\ h[s] = IF s = {} THEN 0 ELSE e[Pick(s)] + h[s \ {Pick(s)}]
  BY DEF SumsUp
<1>3. ASSUME NEW s \in SUBSET T, \A r \in SUBSET s : r # s => r \in G PROVE s \in G
  <2>1. CASE s = {}  BY <1>2, <2>1
  <2>2. CASE s # {}
    <3>1. Pick(s) \in s  BY <2>2, PickIn
    <3>2. g[s \ {Pick(s)}] = h[s \ {Pick(s)}]  BY <1>3, <3>1
    <3> QED  BY <1>2, <2>2, <3>1, <3>2 DEF SameOn
  <2> QED  BY <2>1, <2>2
<1>4. \A s \in SUBSET T : s \in G
  <2> HIDE DEF G
  <2> QED  BY <1>1, <1>3, SubsetInduction
<1> QED  BY <1>4

\* The sum over S is that function's value at S.
LEMMA SumIs ==
  ASSUME NEW S, IsFiniteSet(S), NEW f
  PROVE  \E g : SumsUp(g, f, S) /\ SumFunctionOnSet(f, S) = g[S]
  BY SumExists, SumRec

\* A sum of numbers is a number, and at least each of its terms.
LEMMA SumOfTerms ==
  ASSUME NEW S, IsFiniteSet(S), NEW f, NatOn(f, S)
  PROVE  /\ SumFunctionOnSet(f, S) \in Nat
         /\ \A x \in S : f[x] <= SumFunctionOnSet(f, S)
<1>1. PICK g : SumsUp(g, f, S) /\ SumFunctionOnSet(f, S) = g[S]  BY SumIs
<1>0. SumsUp(g, f, S)  BY <1>1
<1>2. \A s \in SUBSET S : g[s] \in Nat /\ (s = {} => g[s] = 0) /\ \A x \in s : g[s] = f[x] + g[s \ {x}]
  <2>1. NatOn(f, S)  BY DEF NatOn
  <2>2. SumsUp(g, f, S)  BY <1>0
  <2> QED  BY <2>1, <2>2, AnyFirst
<1> HIDE DEF SumsUp
<1>3. S \in SUBSET S /\ \A x \in S : S \ {x} \in SUBSET S  OBVIOUS
<1>4. g[S] \in Nat /\ \A x \in S : g[S] = f[x] + g[S \ {x}] /\ g[S \ {x}] \in Nat  BY <1>2, <1>3
<1>5. ASSUME NEW x \in S PROVE f[x] <= g[S]
  <2>1. f[x] \in Nat  BY DEF NatOn
  <2>2. g[S \ {x}] \in Nat /\ g[S] = f[x] + g[S \ {x}]  BY <1>4
  <2> QED  BY <2>1, <2>2
<1> QED  BY <1>1, <1>4, <1>5

\* The sum depends on the terms only.
LEMMA SumSame ==
  ASSUME NEW S, IsFiniteSet(S), NEW f, NEW e, SameOn(f, e, S)
  PROVE  SumFunctionOnSet(f, S) = SumFunctionOnSet(e, S)
<1>1. PICK g : SumsUp(g, f, S) /\ SumFunctionOnSet(f, S) = g[S]  BY SumIs
<1>2. PICK h : SumsUp(h, e, S) /\ SumFunctionOnSet(e, S) = h[S]  BY SumIs
<1>3. \A s \in SUBSET S : g[s] = h[s]  BY <1>1, <1>2, SameRest
<1> QED  BY <1>1, <1>2, <1>3

\* A sum of zeros is zero.
LEMMA SumZero ==
  ASSUME NEW S, IsFiniteSet(S), NEW f, \A x \in S : f[x] = 0
  PROVE  SumFunctionOnSet(f, S) = 0
<1>1. PICK g : SumsUp(g, f, S) /\ SumFunctionOnSet(f, S) = g[S]  BY SumIs
<1>2. \A s \in SUBSET S : g[s] \in Nat /\ (s = {} => g[s] = 0) /\ \A x \in s : g[s] = f[x] + g[s \ {x}]
  <2>1. NatOn(f, S)  BY DEF NatOn
  <2>2. SumsUp(g, f, S)  BY <1>1
  <2> QED  BY <2>1, <2>2, AnyFirst
<1> DEFINE G == {s \in SUBSET S : g[s] = 0}
<1>3. ASSUME NEW s \in SUBSET S, \A r \in SUBSET s : r # s => r \in G PROVE s \in G
  <2>1. CASE s = {}  BY <1>2, <2>1
  <2>2. CASE s # {}
    <3>1. PICK x \in s : TRUE  BY <2>2
    <3>2. g[s \ {x}] = 0  BY <1>3, <3>1
    <3>3. g[s] = f[x] + g[s \ {x}] /\ f[x] = 0  BY <1>2, <3>1
    <3> QED  BY <3>2, <3>3
  <2> QED  BY <2>1, <2>2
<1>4. \A s \in SUBSET S : s \in G
  <2> HIDE DEF G
  <2> QED  BY <1>3, SubsetInduction
<1> QED  BY <1>1, <1>4

\* When one term changes, the sum changes by as much.
LEMMA SumChange ==
  ASSUME NEW S, IsFiniteSet(S), NEW f, NEW e, NatOn(f, S), NatOn(e, S),
         NEW y \in S, SameOn(f, e, S \ {y})
  PROVE  SumFunctionOnSet(e, S) = SumFunctionOnSet(f, S) + e[y] - f[y]
<1>1. PICK g : SumsUp(g, f, S) /\ SumFunctionOnSet(f, S) = g[S]  BY SumIs
<1>2. PICK h : SumsUp(h, e, S) /\ SumFunctionOnSet(e, S) = h[S]  BY SumIs
<1>3. \A s \in SUBSET (S \ {y}) : g[s] = h[s]
  <2>1. S \ {y} \in SUBSET S  OBVIOUS
  <2>2. SumsUp(g, f, S) /\ SumsUp(h, e, S)  BY <1>1, <1>2
  <2> QED  BY <2>1, <2>2, SameRest
<1>4. g[S \ {y}] = h[S \ {y}]  BY <1>3
<1>5. g[S] = f[y] + g[S \ {y}] /\ g[S \ {y}] \in Nat
  <2>1. \A s \in SUBSET S : g[s] \in Nat /\ (s = {} => g[s] = 0) /\ \A x \in s : g[s] = f[x] + g[s \ {x}]
    <3>1. NatOn(f, S)  BY DEF NatOn
    <3>2. SumsUp(g, f, S)  BY <1>1
    <3> QED  BY <3>1, <3>2, AnyFirst
  <2>2. S \in SUBSET S /\ S \ {y} \in SUBSET S  OBVIOUS
  <2> QED  BY <2>1, <2>2
<1>6. h[S] = e[y] + h[S \ {y}]
  <2>1. \A s \in SUBSET S : h[s] \in Nat /\ (s = {} => h[s] = 0) /\ \A x \in s : h[s] = e[x] + h[s \ {x}]
    <3>1. NatOn(e, S)  BY DEF NatOn
    <3>2. SumsUp(h, e, S)  BY <1>2
    <3> QED  BY <3>1, <3>2, AnyFirst
  <2>2. S \in SUBSET S  OBVIOUS
  <2> QED  BY <2>1, <2>2
<1>7. f[y] \in Nat /\ e[y] \in Nat  BY DEF NatOn
<1>8. h[S] = g[S] + e[y] - f[y]  BY <1>4, <1>5, <1>6, <1>7
<1> QED  BY <1>1, <1>2, <1>8

-----------------------------------------------------------------------------
(* Folds over sequences: FoldLeft of the community modules goes from set to  *)
(* set of places, the largest place last                                     *)

\* Max is the largest number of a set of places.
LEMMA MaxOfPlaces ==
  ASSUME NEW n \in Nat, NEW s \in SUBSET (1..n), s # {}
  PROVE  Max(s) \in s /\ \A k \in s : Max(s) >= k
<1>1. s \in SUBSET (0..n)  OBVIOUS
<1>2. PICK m \in s : \A k \in s : k <= m  BY <1>1, LargestNumber
<1>3. \A k \in s : m >= k  BY <1>2
<1> QED  BY <1>3 DEF Max

\* What the function that folds over sets of places satisfies; step has pairs of
\* what was folded so far and a place.
FoldsBy(g, base, step, n) ==
    g = [s \in SUBSET (1..n) |-> IF s = {} THEN base ELSE step[<<g[s \ {Max(s)}], Max(s)>>]]

\* There is such a function: by induction over the size of the sets it is defined on.
LEMMA FoldExists ==
  ASSUME NEW n \in Nat, NEW V, NEW base \in V, NEW step \in [V \X (1..n) -> V]
  PROVE  \E g \in [SUBSET (1..n) -> V] : FoldsBy(g, base, step, n)
<1> DEFINE Small(k) == {s \in SUBSET (1..n) : Cardinality(s) <= k}
           IsRec(g, k) == g = [s \in Small(k) |-> IF s = {} THEN base ELSE step[<<g[s \ {Max(s)}], Max(s)>>]]
           G == {k \in Nat : \E g \in [Small(k) -> V] : IsRec(g, k)}
<1>0. IsFiniteSet(1..n)  BY FS_Interval
<1>1. \A s \in SUBSET (1..n) : IsFiniteSet(s) /\ Cardinality(s) \in Nat  BY <1>0, FS_Subset, FS_CardinalityType
<1>2. \A s \in SUBSET (1..n) : s # {} => Max(s) \in s /\ Cardinality(s \ {Max(s)}) = Cardinality(s) - 1
  BY <1>1, FS_RemoveElement, MaxOfPlaces
<1>3. 0 \in G
  <2>1. Small(0) = {{}}  BY <1>1, FS_EmptySet
  <2>2. [s \in Small(0) |-> base] \in [Small(0) -> V] /\ IsRec([s \in Small(0) |-> base], 0)  BY <2>1
  <2> QED  BY <2>2
<1>4. ASSUME NEW k \in G PROVE k + 1 \in G
  <2>1. PICK g \in [Small(k) -> V] : IsRec(g, k)  OBVIOUS
  <2> DEFINE h == [s \in Small(k + 1) |-> IF s = {} THEN base ELSE step[<<g[s \ {Max(s)}], Max(s)>>]]
  <2>2. ASSUME NEW s \in Small(k) PROVE h[s] = g[s] /\ s \in Small(k + 1)
    <3>1. s \in Small(k + 1)  BY <1>1
    <3> QED  BY <2>1, <3>1
  <2>3. ASSUME NEW s \in Small(k + 1), s # {} PROVE s \ {Max(s)} \in Small(k) /\ Max(s) \in 1..n
    <3>1. Cardinality(s \ {Max(s)}) = Cardinality(s) - 1 /\ s \ {Max(s)} \in SUBSET (1..n) /\ Max(s) \in s  BY <1>2, <2>3
    <3>2. Cardinality(s) \in Nat /\ Cardinality(s) <= k + 1 /\ k \in Nat  BY <1>1
    <3>3. Cardinality(s \ {Max(s)}) <= k  BY <3>1, <3>2
    <3>4. Max(s) \in 1..n  BY <3>1
    <3> QED  BY <3>1, <3>3, <3>4
  <2>4. h = [s \in Small(k + 1) |-> IF s = {} THEN base ELSE step[<<h[s \ {Max(s)}], Max(s)>>]]
    <3> HIDE DEF Small
    <3> QED  BY <2>2, <2>3
  <2>5. h \in [Small(k + 1) -> V]
    <3> HIDE DEF Small
    <3>1. ASSUME NEW s \in Small(k + 1), s # {} PROVE step[<<g[s \ {Max(s)}], Max(s)>>] \in V
      <4>1. g[s \ {Max(s)}] \in V /\ Max(s) \in 1..n  BY <2>1, <2>3, <3>1
      <4> QED  BY <4>1
    <3> QED  BY <3>1
  <2>6. \E f \in [Small(k + 1) -> V] : IsRec(f, k + 1)
    <3> HIDE DEF h, Small
    <3> QED  BY <2>4, <2>5
  <2>7. k + 1 \in Nat  OBVIOUS
  <2> QED  BY <2>6, <2>7
<1>5. \A k \in Nat : k \in G
  <2> HIDE DEF G
  <2> QED  BY <1>3, <1>4, Induction
<1>6. Cardinality(1..n) \in Nat  BY <1>1
<1>7. PICK g \in [Small(Cardinality(1..n)) -> V] : IsRec(g, Cardinality(1..n))  BY <1>5, <1>6
<1>8. Small(Cardinality(1..n)) = SUBSET (1..n)  BY <1>0, <1>1, FS_Subset
<1> QED  BY <1>7, <1>8 DEF FoldsBy

\* The first k + 1 places are the first k and the largest.
LEMMA FirstPlaces ==
  ASSUME NEW n \in Nat, NEW k \in 0..(n - 1)
  PROVE  /\ Max(1..(k + 1)) = k + 1 /\ (1..(k + 1)) \ {k + 1} = 1..k
         /\ 1..(k + 1) \in SUBSET (1..n) /\ 1..(k + 1) # {} /\ 1..0 = {} /\ k + 1 \in 1..n
<1>1. k + 1 \in 1..(k + 1) /\ k + 1 \in 1..n /\ 1..(k + 1) \in SUBSET (1..n) /\ 1..0 = {}  OBVIOUS
<1>2. (1..(k + 1)) \ {k + 1} = 1..k  OBVIOUS
<1>3. Max(1..(k + 1)) \in 1..(k + 1) /\ \A j \in 1..(k + 1) : Max(1..(k + 1)) >= j  BY <1>1, MaxOfPlaces
<1>4. Max(1..(k + 1)) = k + 1
  <2> DEFINE m == Max(1..(k + 1))
  <2>1. m \in 1..(k + 1) /\ m >= k + 1  BY <1>1, <1>3
  <2> HIDE DEF m
  <2>2. m = k + 1  BY <2>1
  <2> QED  BY <2>2 DEF m
<1> QED  BY <1>1, <1>2, <1>4

\* What the function that a fold chose satisfies, where step has pairs of a value of V and a place.
Follows(c, base, step, V, n) ==
    /\ n \in Nat /\ base \in V /\ step \in [V \X (1..n) -> V]
    /\ \A s \in SUBSET (1..n) :
          /\ s = {} => c[s] = base
          /\ s # {} /\ c[s \ {Max(s)}] \in V => c[s] = step[<<c[s \ {Max(s)}], Max(s)>>]
\* Its values at the first places, from the base to the last.
GoesAlong(c, base, step, V, n) ==
    \E h \in [0..n -> V] : h[0] = base /\ h[n] = c[1..n] /\ \A k \in 0..(n - 1) : h[k + 1] = step[<<h[k], k + 1>>]

\* The values that a fold goes through, one for each number of members taken.
LEMMA FoldsAlong ==
  ASSUME NEW n, NEW V, NEW base, NEW step, NEW c, Follows(c, base, step, V, n)
  PROVE  GoesAlong(c, base, step, V, n)
<1>0. n \in Nat /\ base \in V /\ step \in [V \X (1..n) -> V]  BY DEF Follows
<1> DEFINE h == [k \in 0..n |-> c[1..k]]
           G == {k \in Nat : k <= n => h[k] \in V}
<1>1. 1..0 = {} /\ {} \in SUBSET (1..n) /\ 0 \in 0..n /\ n \in 0..n  BY <1>0
<1>2. h[0] = base /\ h[n] = c[1..n]  BY <1>1 DEF Follows
<1>3. ASSUME NEW k \in 0..(n - 1), h[k] \in V PROVE h[k + 1] = step[<<h[k], k + 1>>] /\ h[k + 1] \in V
  <2>1. /\ Max(1..(k + 1)) = k + 1 /\ (1..(k + 1)) \ {k + 1} = 1..k
        /\ 1..(k + 1) \in SUBSET (1..n) /\ 1..(k + 1) # {} /\ k + 1 \in 1..n
    BY <1>0, FirstPlaces
  <2>2. k \in 0..n /\ k + 1 \in 0..n  BY <1>0
  <2>3. c[1..k] \in V  BY <1>3, <2>2
  <2>4. c[1..(k + 1)] = step[<<c[1..k], k + 1>>]  BY <2>1, <2>3 DEF Follows
  <2>5. step[<<c[1..k], k + 1>>] \in V  BY <1>0, <2>1, <2>3
  <2> QED  BY <2>2, <2>4, <2>5
<1> HIDE DEF h
<1>4. 0 \in G  BY <1>0, <1>2
<1>5. ASSUME NEW k \in G PROVE k + 1 \in G
  <2>1. SUFFICES ASSUME k + 1 <= n PROVE h[k + 1] \in V  OBVIOUS
  <2>2. k \in 0..(n - 1) /\ h[k] \in V  BY <1>0, <2>1
  <2> QED  BY <1>3, <2>2
<1>6. \A k \in Nat : k \in G
  <2> HIDE DEF G
  <2> QED  BY <1>4, <1>5, Induction
<1>7. \A k \in 0..n : h[k] \in V  BY <1>6
<1>8. h \in [0..n -> V]  BY <1>7 DEF h
<1>9. \A k \in 0..(n - 1) : h[k + 1] = step[<<h[k], k + 1>>]
  <2>1. \A k \in 0..(n - 1) : k \in 0..n  BY <1>0
  <2> QED  BY <1>3, <1>7, <2>1
<1> QED  BY <1>2, <1>8, <1>9 DEF GoesAlong

-----------------------------------------------------------------------------
(* The lists of Lists, step by step and as a whole                           *)

\* Those takes the members one after the other: h has what it kept of the first ones.
TakesThose(h, list, S, T) ==
    /\ h \in [0..Len(list) -> Seq(T)] /\ h[0] = <<>> /\ h[Len(list)] = Those(list, S)
    /\ \A k \in 0..(Len(list) - 1) : h[k + 1] = IF list[k + 1] \in S THEN Append(h[k], list[k + 1]) ELSE h[k]
\* There is such a history of Those.
LEMMA ThoseSteps ==
  ASSUME NEW T, NEW list \in Seq(T), NEW S
  PROVE  \E h : TakesThose(h, list, S, T)
<1> DEFINE n == Len(list)
           Folds(c) == c = [s \in SUBSET (1..n) |-> IF s = {} THEN <<>>
                              ELSE IF list[Max(s)] \in S THEN Append(c[s \ {Max(s)}], list[Max(s)]) ELSE c[s \ {Max(s)}]]
           step == [vi \in Seq(T) \X (1..n) |-> IF list[vi[2]] \in S THEN Append(vi[1], list[vi[2]]) ELSE vi[1]]
<1>1. n \in Nat /\ DOMAIN list = 1..n /\ \A i \in 1..n : list[i] \in T  OBVIOUS
<1>2. Those(list, S) = (CHOOSE c : Folds(c))[1..n]  BY <1>1 DEF Those, FoldLeft, MapThenFoldSet
<1>3. step \in [Seq(T) \X (1..n) -> Seq(T)] /\ <<>> \in Seq(T)  BY <1>1
<1>4. ASSUME NEW v \in Seq(T), NEW i \in 1..n
      PROVE  step[<<v, i>>] = IF list[i] \in S THEN Append(v, list[i]) ELSE v
  OBVIOUS
<1> HIDE DEF step, n
<1>5. PICK g \in [SUBSET (1..n) -> Seq(T)] : FoldsBy(g, <<>>, step, n)  BY <1>1, <1>3, FoldExists
<1>6. Folds(g)
  <2>1. ASSUME NEW s \in SUBSET (1..n), s # {}
        PROVE  step[<<g[s \ {Max(s)}], Max(s)>>] = IF list[Max(s)] \in S THEN Append(g[s \ {Max(s)}], list[Max(s)]) ELSE g[s \ {Max(s)}]
    <3>1. Max(s) \in 1..n  BY <1>1, <2>1, MaxOfPlaces
    <3>2. g[s \ {Max(s)}] \in Seq(T)  BY <1>5
    <3> QED  BY <1>4, <3>1, <3>2
  <2> QED  BY <1>5, <2>1 DEF FoldsBy
<1>7. PICK c : Folds(c) /\ Those(list, S) = c[1..n]  BY <1>2, <1>6
<1>8. \A s \in SUBSET (1..n) : s = {} => c[s] = <<>>  BY <1>7
<1>9. ASSUME NEW s \in SUBSET (1..n), s # {}, c[s \ {Max(s)}] \in Seq(T)
      PROVE  c[s] = step[<<c[s \ {Max(s)}], Max(s)>>]
  <2>1. Max(s) \in 1..n  BY <1>1, <1>9, MaxOfPlaces
  <2>2. c[s] = IF list[Max(s)] \in S THEN Append(c[s \ {Max(s)}], list[Max(s)]) ELSE c[s \ {Max(s)}]  BY <1>7, <1>9
  <2> QED  BY <1>4, <1>9, <2>1, <2>2
<1>10. PICK h \in [0..n -> Seq(T)] :
          h[0] = <<>> /\ h[n] = c[1..n] /\ \A k \in 0..(n - 1) : h[k + 1] = step[<<h[k], k + 1>>]
  <2>1. Follows(c, <<>>, step, Seq(T), n)  BY <1>1, <1>3, <1>8, <1>9 DEF Follows
  <2>2. GoesAlong(c, <<>>, step, Seq(T), n)  BY ONLY <2>1, FoldsAlong, Zenon
  <2> QED  BY <2>2 DEF GoesAlong
<1>11. ASSUME NEW k \in 0..(n - 1) PROVE h[k + 1] = IF list[k + 1] \in S THEN Append(h[k], list[k + 1]) ELSE h[k]
  <2>1. k \in 0..n /\ k + 1 \in 1..n  BY <1>1
  <2>2. h[k] \in Seq(T)  BY <2>1
  <2> QED  BY <1>4, <1>10, <2>1, <2>2
<1>12. TakesThose(h, list, S, T)  BY <1>7, <1>10, <1>11 DEF n, TakesThose
<1> QED  BY <1>12

\* OnceEach takes the members one after the other.
TakesOnce(h, list, T) ==
    /\ h \in [0..Len(list) -> Seq(T)] /\ h[0] = <<>> /\ h[Len(list)] = OnceEach(list)
    /\ \A k \in 0..(Len(list) - 1) : h[k + 1] = IF Contains(h[k], list[k + 1]) THEN h[k] ELSE Append(h[k], list[k + 1])
\* There is such a history of OnceEach.
LEMMA OnceEachSteps ==
  ASSUME NEW T, NEW list \in Seq(T)
  PROVE  \E h : TakesOnce(h, list, T)
<1> DEFINE n == Len(list)
           Folds(c) == c = [s \in SUBSET (1..n) |-> IF s = {} THEN <<>>
                              ELSE IF Contains(c[s \ {Max(s)}], list[Max(s)]) THEN c[s \ {Max(s)}] ELSE Append(c[s \ {Max(s)}], list[Max(s)])]
           step == [vi \in Seq(T) \X (1..n) |-> IF Contains(vi[1], list[vi[2]]) THEN vi[1] ELSE Append(vi[1], list[vi[2]])]
<1>1. n \in Nat /\ DOMAIN list = 1..n /\ \A i \in 1..n : list[i] \in T  OBVIOUS
<1>2. OnceEach(list) = (CHOOSE c : Folds(c))[1..n]  BY <1>1 DEF OnceEach, FoldLeft, MapThenFoldSet
<1>3. step \in [Seq(T) \X (1..n) -> Seq(T)] /\ <<>> \in Seq(T)  BY <1>1
<1>4. ASSUME NEW v \in Seq(T), NEW i \in 1..n
      PROVE  step[<<v, i>>] = IF Contains(v, list[i]) THEN v ELSE Append(v, list[i])
  OBVIOUS
<1> HIDE DEF step, n
<1>5. PICK g \in [SUBSET (1..n) -> Seq(T)] : FoldsBy(g, <<>>, step, n)  BY <1>1, <1>3, FoldExists
<1>6. Folds(g)
  <2>1. ASSUME NEW s \in SUBSET (1..n), s # {}
        PROVE  step[<<g[s \ {Max(s)}], Max(s)>>] = IF Contains(g[s \ {Max(s)}], list[Max(s)]) THEN g[s \ {Max(s)}] ELSE Append(g[s \ {Max(s)}], list[Max(s)])
    <3>1. Max(s) \in 1..n  BY <1>1, <2>1, MaxOfPlaces
    <3>2. g[s \ {Max(s)}] \in Seq(T)  BY <1>5
    <3> QED  BY <1>4, <3>1, <3>2
  <2> QED  BY <1>5, <2>1 DEF FoldsBy
<1>7. PICK c : Folds(c) /\ OnceEach(list) = c[1..n]  BY <1>2, <1>6
<1>8. \A s \in SUBSET (1..n) : s = {} => c[s] = <<>>  BY <1>7
<1>9. ASSUME NEW s \in SUBSET (1..n), s # {}, c[s \ {Max(s)}] \in Seq(T)
      PROVE  c[s] = step[<<c[s \ {Max(s)}], Max(s)>>]
  <2>1. Max(s) \in 1..n  BY <1>1, <1>9, MaxOfPlaces
  <2>2. c[s] = IF Contains(c[s \ {Max(s)}], list[Max(s)]) THEN c[s \ {Max(s)}] ELSE Append(c[s \ {Max(s)}], list[Max(s)])  BY <1>7, <1>9
  <2> QED  BY <1>4, <1>9, <2>1, <2>2
<1>10. PICK h \in [0..n -> Seq(T)] :
          h[0] = <<>> /\ h[n] = c[1..n] /\ \A k \in 0..(n - 1) : h[k + 1] = step[<<h[k], k + 1>>]
  <2>1. Follows(c, <<>>, step, Seq(T), n)  BY <1>1, <1>3, <1>8, <1>9 DEF Follows
  <2>2. GoesAlong(c, <<>>, step, Seq(T), n)  BY ONLY <2>1, FoldsAlong, Zenon
  <2> QED  BY <2>2 DEF GoesAlong
<1>11. ASSUME NEW k \in 0..(n - 1) PROVE h[k + 1] = IF Contains(h[k], list[k + 1]) THEN h[k] ELSE Append(h[k], list[k + 1])
  <2>1. k \in 0..n /\ k + 1 \in 1..n  BY <1>1
  <2>2. h[k] \in Seq(T)  BY <2>1
  <2> QED  BY <1>4, <1>10, <2>1, <2>2
<1>12. TakesOnce(h, list, T)  BY <1>7, <1>10, <1>11 DEF n, TakesOnce
<1> QED  BY <1>12

\* f tells from where the members of kept are: those of the first k that are in S, in order.
Selects(kept, f, list, S, k) ==
    /\ f \in [1..Len(kept) -> 1..k]
    /\ \A j \in 1..Len(kept) : kept[j] = list[f[j]] /\ list[f[j]] \in S
    /\ \A i, j \in 1..Len(kept) : i < j => f[i] < f[j]
    /\ \A i \in 1..k : list[i] \in S => \E j \in 1..Len(kept) : f[j] = i

\* One more member, in S or not.
LEMMA SelectsMore ==
  ASSUME NEW T, NEW list \in Seq(T), NEW S, NEW k \in 0..(Len(list) - 1), NEW kept \in Seq(T), NEW f, Selects(kept, f, list, S, k),
         NEW more, more = IF list[k + 1] \in S THEN Append(kept, list[k + 1]) ELSE kept
  PROVE  \E e : Selects(more, e, list, S, k + 1)
<1> DEFINE x == list[k + 1]
           m == Len(kept)
           e == [j \in 1..(m + 1) |-> IF j = m + 1 THEN k + 1 ELSE f[j]]
<1>0. m \in Nat /\ k \in Nat /\ x \in T  OBVIOUS
<1>1. /\ f \in [1..m -> 1..k] /\ (\A j \in 1..m : kept[j] = list[f[j]] /\ list[f[j]] \in S)
      /\ (\A i, j \in 1..m : i < j => f[i] < f[j]) /\ \A i \in 1..k : list[i] \in S => \E j \in 1..m : f[j] = i
  BY DEF Selects
<1>2. CASE x \notin S
  <2>1. more = kept /\ f \in [1..m -> 1..(k + 1)]  BY <1>0, <1>1, <1>2
  <2>2. \A i \in 1..(k + 1) : i \in 1..k \/ i = k + 1  BY <1>0
  <2>3. Selects(more, f, list, S, k + 1)  BY <1>1, <1>2, <2>1, <2>2 DEF Selects
  <2> QED  BY <2>3
<1>3. CASE x \in S
  <2>1. more = Append(kept, x) /\ Len(more) = m + 1 /\ (\A j \in 1..m : more[j] = kept[j]) /\ more[m + 1] = x  BY <1>0, <1>3
  <2>2. \A j \in 1..(m + 1) : j \in 1..m \/ j = m + 1  BY <1>0
  <2>3. (\A j \in 1..m : e[j] = f[j] /\ f[j] \in 1..k) /\ e[m + 1] = k + 1 /\ m + 1 \in 1..(m + 1)  BY <1>0, <1>1
  <2>4. e \in [1..(m + 1) -> 1..(k + 1)]  BY <1>0, <1>1
  <2> HIDE DEF e, x, m
  <2>5. \A j \in 1..(m + 1) : more[j] = list[e[j]] /\ list[e[j]] \in S  BY <1>1, <1>3, <2>1, <2>2, <2>3 DEF x
  <2>6. \A i, j \in 1..(m + 1) : i < j => e[i] < e[j]
    <3> SUFFICES ASSUME NEW i \in 1..(m + 1), NEW j \in 1..(m + 1), i < j PROVE e[i] < e[j]  OBVIOUS
    <3>1. i \in 1..m  BY <1>0, <2>2
    <3>2. CASE j \in 1..m  BY <1>1, <2>3, <3>1, <3>2
    <3>3. CASE j = m + 1
      <4>1. e[i] \in 1..k /\ e[j] = k + 1  BY <2>3, <3>1, <3>3
      <4> QED  BY <1>0, <4>1
    <3> QED  BY <2>2, <3>2, <3>3
  <2>7. \A i \in 1..(k + 1) : list[i] \in S => \E j \in 1..(m + 1) : e[j] = i
    <3> SUFFICES ASSUME NEW i \in 1..(k + 1), list[i] \in S PROVE \E j \in 1..(m + 1) : e[j] = i  OBVIOUS
    <3>1. CASE i = k + 1  BY <2>3, <3>1
    <3>2. CASE i \in 1..k
      <4>1. PICK j \in 1..m : f[j] = i  BY <1>1, <3>2
      <4>2. j \in 1..(m + 1) /\ e[j] = i  BY <1>0, <2>3, <4>1
      <4> QED  BY <4>2
    <3> QED  BY <1>0, <3>1, <3>2
  <2>8. Selects(more, e, list, S, k + 1)  BY <2>1, <2>4, <2>5, <2>6, <2>7 DEF Selects
  <2> QED  BY <2>8
<1> QED  BY <1>2, <1>3

\* Those has the members that are in S, in their order.
LEMMA ThoseIs ==
  ASSUME NEW T, NEW list \in Seq(T), NEW S
  PROVE  Those(list, S) \in Seq(T) /\ \E f : Selects(Those(list, S), f, list, S, Len(list))
<1> DEFINE n == Len(list)
<1>0. n \in Nat  OBVIOUS
<1>9. PICK h : TakesThose(h, list, S, T)  BY ThoseSteps
<1>1. /\ h \in [0..n -> Seq(T)] /\ h[0] = <<>> /\ h[n] = Those(list, S)
      /\ \A k \in 0..(n - 1) : h[k + 1] = IF list[k + 1] \in S THEN Append(h[k], list[k + 1]) ELSE h[k]
  BY <1>9 DEF TakesThose
<1> DEFINE G == {k \in Nat : k <= n => \E f : Selects(h[k], f, list, S, k)}
<1>2. 0 \in G
  <2>1. Selects(<<>>, <<>>, list, S, 0)  BY DEF Selects
  <2> QED  BY <1>1, <2>1
<1>3. ASSUME NEW k \in G PROVE k + 1 \in G
  <2>1. SUFFICES ASSUME k + 1 <= n PROVE \E f : Selects(h[k + 1], f, list, S, k + 1)  OBVIOUS
  <2>2. k \in 0..(n - 1) /\ k \in 0..n  BY <1>0, <2>1
  <2>3. PICK f : Selects(h[k], f, list, S, k)  BY <1>0, <2>1
  <2>4. h[k] \in Seq(T) /\ h[k + 1] = IF list[k + 1] \in S THEN Append(h[k], list[k + 1]) ELSE h[k]  BY <1>1, <2>2
  <2> QED  BY <2>2, <2>3, <2>4, SelectsMore
<1>4. \A k \in Nat : k \in G
  <2> HIDE DEF G
  <2> QED  BY <1>2, <1>3, Induction
<1>5. n \in G /\ h[n] \in Seq(T)
  <2>1. n \in 0..n  BY <1>0
  <2> QED  BY <1>0, <1>1, <1>4, <2>1
<1>6. \E f : Selects(h[n], f, list, S, n)  BY <1>0, <1>5
<1> QED  BY <1>1, <1>5, <1>6

\* Its members, then, and that it repeats nothing that the list does not.
LEMMA ThoseHas ==
  ASSUME NEW T, NEW list \in Seq(T), NEW S
  PROVE  /\ Those(list, S) \in Seq(T) /\ Len(Those(list, S)) <= Len(list)
         /\ \A x : Contains(Those(list, S), x) <=> Contains(list, x) /\ x \in S
         /\ \A j \in DOMAIN Those(list, S) : Those(list, S)[j] \in S
         /\ IsInjective(list) => IsInjective(Those(list, S))
<1> DEFINE kept == Those(list, S)
<1>1. PICK f : kept \in Seq(T) /\ Selects(kept, f, list, S, Len(list))  BY ThoseIs
<1> HIDE DEF kept
<1> DEFINE m == Len(kept)
           n == Len(list)
<1>2. m \in Nat /\ n \in Nat /\ DOMAIN kept = 1..m /\ DOMAIN list = 1..n  BY <1>1
<1>3. /\ f \in [1..m -> 1..n] /\ (\A j \in 1..m : kept[j] = list[f[j]] /\ list[f[j]] \in S)
      /\ (\A i, j \in 1..m : i < j => f[i] < f[j]) /\ \A i \in 1..n : list[i] \in S => \E j \in 1..m : f[j] = i
  BY <1>1 DEF Selects
<1>4. \A i, j \in 1..m : i # j => f[i] # f[j]
  <2> SUFFICES ASSUME NEW i \in 1..m, NEW j \in 1..m, i # j PROVE f[i] # f[j]  OBVIOUS
  <2>1. f[i] \in 1..n /\ f[j] \in 1..n  BY <1>3
  <2>2. (i < j => f[i] < f[j]) /\ (j < i => f[j] < f[i]) /\ (i < j \/ j < i)  BY <1>2, <1>3
  <2> QED  BY <1>2, <2>1, <2>2
<1>5. m <= n
  <2>0. \A k \in Nat : IsFiniteSet(1..k) /\ Cardinality(1..k) = k  BY FS_Interval
  <2>1. IsFiniteSet(1..n) /\ Cardinality(1..n) = n /\ IsFiniteSet(1..m) /\ Cardinality(1..m) = m
    <3> HIDE DEF m, n
    <3> QED  BY <1>2, <2>0
  <2>2. f \in Injection(1..m, 1..n)  BY <1>3, <1>4 DEF Injection, IsInjective
  <2> QED  BY <2>1, <2>2, FS_Injection
<1>6. \A x : Contains(kept, x) <=> Contains(list, x) /\ x \in S
  <2> SUFFICES ASSUME NEW x PROVE Contains(kept, x) <=> Contains(list, x) /\ x \in S  OBVIOUS
  <2>1. ASSUME Contains(kept, x) PROVE Contains(list, x) /\ x \in S
    <3>1. PICK j \in 1..m : kept[j] = x  BY <2>1 DEF Contains
    <3>2. f[j] \in 1..n /\ list[f[j]] = x /\ x \in S  BY <1>3, <3>1
    <3> QED  BY <3>2 DEF Contains
  <2>2. ASSUME Contains(list, x), x \in S PROVE Contains(kept, x)
    <3>1. PICK i \in 1..n : list[i] = x  BY <2>2 DEF Contains
    <3>2. PICK j \in 1..m : f[j] = i  BY <1>3, <2>2, <3>1
    <3>3. kept[j] = x  BY <1>3, <3>1, <3>2
    <3> QED  BY <3>3 DEF Contains
  <2> QED  BY <2>1, <2>2
<1>7. ASSUME IsInjective(list) PROVE IsInjective(kept)
  <2>1. ASSUME NEW i \in 1..m, NEW j \in 1..m, kept[i] = kept[j] PROVE i = j
    <3>1. f[i] \in 1..n /\ f[j] \in 1..n /\ list[f[i]] = list[f[j]]  BY <1>3, <2>1
    <3>2. f[i] = f[j]  BY <1>2, <1>7, <3>1 DEF IsInjective
    <3> QED  BY <1>4, <3>2
  <2> QED  BY <1>2, <2>1 DEF IsInjective
<1> QED  BY <1>1, <1>2, <1>3, <1>5, <1>6, <1>7 DEF kept

\* The first n numbers.
LEMMA CountUpto ==
  ASSUME NEW n \in Nat
  PROVE  IsFiniteSet(1..n) /\ Cardinality(1..n) = n
<1>1. 1 \in Int /\ n \in Int /\ (IF 1 > n THEN 0 ELSE n - 1 + 1) = n  OBVIOUS
<1> QED  BY <1>1, FS_Interval

\* It keeps as many as there are.
LEMMA ThoseCount ==
  ASSUME NEW T, NEW list \in Seq(T), NEW S
  PROVE  Len(Those(list, S)) = Cardinality({i \in 1..Len(list) : list[i] \in S})
<1> DEFINE n == Len(list)
           kept == Those(list, S)
           m == Len(kept)
           A == {i \in 1..n : list[i] \in S}
<1>1. PICK f : Selects(kept, f, list, S, n)  BY ThoseIs
<1>2. n \in Nat /\ m \in Nat
  <2>1. kept \in Seq(T)  BY ThoseIs
  <2> HIDE DEF kept
  <2> QED  BY <2>1
<1>3. /\ f \in [1..m -> 1..n] /\ \A j \in 1..m : list[f[j]] \in S
      /\ \A i, j \in 1..m : i < j => f[i] < f[j]
      /\ \A i \in 1..n : list[i] \in S => \E j \in 1..m : f[j] = i
  BY <1>1 DEF Selects
<1> HIDE DEF kept, m, n
<1>4. f \in [1..m -> A]
  <2>1. \A j \in 1..m : f[j] \in A  BY <1>3
  <2>2. f = [j \in 1..m |-> f[j]]  BY <1>3
  <2> QED  BY <2>1, <2>2
<1>5. \A i, j \in 1..m : f[i] = f[j] => i = j
  <2> SUFFICES ASSUME NEW i \in 1..m, NEW j \in 1..m, f[i] = f[j] PROVE i = j  OBVIOUS
  <2>1. f[i] \in Nat /\ i \in Int /\ j \in Int  BY <1>2, <1>3
  <2>2. ~(i < j) /\ ~(j < i)  BY <1>3, <2>1
  <2> QED  BY <2>1, <2>2
<1>6. \A i \in A : \E j \in 1..m : f[j] = i  BY <1>3
<1>7. IsFiniteSet(1..m) /\ Cardinality(1..m) = m
  <2>1. 1 \in Int /\ m \in Int /\ (IF 1 > m THEN 0 ELSE m - 1 + 1) = m  BY <1>2
  <2> QED  BY <2>1, FS_Interval
<1> HIDE DEF A
<1>8. ExistsBijection(1..m, A)
  <2>1. DOMAIN f = 1..m  BY <1>4
  <2>2. IsInjective(f)  BY <1>5, <2>1 DEF IsInjective
  <2>3. f \in Bijection(1..m, A)  BY <1>4, <1>6, <2>1, <2>2 DEF Bijection, Injection, Surjection
  <2> QED  BY <2>3 DEF ExistsBijection
<1>9. Cardinality(A) = Cardinality(1..m)  BY <1>7, <1>8, FS_Bijection
<1> QED  BY <1>7, <1>9 DEF A, n, m, kept

\* A slice from the start has the first members of a list.
LEMMA AtMostIs ==
  ASSUME NEW T, NEW list \in Seq(T), NEW n \in Nat
  PROVE  /\ AtMost(n, list) \in Seq(T) /\ Len(AtMost(n, list)) = (IF Len(list) < n THEN Len(list) ELSE n)
         /\ \A i \in 1..Len(AtMost(n, list)) : i \in 1..Len(list) /\ AtMost(n, list)[i] = list[i]
         /\ IsInjective(list) => IsInjective(AtMost(n, list))
<1> DEFINE k == IF Len(list) < n THEN Len(list) ELSE n
           s == AtMost(n, list)
<1>1. Len(list) \in Nat /\ k \in Nat /\ k <= Len(list)  OBVIOUS
<1>2. s = SubSeq(list, 1, k)  BY DEF AtMost
<1> HIDE DEF k, s
<1>3. s \in Seq(T) /\ Len(s) = k /\ \A i \in 1..k : s[i] = list[i]  BY <1>1, <1>2
<1>4. \A i \in 1..Len(s) : i \in 1..Len(list) /\ s[i] = list[i]  BY <1>1, <1>3
<1>5. IsInjective(list) => IsInjective(s)  BY <1>3, <1>4 DEF IsInjective
<1> QED  BY <1>3, <1>4, <1>5 DEF s, k

\* One step of OnceEach keeps a list of different members and adds the member.
OnceMore(kept, x) == IF Contains(kept, x) THEN kept ELSE Append(kept, x)
\* The list grows by the member, unless it was there.
LEMMA OnceMoreIs ==
  ASSUME NEW T, NEW kept \in Seq(T), IsInjective(kept), NEW x \in T
  PROVE  /\ OnceMore(kept, x) \in Seq(T) /\ Len(OnceMore(kept, x)) <= Len(kept) + 1 /\ IsInjective(OnceMore(kept, x))
         /\ \A y : Contains(OnceMore(kept, x), y) <=> (Contains(kept, y) \/ y = x)
  BY DEF OnceMore, Contains, IsInjective

\* OnceEach keeps the members and drops the repetitions.
LEMMA OnceEachIs ==
  ASSUME NEW T, NEW list \in Seq(T)
  PROVE  /\ OnceEach(list) \in Seq(T) /\ Len(OnceEach(list)) <= Len(list)
         /\ IsInjective(OnceEach(list))
         /\ \A x : Contains(OnceEach(list), x) <=> Contains(list, x)
<1> DEFINE n == Len(list)
           Good(kept, k) == /\ Len(kept) <= k /\ IsInjective(kept)
                            /\ \A x : Contains(kept, x) <=> \E i \in 1..k : list[i] = x
<1>0. n \in Nat  OBVIOUS
<1>1. PICK h : TakesOnce(h, list, T)  BY OnceEachSteps
<1>2. /\ h \in [0..n -> Seq(T)] /\ h[0] = <<>> /\ h[n] = OnceEach(list)
      /\ \A k \in 0..(n - 1) : h[k + 1] = IF Contains(h[k], list[k + 1]) THEN h[k] ELSE Append(h[k], list[k + 1])
  BY <1>1 DEF TakesOnce
<1> DEFINE G == {k \in Nat : k <= n => Good(h[k], k)}
<1>3. 0 \in G
  <2>1. 1..0 = {} /\ Len(<<>>) = 0 /\ IsInjective(<<>>)  BY DEF IsInjective
  <2>2. \A x : ~Contains(<<>>, x)  BY <2>1 DEF Contains
  <2>3. Good(<<>>, 0)  BY <2>1, <2>2
  <2> QED  BY <1>2, <2>3
<1>4. ASSUME NEW k \in G PROVE k + 1 \in G
  <2>1. SUFFICES ASSUME k + 1 <= n PROVE Good(h[k + 1], k + 1)  OBVIOUS
  <2>2. k \in 0..(n - 1) /\ k \in 0..n /\ k + 1 \in 1..n /\ k \in Nat  BY <1>0, <2>1
  <2> DEFINE old == h[k]
             x == list[k + 1]
             new == h[k + 1]
  <2>3. old \in Seq(T) /\ x \in T /\ Good(old, k)  BY <1>0, <1>2, <2>1, <2>2
  <2>4. new = IF Contains(old, x) THEN old ELSE Append(old, x)  BY <1>2, <2>2
  <2>5. \A i : i \in 1..(k + 1) <=> i \in 1..k \/ i = k + 1  BY <2>2
  <2>6. x = list[k + 1]  OBVIOUS
  <2> HIDE DEF old, x, new
  <2>7. /\ new \in Seq(T) /\ Len(new) <= Len(old) + 1 /\ IsInjective(new)
        /\ \A y : Contains(new, y) <=> (Contains(old, y) \/ y = x)
    <3>1. old \in Seq(T) /\ IsInjective(old) /\ x \in T  BY <2>3
    <3>2. /\ OnceMore(old, x) \in Seq(T) /\ Len(OnceMore(old, x)) <= Len(old) + 1 /\ IsInjective(OnceMore(old, x))
          /\ \A y : Contains(OnceMore(old, x), y) <=> (Contains(old, y) \/ y = x)
      BY ONLY <3>1, OnceMoreIs, Zenon
    <3>3. new = OnceMore(old, x)  BY <2>4 DEF OnceMore
    <3> QED  BY <3>2, <3>3
  <2>9. \A y : Contains(new, y) <=> \E i \in 1..(k + 1) : list[i] = y  BY <2>3, <2>5, <2>6, <2>7
  <2>10. Len(new) <= k + 1
    <3>1. Len(new) \in Nat /\ Len(old) \in Nat /\ Len(old) <= k  BY <2>3, <2>7
    <3> QED  BY <2>2, <2>7, <3>1
  <2> QED  BY <2>7, <2>9, <2>10 DEF new
<1>5. \A k \in Nat : k \in G
  <2> HIDE DEF G
  <2> QED  BY <1>3, <1>4, Induction
<1>6. Good(h[n], n)  BY <1>0, <1>5
<1>7. h[n] \in Seq(T)
  <2>1. n \in 0..n  BY <1>0
  <2> QED  BY <1>2, <2>1
<1> QED  BY <1>2, <1>6, <1>7 DEF Contains

-----------------------------------------------------------------------------
(* Sequences joined, and their prefixes                                      *)

\* A prefix is no longer and has the same members.
LEMMA PrefixIs ==
  ASSUME NEW S, NEW s \in Seq(S), NEW t \in Seq(S)
  PROVE  IsPrefix(s, t) <=> Len(s) <= Len(t) /\ \A i \in 1..Len(s) : s[i] = t[i]
<1>1. Len(s) \in Nat /\ Len(t) \in Nat  OBVIOUS
<1>2. SubSeq(s, 1, Len(s)) = s  OBVIOUS
<1>3. Len(s) <= Len(t) => /\ SubSeq(t, 1, Len(s)) \in Seq(S) /\ Len(SubSeq(t, 1, Len(s))) = Len(s)
                          /\ \A i \in 1..Len(s) : SubSeq(t, 1, Len(s))[i] = t[i]
  OBVIOUS
<1>4. ASSUME NEW u \in Seq(S), Len(u) = Len(s) PROVE s = u <=> \A i \in 1..Len(s) : s[i] = u[i]
  BY <1>4
<1>5. Len(s) <= Len(t) => (s = SubSeq(t, 1, Len(s)) <=> \A i \in 1..Len(s) : s[i] = t[i])
  BY <1>3, <1>4
<1> QED  BY <1>2, <1>5 DEF IsPrefix

\* Of two prefixes of a sequence one is a prefix of the other.
LEMMA PrefixesCompare ==
  ASSUME NEW S, NEW s \in Seq(S), NEW t \in Seq(S), NEW u \in Seq(S), IsPrefix(s, u), IsPrefix(t, u)
  PROVE  IsPrefix(s, t) \/ IsPrefix(t, s)
<1>1. Len(s) <= Len(u) /\ (\A i \in 1..Len(s) : s[i] = u[i]) /\ Len(t) <= Len(u) /\ \A i \in 1..Len(t) : t[i] = u[i]
  BY PrefixIs
<1>2. CASE Len(s) <= Len(t)
  <2>1. \A i \in 1..Len(s) : s[i] = t[i]  BY <1>1, <1>2
  <2> QED  BY <1>2, <2>1, PrefixIs
<1>3. CASE Len(t) <= Len(s)
  <2>1. \A i \in 1..Len(t) : t[i] = s[i]  BY <1>1, <1>3
  <2> QED  BY <1>3, <2>1, PrefixIs
<1> QED  BY <1>2, <1>3

\* A prefix of a prefix, and of what is joined to it.
LEMMA PrefixJoined ==
  ASSUME NEW S, NEW s \in Seq(S), NEW t \in Seq(S), NEW u \in Seq(S), IsPrefix(s, t)
  PROVE  IsPrefix(s, t \o u)
<1>1. Len(s) <= Len(t) /\ \A i \in 1..Len(s) : s[i] = t[i]  BY PrefixIs
<1>2. t \o u \in Seq(S) /\ Len(t \o u) = Len(t) + Len(u) /\ \A i \in 1..Len(t) : (t \o u)[i] = t[i]  OBVIOUS
<1>3. Len(s) <= Len(t \o u) /\ \A i \in 1..Len(s) : s[i] = (t \o u)[i]  BY <1>1, <1>2
<1> QED  BY <1>2, <1>3, PrefixIs

\* The whole part of a number, group by group, and its fraction in the last part.
Spaced(whole, fraction) ==
    [i \in DOMAIN whole |-> IF i = Len(whole) THEN <<whole[i]>> \o fraction ELSE <<whole[i]>>]
\* What is joined to a sequence that is not empty is not empty.
LEMMA NotEmptyJoined ==
  ASSUME NEW S, NEW x \in Seq(S), x # <<>>, NEW y \in Seq(S)
  PROVE  x \o y \in Seq(S) \ {<<>>}
<1>1. x \o y \in Seq(S) /\ Len(x \o y) = Len(x) + Len(y) /\ Len(x) \in Nat /\ Len(y) \in Nat /\ Len(x) # 0  OBVIOUS
<1>2. Len(x \o y) # 0  BY <1>1
<1>3. Len(<<>>) = 0  OBVIOUS
<1> QED  BY <1>1, <1>2, <1>3

\* What FlattenSeq joins, one sequence after the other: h has what it joined of the first ones.
TakesFlat(h, seqs, S) ==
    /\ h \in [1..Len(seqs) -> Seq(S)] /\ h[1] = seqs[1] /\ h[Len(seqs)] = FlattenSeq(seqs)
    /\ \A k \in 1..(Len(seqs) - 1) : h[k + 1] = h[k] \o seqs[k + 1]
\* There is such a history of FlattenSeq.
LEMMA FlattenSteps ==
  ASSUME NEW S, NEW seqs \in Seq(Seq(S)), Len(seqs) > 0
  PROVE  \E h : TakesFlat(h, seqs, S)
<1> DEFINE n == Len(seqs)
           Rec(c, k) == c = [i \in 1..k |-> IF i = 1 THEN seqs[i] ELSE c[i - 1] \o seqs[i]]
           G == {k \in Nat : k < n => \E c : Rec(c, k + 1)}
<1>1. n \in Nat /\ n > 0 /\ \A i \in 1..n : seqs[i] \in Seq(S)  OBVIOUS
<1>2. FlattenSeq(seqs) = (CHOOSE c : Rec(c, n))[n]  BY <1>1 DEF FlattenSeq
<1> HIDE DEF n
<1>3. 0 \in G
  <2>1. \A i \in 1..1 : i = 1  OBVIOUS
  <2>2. Rec([i \in 1..1 |-> seqs[i]], 1) /\ 0 + 1 = 1  BY <2>1
  <2>3. Rec([i \in 1..1 |-> seqs[i]], 0 + 1)  BY <2>2
  <2> QED  BY <2>3
<1>4. ASSUME NEW k \in G PROVE k + 1 \in G
  <2> DEFINE m == k + 1
  <2>1. SUFFICES ASSUME m < n PROVE \E c : Rec(c, m + 1)
    <3>1. k + 1 \in Nat  OBVIOUS
    <3> HIDE DEF Rec
    <3> QED  BY <3>1
  <2>2. k \in Nat /\ k < n /\ m \in Nat /\ m > 0  BY <1>1, <2>1
  <2>3. PICK g : Rec(g, m)  BY <2>2
  <2> HIDE DEF m
  <2> DEFINE h == [i \in 1..(m + 1) |-> IF i = m + 1 THEN g[m] \o seqs[i] ELSE g[i]]
  <2>4. \A i \in 1..(m + 1) : i = m + 1 \/ i \in 1..m  BY <2>2
  <2>5. \A i \in 1..m : i \in 1..(m + 1) /\ i # m + 1  BY <2>2
  <2>6. h[m + 1] = h[m] \o seqs[m + 1] /\ m + 1 # 1 /\ (m + 1) - 1 = m
    <3>1. m \in 1..m /\ m + 1 \in 1..(m + 1) /\ m + 1 # 1 /\ (m + 1) - 1 = m  BY <2>2
    <3>2. h[m] = g[m] /\ h[m + 1] = g[m] \o seqs[m + 1]  BY <2>5, <3>1
    <3> QED  BY <3>1, <3>2
  <2>7. ASSUME NEW i \in 1..m PROVE h[i] = IF i = 1 THEN seqs[i] ELSE h[i - 1] \o seqs[i]
    <3>1. h[i] = g[i] /\ g[i] = IF i = 1 THEN seqs[i] ELSE g[i - 1] \o seqs[i]  BY <2>3, <2>5
    <3>2. i # 1 => i - 1 \in 1..m  BY <2>2
    <3>3. i # 1 => h[i - 1] = g[i - 1]  BY <2>5, <3>2
    <3> QED  BY <3>1, <3>3
  <2>8. h = [i \in 1..(m + 1) |-> h[i]]  OBVIOUS
  <2> HIDE DEF h
  <2>9. \A i \in 1..(m + 1) : h[i] = IF i = 1 THEN seqs[i] ELSE h[i - 1] \o seqs[i]  BY <2>4, <2>6, <2>7
  <2>10. Rec(h, m + 1)  BY <2>8, <2>9
  <2> QED  BY <2>10
<1>5. \A k \in Nat : k \in G
  <2> HIDE DEF G
  <2> QED  BY <1>3, <1>4, Induction
<1>6. \E c : Rec(c, n)
  <2>1. n - 1 \in Nat /\ n - 1 < n /\ (n - 1) + 1 = n  BY <1>1
  <2>2. n - 1 \in G  BY <1>5, <2>1
  <2>3. \E c : Rec(c, (n - 1) + 1)  BY <2>1, <2>2
  <2> QED  BY <2>1, <2>3
<1>7. PICK h : Rec(h, n) /\ FlattenSeq(seqs) = h[n]  BY <1>2, <1>6
<1>8. h[1] = seqs[1] /\ \A k \in 1..(n - 1) : h[k + 1] = h[k] \o seqs[k + 1]
  <2>1. 1 \in 1..n /\ \A k \in 1..(n - 1) : k + 1 \in 1..n /\ k + 1 # 1 /\ (k + 1) - 1 = k  BY <1>1
  <2> QED  BY <1>7, <2>1
<1> DEFINE H == {k \in Nat : k < n => h[k + 1] \in Seq(S)}
<1>9. 0 \in H
  <2>1. 1 \in 1..n  BY <1>1
  <2> QED  BY <1>1, <1>8, <2>1
<1>10. ASSUME NEW k \in H PROVE k + 1 \in H
  <2>1. SUFFICES ASSUME k + 1 < n PROVE h[(k + 1) + 1] \in Seq(S)  OBVIOUS
  <2>2. k + 1 \in 1..(n - 1) /\ (k + 1) + 1 \in 1..n /\ h[k + 1] \in Seq(S)  BY <1>1, <2>1
  <2>3. h[(k + 1) + 1] = h[k + 1] \o seqs[(k + 1) + 1] /\ seqs[(k + 1) + 1] \in Seq(S)  BY <1>1, <1>8, <2>2
  <2> DEFINE a == h[k + 1]
             b == seqs[(k + 1) + 1]
  <2>4. a \in Seq(S) /\ b \in Seq(S)  BY <2>2, <2>3
  <2> HIDE DEF a, b
  <2>5. a \o b \in Seq(S)  BY <2>4
  <2> QED  BY <2>3, <2>5 DEF a, b
<1>11. \A k \in Nat : k \in H
  <2> HIDE DEF H
  <2> QED  BY <1>9, <1>10, Induction
<1>12. \A k \in 1..n : h[k] \in Seq(S)
  <2> SUFFICES ASSUME NEW k \in 1..n PROVE h[k] \in Seq(S)  OBVIOUS
  <2>1. k - 1 \in Nat /\ k - 1 < n /\ (k - 1) + 1 = k  BY <1>1
  <2>2. k - 1 \in H  BY <1>11, <2>1
  <2>3. h[(k - 1) + 1] \in Seq(S)  BY <2>1, <2>2
  <2> QED  BY <2>1, <2>3
<1>13. h \in [1..n -> Seq(S)]
  <2>1. h = [i \in 1..n |-> IF i = 1 THEN seqs[i] ELSE h[i - 1] \o seqs[i]]  BY <1>7
  <2>2. h = [i \in 1..n |-> h[i]]  BY <2>1
  <2> QED  BY <1>12, <2>2
<1>14. TakesFlat(h, seqs, S)  BY <1>7, <1>8, <1>13 DEF TakesFlat, n
<1> QED  BY <1>14

=============================================================================
