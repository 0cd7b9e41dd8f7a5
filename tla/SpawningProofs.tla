--------------------------- MODULE SpawningProofs ----------------------------
(***************************************************************************)
(* Theorems about where tasks come from: spawn rules (GapRules), for any    *)
(* catalogue, limits and cooldown, orders (Spawning), for any subjects and  *)
(* callers, and imports (CsvFiles), for any work types, retention and       *)
(* number of retries.                                                       *)
(***************************************************************************)
EXTENDS Spawning, GapRules, CsvFiles, FiniteInduction, FiniteSetTheorems, TLAPS

-----------------------------------------------------------------------------
(* The first places of a page                                               *)

\* A page of length m has at most m places.
LEMMA FirstOfBounded ==
    ASSUME NEW n \in Nat, NEW S \in SUBSET (1..n), NEW m \in Nat
    PROVE  FirstOf(S, m) \subseteq S /\ IsFiniteSet(FirstOf(S, m)) /\ Cardinality(FirstOf(S, m)) <= m
  <1> DEFINE F == FirstOf(S, m)
  <1>0. S \subseteq 1..n /\ 1..n \subseteq 0..n OBVIOUS
  <1>1. IsFiniteSet(S) /\ F \subseteq S
    <2>1. IsFiniteSet(1..n) BY FS_Interval
    <2> QED BY <2>1, FS_Subset DEF FirstOf
  <1>2. IsFiniteSet(F) /\ Cardinality(F) \in Nat BY <1>1, FS_Subset, FS_CardinalityType
  <1>3. CASE F = {} BY <1>1, <1>2, <1>3, FS_EmptySet
  <1>4. CASE F # {}
    <2>1. F \in SUBSET (0..n)
      <3> HIDE DEF F
      <3> QED BY <1>0, <1>1
    <2>2. PICK top \in F : \A k \in F : k <= top BY <1>4, <2>1, LargestNumber
    <2> DEFINE B == {j \in S : j < top}
    <2>3. Cardinality(B) < m BY <2>2 DEF FirstOf
    <2>4. IsFiniteSet(B) /\ Cardinality(B) \in Nat BY <1>1, FS_Subset, FS_CardinalityType
    <2>5. F \ {top} \subseteq B BY <1>1, <2>1, <2>2
    <2>6. Cardinality(F \ {top}) <= Cardinality(B) BY <2>4, <2>5, FS_Subset
    <2>7. Cardinality(F \ {top}) = Cardinality(F) - 1 BY <1>2, <2>2, FS_RemoveElement
    <2> QED BY <1>1, <1>2, <2>3, <2>4, <2>6, <2>7
  <1> QED BY <1>3, <1>4

LEMMA PlacesOf ==
    ASSUME NEW F, F \subseteq DOMAIN Catalogue, IsFiniteSet(F)
    PROVE  LET P == {Catalogue[i] : i \in F}
           IN  P \subseteq Products /\ IsFiniteSet(P) /\ Cardinality(P) <= Cardinality(F)
  <1> DEFINE P == {Catalogue[i] : i \in F}
             f == [i \in F |-> Catalogue[i]]
  <1>1. f \in Surjection(F, P) BY DEF Surjection
  <1>2. P \subseteq Products BY DEF Products
  <1> HIDE DEF P, f
  <1>3. IsFiniteSet(P) /\ Cardinality(P) <= Cardinality(F) BY <1>1, FS_Surjection
  <1> QED BY <1>2, <1>3 DEF P

LEMMA CatalogueIsFinite == IsFiniteSet(Products)
  <1>1. DOMAIN Catalogue = 1..Len(Catalogue) /\ Len(Catalogue) \in Nat BY GapAssumption
  <1>2. IsFiniteSet(DOMAIN Catalogue) BY <1>1, FS_Interval
  <1> QED BY <1>2, PlacesOf DEF Products

\* A page brings no more than what is left of the limit, and only targets that
\* no answer holds back.
LEMMA PageBounded ==
    ASSUME NEW cap \in Nat, NEW proposed \in Nat
    PROVE  /\ Page(cap, proposed) \subseteq Products /\ IsFiniteSet(Page(cap, proposed))
           /\ Cardinality(Page(cap, proposed)) <= IF proposed >= cap THEN 0 ELSE cap - proposed
           /\ \A p \in Page(cap, proposed) : p \in missing /\ ~Blocks(answer[p])
  <1>1. CASE proposed >= cap BY <1>1, FS_EmptySet DEF Page
  <1>2. CASE ~(proposed >= cap)
    <2> DEFINE n == cap - proposed
               F == FirstOf(Gaps, n)
    <2>1. n \in Nat BY <1>2
    <2>2. DOMAIN Catalogue = 1..Len(Catalogue) /\ Len(Catalogue) \in Nat BY GapAssumption
    <2>3. Gaps \in SUBSET (1..Len(Catalogue)) /\ \A i \in Gaps : Catalogue[i] \in missing /\ ~Blocks(answer[Catalogue[i]])
      <3>1. GapPage \in Nat BY GapAssumption
      <3> DEFINE M == {i \in DOMAIN Catalogue : Catalogue[i] \in missing}
      <3>2. M \in SUBSET (1..Len(Catalogue)) BY <2>2
      <3>3. \A i \in M : Catalogue[i] \in missing OBVIOUS
      <3> HIDE DEF M
      <3>4. FirstOf(M, GapPage) \subseteq M BY <2>2, <3>1, <3>2, FirstOfBounded
      <3>5. Listed = FirstOf(M, GapPage) BY DEF Listed, M
      <3> QED BY <3>2, <3>3, <3>4, <3>5 DEF Gaps
    <2> HIDE DEF n
    <2>4. F \subseteq Gaps /\ IsFiniteSet(F) /\ Cardinality(F) <= n BY <2>1, <2>2, <2>3, FirstOfBounded
    <2> HIDE DEF F
    <2> DEFINE P == {Catalogue[i] : i \in F}
    <2>5. F \subseteq DOMAIN Catalogue BY <2>2, <2>3, <2>4
    <2>6. P \subseteq Products /\ IsFiniteSet(P) /\ Cardinality(P) <= Cardinality(F) BY <2>4, <2>5, PlacesOf
    <2>7. \A p \in P : p \in missing /\ ~Blocks(answer[p]) BY <2>3, <2>4
    <2>8. Page(cap, proposed) = P BY <1>2 DEF Page, n, F
    <2>9. Cardinality(P) <= n BY <2>1, <2>4, <2>6, FS_CardinalityType
    <2> HIDE DEF P
    <2> QED BY <1>2, <2>6, <2>7, <2>8, <2>9 DEF n
  <1> QED BY <1>1, <1>2

-----------------------------------------------------------------------------
(* The tasks of a rule                                                      *)

Live == {"open", "in_progress"}

\* What is counted against the limit of one page
Counted(task) == (ToWork(task) \cup task.brought) \ task.extra
\* What RuleBounded says of one task
TaskBounded(t, task) ==
    /\ task \in GapTask /\ task.waiting \cup task.brought \cup task.under \subseteq task.planned
    /\ task.pulled \cap task.planned = {} /\ task.beside \subseteq 1..(t - 1)
    /\ task.reading => task.status \in Live
    /\ task.pulled # {} => task.reading
    /\ task.status \notin Live => task.waiting \subseteq task.under
    /\ Cardinality(Counted(task)) <= task.limit /\ Cardinality(task.brought) <= task.proposed
\* What a step may do to a task: it never lives again, what was leased when it
\* closed stays known, and it takes on only targets that no answer holds back.
Advance(t, k, l) ==
    /\ TaskBounded(t, l) /\ l.beside = k.beside /\ k.under \subseteq l.under
    /\ l.status \in Live => k.status \in Live
    /\ \A p \in ToWork(l) : p \in ToWork(k) \/ ~Blocks(answer[p])

LEMMA TargetsAreFinite ==
    ASSUME NEW task \in GapTask
    PROVE  /\ \A S \in SUBSET Products : IsFiniteSet(S) /\ Cardinality(S) \in Nat
           /\ Counted(task) \in SUBSET Products /\ task.brought \in SUBSET Products
           /\ task.limit \in Nat /\ task.proposed \in Nat
  <1>1. \A S \in SUBSET Products : IsFiniteSet(S) /\ Cardinality(S) \in Nat
    BY CatalogueIsFinite, FS_Subset, FS_CardinalityType
  <1> QED BY <1>1, GapAssumption DEF GapTask, Counted, ToWork

\* Whatever counts less, of the same limit, stays within it.
LEMMA CountedLess ==
    ASSUME NEW k \in GapTask, NEW l \in GapTask, Counted(l) \subseteq Counted(k), l.limit = k.limit,
           Cardinality(Counted(k)) <= k.limit
    PROVE  Cardinality(Counted(l)) <= l.limit
  <1>1. IsFiniteSet(Counted(k)) /\ Cardinality(Counted(k)) \in Nat /\ Cardinality(Counted(l)) \in Nat /\ k.limit \in Nat
    BY TargetsAreFinite
  <1>2. Cardinality(Counted(l)) <= Cardinality(Counted(k)) BY <1>1, FS_Subset
  <1> QED BY <1>1, <1>2

LEMMA FreshBounded ==
    ASSUME NEW task \in GapTask
    PROVE  /\ Fresh(task) \subseteq Products /\ Fresh(task) \cap (task.planned \cup task.pulled) = {}
           /\ Fresh(task) # {} => task.proposed + Cardinality(Fresh(task)) <= task.limit
           /\ \A p \in Fresh(task) : ~Blocks(answer[p])
  <1> DEFINE P == Page(task.limit, task.proposed)
             n == task.proposed
             cap == task.limit
  <1>1. cap \in Nat /\ n \in Nat BY TargetsAreFinite
  <1>2. /\ P \subseteq Products /\ IsFiniteSet(P) /\ Cardinality(P) <= IF n >= cap THEN 0 ELSE cap - n
        /\ \A p \in P : ~Blocks(answer[p])
    BY <1>1, PageBounded
  <1>3. Fresh(task) \subseteq P BY DEF Fresh
  <1>4. Fresh(task) # {} => ~(n >= cap) BY DEF Fresh, Page
  <1> HIDE DEF P, n, cap
  <1>5. IsFiniteSet(Fresh(task)) /\ Cardinality(Fresh(task)) <= Cardinality(P) BY <1>2, <1>3, FS_Subset
  <1>6. Cardinality(P) \in Nat /\ Cardinality(Fresh(task)) \in Nat BY <1>2, <1>5, FS_CardinalityType
  <1>7. Fresh(task) # {} => n + Cardinality(Fresh(task)) <= cap BY <1>1, <1>2, <1>4, <1>5, <1>6
  <1>8. Fresh(task) \cap (task.planned \cup task.pulled) = {} BY DEF Fresh
  <1> QED BY <1>2, <1>3, <1>7, <1>8 DEF n, cap

\* A page of a task with nothing to work brings it to its limit at most; any
\* other page counts for itself.
LEMMA PageIsTaken ==
    ASSUME NEW t \in Nat, NEW k, TaskBounded(t, k), k.reading, Fresh(k) # {}
    PROVE  Advance(t, k, TakeIn(k, Fresh(k)))
  <1> DEFINE new == Fresh(k)
             more == IF ToWork(k) = {} THEN k.extra ELSE k.extra \cup new
             l == [k EXCEPT !.pulled = @ \cup new, !.extra = more]
  <1>1. k \in GapTask BY DEF TaskBounded
  <1>2. /\ new \subseteq Products /\ new \cap (k.planned \cup k.pulled) = {} /\ k.proposed + Cardinality(new) <= k.limit
        /\ \A p \in new : ~Blocks(answer[p])
    BY <1>1, FreshBounded
  <1>3. l = TakeIn(k, Fresh(k)) BY <1>1 DEF TakeIn, GapTask
  <1> HIDE DEF new
  <1>4. more \subseteq Products BY <1>1, <1>2 DEF GapTask
  <1>5. CASE ToWork(k) = {}
    <2>1. more = k.extra BY <1>5
    <2> HIDE DEF more
    <2>2. l \in GapTask BY <1>1, <1>2, <1>4 DEF GapTask
    <2>3. Counted(l) \subseteq new \cup k.brought BY <1>1, <1>5, <2>1 DEF Counted, ToWork, GapTask
    <2>4. new \in SUBSET Products /\ k.brought \in SUBSET Products BY <1>1, <1>2, TargetsAreFinite
    <2>5. /\ IsFiniteSet(new) /\ IsFiniteSet(k.brought) /\ IsFiniteSet(new \cup k.brought)
          /\ Cardinality(new) \in Nat /\ Cardinality(k.brought) \in Nat /\ Cardinality(new \cup k.brought) \in Nat
          /\ Cardinality(Counted(l)) \in Nat /\ k.limit \in Nat /\ k.proposed \in Nat
      BY <1>1, <2>2, <2>4, TargetsAreFinite
    <2>6. Cardinality(Counted(l)) <= Cardinality(new \cup k.brought) BY <2>3, <2>5, FS_Subset
    <2>7. Cardinality(new \cup k.brought) <= Cardinality(new) + Cardinality(k.brought)
      <3>1. Cardinality(new \cup k.brought)
              = Cardinality(new) + Cardinality(k.brought) - Cardinality(new \cap k.brought)
        BY <2>5, FS_Union
      <3>2. Cardinality(new \cap k.brought) \in Nat BY <2>5, FS_Intersection, FS_CardinalityType
      <3> QED BY <2>5, <3>1, <3>2
    <2>8. Cardinality(k.brought) <= k.proposed BY DEF TaskBounded
    <2>9. Cardinality(Counted(l)) <= k.limit BY <1>2, <2>5, <2>6, <2>7, <2>8
    <2>10. /\ l.limit = k.limit /\ l.pulled = k.pulled \cup new /\ l.planned = k.planned /\ l.waiting = k.waiting
           /\ l.brought = k.brought /\ l.under = k.under /\ l.reading = k.reading /\ l.status = k.status
           /\ l.beside = k.beside /\ l.proposed = k.proposed
      BY <1>1 DEF GapTask
    <2> HIDE DEF l
    <2>11. TaskBounded(t, l) BY <1>2, <2>2, <2>9, <2>10 DEF TaskBounded
    <2> QED BY <1>2, <1>3, <2>10, <2>11 DEF Advance, ToWork
  <1>6. CASE ToWork(k) # {}
    <2>1. more = k.extra \cup new BY <1>6
    <2> HIDE DEF more
    <2>2. l \in GapTask BY <1>1, <1>2, <1>4 DEF GapTask
    <2>3. Counted(l) \subseteq Counted(k) BY <1>1, <2>1 DEF Counted, ToWork, GapTask
    <2>10. /\ l.limit = k.limit /\ l.pulled = k.pulled \cup new /\ l.planned = k.planned /\ l.waiting = k.waiting
           /\ l.brought = k.brought /\ l.under = k.under /\ l.reading = k.reading /\ l.status = k.status
           /\ l.beside = k.beside /\ l.proposed = k.proposed
      BY <1>1 DEF GapTask
    <2> HIDE DEF l
    <2>4. Cardinality(Counted(l)) <= l.limit BY <1>1, <2>2, <2>3, <2>10, CountedLess DEF TaskBounded
    <2>11. TaskBounded(t, l) BY <1>2, <2>2, <2>4, <2>10 DEF TaskBounded
    <2> QED BY <1>2, <1>3, <2>10, <2>11 DEF Advance, ToWork
  <1> QED BY <1>5, <1>6

\* What changes of a task that takes no page in
LEMMA TaskAdvances ==
    ASSUME NEW t \in Nat, NEW k, TaskBounded(t, k), NEW l \in GapTask,
           l.limit = k.limit, l.beside = k.beside, l.extra = k.extra, k.under \subseteq l.under,
           ToWork(l) \cup l.brought \subseteq ToWork(k) \cup k.brought, ToWork(l) \subseteq ToWork(k),
           l.waiting \cup l.brought \cup l.under \subseteq l.planned, l.pulled \cap l.planned = {},
           l.reading => l.status \in Live, l.pulled # {} => l.reading,
           l.status \notin Live => l.waiting \subseteq l.under, l.status \in Live => k.status \in Live,
           Cardinality(l.brought) <= l.proposed
    PROVE  Advance(t, k, l)
  <1>1. k \in GapTask /\ Cardinality(Counted(k)) <= k.limit BY DEF TaskBounded
  <1>2. Counted(l) \subseteq Counted(k) BY DEF Counted
  <1>3. Cardinality(Counted(l)) <= l.limit BY <1>1, <1>2, CountedLess
  <1> QED BY <1>3 DEF Advance, TaskBounded

LEMMA PagesEnd ==
    ASSUME NEW t \in Nat, NEW k, TaskBounded(t, k), k.reading PROVE Advance(t, k, Commit(k))
  <1>1. k \in GapTask /\ k.status \in Live BY DEF TaskBounded
  <1>2. CASE ToWork(k) # {}
    <2> DEFINE l == [k EXCEPT !.reading = FALSE, !.pulled = {}, !.planned = k.planned \cup k.pulled,
                              !.waiting = k.waiting \cup k.pulled]
    <2>1. Commit(k) = l BY <1>1, <1>2 DEF Commit, Feed, GapTask
    <2>2. l \in GapTask BY <1>1 DEF GapTask
    <2>3. /\ l.limit = k.limit /\ l.pulled = {} /\ l.planned = k.planned \cup k.pulled /\ l.waiting = k.waiting \cup k.pulled
          /\ l.brought = k.brought /\ l.under = k.under /\ l.reading = FALSE /\ l.status = k.status
          /\ l.beside = k.beside /\ l.proposed = k.proposed /\ l.extra = k.extra
      BY <1>1 DEF GapTask
    <2> HIDE DEF l
    <2>4. ToWork(l) = ToWork(k) BY <2>3 DEF ToWork
    <2>5. l.waiting \cup l.brought \cup l.under \subseteq l.planned /\ Cardinality(l.brought) <= l.proposed
      BY <2>3 DEF TaskBounded
    <2> QED BY <1>1, <2>1, <2>2, <2>3, <2>4, <2>5, TaskAdvances
  <1>3. CASE ToWork(k) = {}
    <2> DEFINE s == GapOutcome(k)
               l == [k EXCEPT !.reading = FALSE, !.status = s]
    <2>1. Commit(k) = l BY <1>3 DEF Commit
    <2>2. s \in {"done", "failed"} BY DEF GapOutcome
    <2> HIDE DEF s
    <2>3. l \in GapTask BY <1>1, <2>2 DEF GapTask, GapStates
    <2>4. /\ l.limit = k.limit /\ l.pulled = k.pulled /\ l.planned = k.planned /\ l.waiting = k.waiting
          /\ l.brought = k.brought /\ l.under = k.under /\ l.reading = FALSE /\ l.status = s
          /\ l.beside = k.beside /\ l.proposed = k.proposed /\ l.extra = k.extra
      BY <1>1 DEF GapTask
    <2> HIDE DEF l
    <2>5. ToWork(l) = {} /\ l.pulled = {} /\ l.waiting = {} BY <1>3, <2>4 DEF ToWork
    <2>6. l.waiting \cup l.brought \cup l.under \subseteq l.planned /\ Cardinality(l.brought) <= l.proposed
      BY <2>4 DEF TaskBounded
    <2> QED BY <1>1, <1>3, <2>1, <2>2, <2>3, <2>4, <2>5, <2>6, TaskAdvances
  <1> QED BY <1>2, <1>3

\* The pages read are given up.
LEMMA PagesGivenUp ==
    ASSUME NEW t \in Nat, NEW k, TaskBounded(t, k)
    PROVE  Advance(t, k, [k EXCEPT !.reading = FALSE, !.pulled = {}])
  <1> DEFINE l == [k EXCEPT !.reading = FALSE, !.pulled = {}]
  <1>1. k \in GapTask BY DEF TaskBounded
  <1>2. l \in GapTask BY <1>1 DEF GapTask
  <1>3. /\ l.limit = k.limit /\ l.pulled = {} /\ l.planned = k.planned /\ l.waiting = k.waiting
        /\ l.brought = k.brought /\ l.under = k.under /\ l.reading = FALSE /\ l.status = k.status
        /\ l.beside = k.beside /\ l.proposed = k.proposed /\ l.extra = k.extra
    BY <1>1 DEF GapTask
  <1> HIDE DEF l
  <1>4. ToWork(l) \subseteq ToWork(k) BY <1>3 DEF ToWork
  <1> QED BY <1>1, <1>2, <1>3, <1>4, TaskAdvances DEF TaskBounded, l

\* A task closed over its units keeps what is leased.
LEMMA ClosedAdvances ==
    ASSUME NEW t \in Nat, NEW k, TaskBounded(t, k), ~k.reading, k.status \in Live,
           NEW s \in {"done", "failed", "cancelled"}, NEW leased \in SUBSET k.waiting
    PROVE  Advance(t, k, Closed(k, s, leased))
  <1> DEFINE l == [k EXCEPT !.status = s, !.waiting = leased, !.under = k.under \cup leased]
  <1>1. k \in GapTask BY DEF TaskBounded
  <1>2. l = Closed(k, s, leased) BY <1>1 DEF Closed, GapTask
  <1>3. l \in GapTask BY <1>1 DEF GapTask, GapStates
  <1>4. /\ l.limit = k.limit /\ l.pulled = k.pulled /\ l.planned = k.planned /\ l.waiting = leased
        /\ l.brought = k.brought /\ l.under = k.under \cup leased /\ l.reading = k.reading /\ l.status = s
        /\ l.beside = k.beside /\ l.proposed = k.proposed /\ l.extra = k.extra
    BY <1>1 DEF GapTask
  <1> HIDE DEF l
  <1>5. ToWork(l) \subseteq ToWork(k) BY <1>4 DEF ToWork
  <1>6. l.pulled = {} BY <1>4 DEF TaskBounded
  <1>7. l.waiting \cup l.brought \cup l.under \subseteq l.planned /\ Cardinality(l.brought) <= l.proposed
    BY <1>4 DEF TaskBounded
  <1> QED BY <1>1, <1>2, <1>3, <1>4, <1>5, <1>6, <1>7, TaskAdvances

\* Only the status or the lock of a task changes.
LEMMA StatusAdvances ==
    ASSUME NEW t \in Nat, NEW k, TaskBounded(t, k), k.status \in Live, NEW s \in Live, NEW r \in BOOLEAN,
           k.pulled # {} => r
    PROVE  Advance(t, k, [k EXCEPT !.status = s, !.reading = r])
  <1> DEFINE l == [k EXCEPT !.status = s, !.reading = r]
  <1>1. k \in GapTask BY DEF TaskBounded
  <1>2. l \in GapTask BY <1>1 DEF GapTask, GapStates, Live
  <1>3. /\ l.limit = k.limit /\ l.pulled = k.pulled /\ l.planned = k.planned /\ l.waiting = k.waiting
        /\ l.brought = k.brought /\ l.under = k.under /\ l.reading = r /\ l.status = s
        /\ l.beside = k.beside /\ l.proposed = k.proposed /\ l.extra = k.extra
    BY <1>1 DEF GapTask
  <1> HIDE DEF l
  <1>4. ToWork(l) = ToWork(k) BY <1>3 DEF ToWork
  <1> QED BY <1>1, <1>2, <1>3, <1>4, TaskAdvances DEF TaskBounded, l

LEMMA WorkedAdvances ==
    ASSUME NEW t \in Nat, NEW k, TaskBounded(t, k), NEW p \in k.waiting, NEW brings \in Nat
    PROVE  Advance(t, k, Worked(k, p, brings)) /\ Worked(k, p, brings).waiting = k.waiting \ {p}
           /\ Worked(k, p, brings).pulled = k.pulled /\ Worked(k, p, brings).status = k.status
           /\ Worked(k, p, brings).under = k.under
  <1> DEFINE b == IF brings > 0 THEN k.brought \cup {p} ELSE k.brought
             l == [k EXCEPT !.waiting = k.waiting \ {p}, !.proposed = k.proposed + brings, !.brought = b]
  <1>1. k \in GapTask /\ k.proposed \in Nat BY TargetsAreFinite DEF TaskBounded
  <1>2. l = Worked(k, p, brings) BY <1>1 DEF Worked, GapTask
  <1>3. p \in Products /\ p \in k.planned BY <1>1 DEF TaskBounded, GapTask
  <1>4. b \in SUBSET Products /\ b \subseteq k.brought \cup {p} BY <1>1, <1>3 DEF GapTask
  <1>5. Cardinality(b) <= k.proposed + brings
    <2>1. IsFiniteSet(k.brought) /\ Cardinality(k.brought) \in Nat /\ Cardinality(k.brought) <= k.proposed
      BY <1>1, TargetsAreFinite DEF TaskBounded
    <2>2. Cardinality(k.brought \cup {p}) <= Cardinality(k.brought) + 1 BY <2>1, FS_AddElement
    <2>3. Cardinality(k.brought \cup {p}) \in Nat BY <2>1, FS_AddElement, FS_CardinalityType
    <2> QED BY <1>1, <2>1, <2>2, <2>3
  <1> HIDE DEF b
  <1>6. l \in GapTask
    <2>1. k.proposed + brings \in Nat BY <1>1
    <2> QED BY <1>1, <1>4, <2>1 DEF GapTask
  <1>7. /\ l.limit = k.limit /\ l.pulled = k.pulled /\ l.planned = k.planned /\ l.waiting = k.waiting \ {p}
        /\ l.brought = b /\ l.under = k.under /\ l.reading = k.reading /\ l.status = k.status
        /\ l.beside = k.beside /\ l.proposed = k.proposed + brings /\ l.extra = k.extra
    BY <1>1 DEF GapTask
  <1> HIDE DEF l
  <1>8. ToWork(l) \subseteq ToWork(k) /\ ToWork(l) \cup l.brought \subseteq ToWork(k) \cup k.brought
    BY <1>4, <1>7 DEF ToWork
  <1>9. l.waiting \cup l.brought \cup l.under \subseteq l.planned BY <1>3, <1>4, <1>7 DEF TaskBounded
  <1> QED BY <1>2, <1>5, <1>6, <1>7, <1>8, <1>9, TaskAdvances DEF TaskBounded

LEMMA RuleParts ==
    ASSUME RuleBounded, NEW t \in DOMAIN gapTasks
    PROVE  /\ TaskBounded(t, gapTasks[t]) /\ t \in 1..MaxRuns /\ t \in Nat
           /\ DOMAIN gapTasks = 1..Len(gapTasks) /\ Len(gapTasks) \in Nat
  <1>1. gapTasks \in Seq(GapTask) /\ Len(gapTasks) <= MaxRuns BY DEF RuleBounded, GapTypeOK
  <1>2. DOMAIN gapTasks = 1..Len(gapTasks) /\ Len(gapTasks) \in Nat /\ t \in 1..Len(gapTasks) /\ gapTasks[t] \in GapTask
    BY <1>1
  <1>3. TaskBounded(t, gapTasks[t])
    BY <1>2 DEF RuleBounded, GapTypeOK, WithinLimit, TaskBounded, Counted, Live
  <1> QED BY <1>1, <1>2, <1>3, GapAssumption

\* One task becomes another one, which is live only if it was; no lookup moves.
LEMMA TaskChanges ==
    ASSUME RuleBounded, NEW t \in DOMAIN gapTasks, NEW l, Advance(t, gapTasks[t], l),
           gapTasks' = [gapTasks EXCEPT ![t] = l],
           UNCHANGED <<missing, rule, runner>>, answer' \in [Products -> Answer]
    PROVE  RuleBounded'
  <1>0. TaskBounded(t, l) /\ l.beside = gapTasks[t].beside /\ (l.status \in Live => gapTasks[t].status \in Live)
    BY DEF Advance
  <1>1. gapTasks \in Seq(GapTask) /\ l \in GapTask BY <1>0 DEF RuleBounded, GapTypeOK, TaskBounded
  <1>2. /\ gapTasks' \in Seq(GapTask) /\ Len(gapTasks') = Len(gapTasks) /\ DOMAIN gapTasks' = DOMAIN gapTasks
        /\ gapTasks'[t] = l /\ \A u \in DOMAIN gapTasks : u # t => gapTasks'[u] = gapTasks[u]
    BY <1>1
  <1>3. /\ \A u \in DOMAIN gapTasks : gapTasks'[u].beside = gapTasks[u].beside
        /\ \A u \in DOMAIN gapTasks : gapTasks'[u].status \in Live => gapTasks[u].status \in Live
        /\ \A u \in DOMAIN gapTasks : TaskBounded(u, gapTasks'[u])
    BY <1>0, <1>2, RuleParts
  <1>4. GapTypeOK' BY <1>2, <1>3 DEF RuleBounded, GapTypeOK, TaskBounded, Live
  <1>5. RuleTasksStack' BY <1>2, <1>3 DEF RuleBounded, RuleTasksStack, Live
  <1>6. LookupsStand'
    <2>1. Running' \subseteq Running BY <1>2, <1>3 DEF Running, Live
    <2> QED BY <1>2, <2>1 DEF RuleBounded, LookupsStand
  <1>7. WithinLimit' BY <1>2, <1>3 DEF WithinLimit, TaskBounded, Counted
  <1> QED BY <1>4, <1>5, <1>6, <1>7 DEF RuleBounded

\* ... and its targets are as they were awaited, if no answer moves.
LEMMA TaskAwaits ==
    ASSUME RuleBounded, AnswersAwaited, NEW t \in DOMAIN gapTasks, NEW l, Advance(t, gapTasks[t], l),
           gapTasks' = [gapTasks EXCEPT ![t] = l], UNCHANGED answer
    PROVE  AnswersAwaited'
  <1>1. gapTasks \in Seq(GapTask) BY DEF RuleBounded, GapTypeOK
  <1>2. /\ DOMAIN gapTasks' = DOMAIN gapTasks /\ gapTasks'[t] = l
        /\ \A u \in DOMAIN gapTasks : u # t => gapTasks'[u] = gapTasks[u]
    BY <1>1
  <1>3. \A u \in DOMAIN gapTasks : gapTasks'[u].beside = gapTasks[u].beside /\ gapTasks[u].under \subseteq gapTasks'[u].under
    BY <1>2 DEF Advance
  <1> SUFFICES ASSUME NEW w \in DOMAIN gapTasks, NEW p \in ToWork(gapTasks'[w]), Blocks(answer[p]), answer[p].from # 0
               PROVE  answer[p].from \in DOMAIN gapTasks /\ answer[p].from # w /\ Overlap(w, answer[p].from, p)'
    BY <1>2 DEF AnswersAwaited, Blocks
  <1>4. p \in ToWork(gapTasks[w]) BY <1>2 DEF Advance
  <1>5. answer[p].from \in DOMAIN gapTasks /\ answer[p].from # w /\ Overlap(w, answer[p].from, p)
    BY <1>4 DEF AnswersAwaited
  <1> QED BY <1>3, <1>5 DEF Overlap

\* The tasks rest, and an answer holds its target back only as it did before, or
\* comes from elsewhere.
LEMMA AnswersMove ==
    ASSUME AnswersAwaited, UNCHANGED gapTasks, \A t \in DOMAIN gapTasks : ToWork(gapTasks[t]) \subseteq Products,
           \A p \in Products : Blocks(answer'[p]) /\ answer'[p].from # 0 => Blocks(answer[p]) /\ answer'[p].from = answer[p].from
    PROVE  AnswersAwaited'
  <1> SUFFICES ASSUME NEW t \in DOMAIN gapTasks, NEW p \in ToWork(gapTasks[t]), Blocks(answer'[p]), answer'[p].from # 0
               PROVE  answer'[p].from \in DOMAIN gapTasks /\ answer'[p].from # t /\ Overlap(t, answer'[p].from, p)
    BY DEF AnswersAwaited, Blocks, Overlap
  <1>1. Blocks(answer[p]) /\ answer'[p].from = answer[p].from OBVIOUS
  <1> QED BY <1>1 DEF AnswersAwaited

\* Two tasks that hold the same target ran side by side, or one of them was
\* closed over its leased unit.
LEMMA SameTarget ==
    ASSUME RuleBounded, NEW t \in DOMAIN gapTasks, NEW w \in DOMAIN gapTasks, t # w,
           NEW p, p \in gapTasks[t].waiting, p \in ToWork(gapTasks[w])
    PROVE  Overlap(w, t, p)
  <1>1. TaskBounded(t, gapTasks[t]) /\ TaskBounded(w, gapTasks[w]) /\ t \in Nat /\ w \in Nat BY RuleParts
  <1>2. CASE gapTasks[t].status \notin Live BY <1>1, <1>2 DEF TaskBounded, Overlap
  <1>3. CASE gapTasks[w].status \notin Live BY <1>1, <1>3 DEF TaskBounded, Overlap, ToWork
  <1>4. CASE gapTasks[t].status \in Live /\ gapTasks[w].status \in Live
    <2>1. t < w \/ w < t BY <1>1
    <2> QED BY <1>4, <2>1 DEF RuleBounded, RuleTasksStack, Live, Overlap
  <1> QED BY <1>2, <1>3, <1>4

\* The steps of one task but its work: no answer moves.
LEMMA TaskSteps ==
    ASSUME RuleBounded, NEW t \in DOMAIN gapTasks,
           \/ PlanGap(t) \/ SettleGap(t) \/ NextPage(t) \/ EndPages(t) \/ PagesFail(t) \/ StartGap(t)
           \/ \E s \in GapStates : SetGapStatus(t, s)
    PROVE  UNCHANGED <<missing, answer, rule, runner>> /\ \E l : Advance(t, gapTasks[t], l) /\ gapTasks' = [gapTasks EXCEPT ![t] = l]
  <1> DEFINE k == gapTasks[t]
  <1>0. TaskBounded(t, k) /\ t \in Nat /\ k \in GapTask /\ k.status \in GapStates /\ k.reading \in BOOLEAN
    BY RuleParts DEF TaskBounded, GapTask
  <1>a. \A s \in Live, r \in BOOLEAN : [k EXCEPT !.status = s, !.reading = r] \in GapTask
    BY <1>0 DEF GapTask, GapStates, Live
  <1>1. CASE PlanGap(t) \/ SettleGap(t)
    <2>1. gapTasks' = [gapTasks EXCEPT ![t].reading = TRUE] /\ UNCHANGED <<missing, answer, rule, runner>>
          /\ k.status \in Live
      BY <1>1 DEF PlanGap, SettleGap, ReadPages, Live
    <2>2. [k EXCEPT !.reading = TRUE] = [k EXCEPT !.status = k.status, !.reading = TRUE] BY <1>0 DEF GapTask
    <2>3. gapTasks' = [gapTasks EXCEPT ![t] = [k EXCEPT !.reading = TRUE]] BY <2>1
    <2> QED BY <1>0, <2>1, <2>2, <2>3, StatusAdvances
  <1>2. CASE NextPage(t)
    <2>1. k.reading /\ Fresh(k) # {} /\ gapTasks' = [gapTasks EXCEPT ![t] = TakeIn(k, Fresh(k))]
          /\ UNCHANGED <<missing, answer, rule, runner>>
      BY <1>2 DEF NextPage
    <2> QED BY <1>0, <2>1, PageIsTaken
  <1>3. CASE EndPages(t)
    <2>1. k.reading /\ gapTasks' = [gapTasks EXCEPT ![t] = Commit(k)] /\ UNCHANGED <<missing, answer, rule, runner>>
      BY <1>3 DEF EndPages
    <2> QED BY <1>0, <2>1, PagesEnd
  <1>4. CASE PagesFail(t)
    <2> DEFINE l == [k EXCEPT !.reading = FALSE, !.pulled = {}]
    <2>1. Advance(t, k, l) BY <1>0, PagesGivenUp
    <2>2. l.waiting = k.waiting /\ l.status = k.status /\ l.reading = FALSE /\ l.beside = k.beside /\ l.under = k.under
          /\ ToWork(l) \subseteq ToWork(k)
      BY <1>0 DEF GapTask, ToWork
    <2>3. UNCHANGED <<missing, answer, rule, runner>> BY <1>4 DEF PagesFail
    <2>4. CASE k.status = "open"
      <3>1. PICK leased \in SUBSET k.waiting : gapTasks' = [gapTasks EXCEPT ![t] = Closed(l, "failed", leased)]
        BY <1>4, <2>4 DEF PagesFail
      <3> HIDE DEF l
      <3>2. l.status \in Live BY <2>2, <2>4 DEF Live
      <3>3. Advance(t, l, Closed(l, "failed", leased)) BY <1>0, <2>1, <2>2, <3>1, <3>2, ClosedAdvances DEF Advance
      <3>4. Advance(t, k, Closed(l, "failed", leased)) BY <2>1, <2>2, <3>3 DEF Advance
      <3> QED BY <2>3, <3>1, <3>4
    <2>5. CASE k.status # "open"
      <3>1. gapTasks' = [gapTasks EXCEPT ![t] = l] BY <1>4, <2>5 DEF PagesFail
      <3> HIDE DEF l
      <3> QED BY <2>1, <2>3, <3>1
    <2> QED BY <2>4, <2>5
  <1>5. CASE StartGap(t)
    <2>1. gapTasks' = [gapTasks EXCEPT ![t].status = "in_progress"] /\ UNCHANGED <<missing, answer, rule, runner>>
          /\ k.status \in Live
      BY <1>5 DEF StartGap, Live
    <2>2. [k EXCEPT !.status = "in_progress"] = [k EXCEPT !.status = "in_progress", !.reading = k.reading] BY <1>0 DEF GapTask
    <2>3. gapTasks' = [gapTasks EXCEPT ![t] = [k EXCEPT !.status = "in_progress"]] BY <2>1
    <2>4. "in_progress" \in Live /\ (k.pulled # {} => k.reading) BY <1>0 DEF Live, TaskBounded
    <2> QED BY <1>0, <2>1, <2>2, <2>3, <2>4, StatusAdvances
  <1>6. ASSUME NEW s \in GapStates, SetGapStatus(t, s)
        PROVE  UNCHANGED <<missing, answer, rule, runner>> /\ \E l : Advance(t, k, l) /\ gapTasks' = [gapTasks EXCEPT ![t] = l]
    <2>1. UNCHANGED <<missing, answer, rule, runner>> /\ ~k.reading /\ s \in ByHand(k.status) BY <1>6 DEF SetGapStatus
    <2>2. k.status \in Live /\ s \in {"in_progress", "done", "failed", "cancelled"} BY <2>1 DEF ByHand, Live
    <2>3. CASE s = "in_progress"
      <3>1. gapTasks' = [gapTasks EXCEPT ![t].status = s] BY <1>6, <2>3 DEF SetGapStatus
      <3>2. [k EXCEPT !.status = s] = [k EXCEPT !.status = s, !.reading = k.reading] BY <1>0 DEF GapTask
      <3>3. gapTasks' = [gapTasks EXCEPT ![t] = [k EXCEPT !.status = s]] BY <3>1
      <3>4. s \in Live /\ (k.pulled # {} => k.reading) BY <1>0, <2>3 DEF Live, TaskBounded
      <3> QED BY <1>0, <2>1, <2>2, <3>2, <3>3, <3>4, StatusAdvances
    <2>4. CASE s # "in_progress"
      <3>1. PICK leased \in SUBSET k.waiting : gapTasks' = [gapTasks EXCEPT ![t] = Closed(k, s, leased)]
        BY <1>6, <2>4 DEF SetGapStatus
      <3> QED BY <1>0, <2>1, <2>2, <2>4, <3>1, ClosedAdvances
    <2> QED BY <2>3, <2>4
  <1> QED BY <1>1, <1>2, <1>3, <1>4, <1>5, <1>6

LEMMA WorkGapSound ==
    ASSUME RuleBounded, NEW t \in DOMAIN gapTasks, NEW p \in Products, NEW brings \in 0..MaxBrings, WorkGap(t, p, brings)
    PROVE  RuleBounded' /\ (AnswersAwaited => AnswersAwaited')
  <1> DEFINE k == gapTasks[t]
             l == Worked(k, p, brings)
             a == [status |-> "pending", age |-> 0, from |-> t]
  <1>0. TaskBounded(t, k) /\ t \in 1..MaxRuns /\ t \in Nat /\ answer \in [Products -> Answer] /\ brings \in Nat
    BY RuleParts, GapAssumption DEF RuleBounded, GapTypeOK
  <1>1. /\ p \in k.waiting /\ ~k.reading /\ gapTasks' = [gapTasks EXCEPT ![t] = l] /\ UNCHANGED <<missing, rule, runner>>
        /\ answer' = IF brings > 0 THEN [answer EXCEPT ![p] = a] ELSE answer
    BY DEF WorkGap
  <1>2. /\ Advance(t, k, l) /\ l.waiting = k.waiting \ {p} /\ l.pulled = k.pulled /\ l.status = k.status
        /\ l.under = k.under
    BY <1>0, <1>1, WorkedAdvances
  <1>3. a \in Answer BY <1>0, GapAssumption DEF Answer
  <1>4. a.from = t OBVIOUS
  <1> HIDE DEF k, l, a
  <1>5. answer' \in [Products -> Answer] BY <1>0, <1>1, <1>3
  <1>6. RuleBounded' BY <1>1, <1>2, <1>5, TaskChanges DEF k
  <1>7. ASSUME AnswersAwaited PROVE AnswersAwaited'
    <2>1. CASE brings = 0
      <3>1. UNCHANGED answer BY <1>1, <2>1
      <3> QED BY <1>1, <1>2, <1>7, <3>1, TaskAwaits DEF k
    <2>2. CASE brings > 0
      <3>1. gapTasks \in Seq(GapTask) BY DEF RuleBounded, GapTypeOK
      <3>2. /\ DOMAIN gapTasks' = DOMAIN gapTasks /\ gapTasks'[t] = l
            /\ \A u \in DOMAIN gapTasks : u # t => gapTasks'[u] = gapTasks[u]
        BY <1>1, <3>1
      <3>3. /\ \A u \in DOMAIN gapTasks : gapTasks'[u].beside = gapTasks[u].beside /\ gapTasks'[u].under = gapTasks[u].under
            /\ \A u \in DOMAIN gapTasks : ToWork(gapTasks'[u]) \subseteq ToWork(gapTasks[u])
        BY <1>2, <3>2 DEF k, Advance, ToWork
      <3>4. p \notin ToWork(l) BY <1>0, <1>1, <1>2 DEF TaskBounded, ToWork
      <3>5. answer'[p] = a /\ \A q \in Products : q # p => answer'[q] = answer[q] BY <1>0, <1>1, <2>2
      <3>6. \A w \in DOMAIN gapTasks : ToWork(gapTasks[w]) \subseteq Products
        BY RuleParts DEF TaskBounded, GapTask, ToWork
      <3> SUFFICES ASSUME NEW w \in DOMAIN gapTasks, NEW q \in ToWork(gapTasks'[w]), NEW u, u = answer'[q].from,
                          Blocks(answer'[q]), u # 0
                   PROVE  u \in DOMAIN gapTasks /\ u # w /\ Overlap(w, u, q)'
        BY <3>2 DEF AnswersAwaited, Blocks, Overlap
      <3>7. q \in ToWork(gapTasks[w]) /\ q \in Products BY <3>3, <3>6
      <3>8. CASE q = p
        <4>1. w # t BY <3>2, <3>4, <3>8
        <4>2. Overlap(w, t, p) BY <1>1, <3>7, <3>8, <4>1, SameTarget DEF k
        <4>3. Overlap(w, t, p)' BY <3>3, <4>2 DEF Overlap
        <4>4. u = t BY <1>4, <3>5, <3>8
        <4> QED BY <3>8, <4>1, <4>3, <4>4
      <3>9. CASE q # p
        <4>1. answer'[q] = answer[q] /\ u = answer[q].from BY <3>5, <3>7, <3>9
        <4>2. u \in DOMAIN gapTasks /\ u # w /\ Overlap(w, u, q)
          BY <1>7, <3>7, <4>1 DEF AnswersAwaited
        <4> QED BY <3>3, <4>1, <4>2 DEF Overlap
      <3> QED BY <3>8, <3>9
    <2> QED BY <1>0, <2>1, <2>2
  <1> QED BY <1>6, <1>7

LEMMA RuleTaskActions ==
    ASSUME RuleBounded, NEW t \in DOMAIN gapTasks,
           \/ PlanGap(t) \/ SettleGap(t) \/ NextPage(t) \/ EndPages(t) \/ PagesFail(t) \/ StartGap(t)
           \/ \E s \in GapStates : SetGapStatus(t, s)
    PROVE  RuleBounded' /\ (AnswersAwaited => AnswersAwaited')
  <1>1. UNCHANGED <<missing, answer, rule, runner>> BY TaskSteps
  <1>2. PICK l : Advance(t, gapTasks[t], l) /\ gapTasks' = [gapTasks EXCEPT ![t] = l] BY TaskSteps
  <1>3. answer' \in [Products -> Answer] BY <1>1 DEF RuleBounded, GapTypeOK
  <1>4. RuleBounded' BY <1>1, <1>2, <1>3, TaskChanges
  <1> QED BY <1>1, <1>2, <1>4, TaskAwaits

\* The rule, the catalogue or the answers change; tasks and lookups rest.
LEMMA RuleWorldChanges ==
    ASSUME RuleBounded, UNCHANGED <<gapTasks, runner>>, missing' \subseteq Products, answer' \in [Products -> Answer],
           rule' \in {NoRule} \cup [auto : BOOLEAN, limit : Limits]
    PROVE  RuleBounded'
  BY DEF RuleBounded, GapTypeOK, RuleTasksStack, LookupsStand, Running, WithinLimit

\* run_rule looks up: nothing of the rule runs.
LEMMA LookupActions ==
    ASSUME RuleBounded, Autospawn \/ RunNow PROVE RuleBounded'
  <1>1. PICK u \in Runners : FindAndProbe(u) BY DEF Autospawn, RunNow, Runners
  <1>2. rule # NoRule BY DEF Autospawn, RunNow, NoRule
  <1>3. rule.limit \in Limits BY <1>2 DEF RuleBounded, GapTypeOK
  <1>4. gapTasks \in Seq(GapTask) /\ Len(gapTasks) \in Nat BY DEF RuleBounded, GapTypeOK
  <1> DEFINE look == [at |-> "spawn", known |-> Len(gapTasks), limit |-> rule.limit]
  <1>5. /\ runner' = [runner EXCEPT ![u] = look] /\ Running = {}
        /\ UNCHANGED <<missing, answer, rule, gapTasks>>
    BY <1>1 DEF FindAndProbe
  <1>6. look \in Lookup /\ look.known = Len(gapTasks) BY <1>3, <1>4 DEF Lookup
  <1> HIDE DEF look
  <1>7. runner \in [Runners -> {Resting} \cup Lookup] BY DEF RuleBounded, GapTypeOK
  <1>8. runner' \in [Runners -> {Resting} \cup Lookup] BY <1>5, <1>6, <1>7
  <1>9. GapTypeOK' BY <1>5, <1>8 DEF RuleBounded, GapTypeOK
  <1>10. RuleTasksStack' /\ WithinLimit' BY <1>5 DEF RuleBounded, RuleTasksStack, WithinLimit
  <1>11. LookupsStand'
    <2>1. Running' = {} BY <1>5 DEF Running
    <2>2. \A w \in Runners : runner'[w] # Resting => runner'[w].known <= Len(gapTasks)
      BY <1>4, <1>5, <1>6, <1>7 DEF RuleBounded, LookupsStand
    <2> QED BY <1>5, <2>1, <2>2 DEF LookupsStand
  <1> QED BY <1>9, <1>10, <1>11 DEF RuleBounded

\* A lookup ends: in the open task of the rule or in a new one, which knows of
\* every task that may still run.
LEMMA SpawnGapSound ==
    ASSUME RuleBounded, NEW u \in Runners, SpawnGap(u) PROVE RuleBounded'
  <1>0. /\ runner \in [Runners -> {Resting} \cup Lookup] /\ runner[u] \in Lookup
        /\ gapTasks \in Seq(GapTask) /\ Len(gapTasks) \in Nat /\ DOMAIN gapTasks = 1..Len(gapTasks)
        /\ runner[u].known \in Nat /\ runner[u].limit \in Limits /\ Len(gapTasks) <= MaxRuns
        /\ \A t \in Running : t > runner[u].known
    BY DEF RuleBounded, GapTypeOK, SpawnGap, Lookup, LookupsStand
  <1>1. /\ runner' = [runner EXCEPT ![u] = Resting] /\ UNCHANGED <<missing, answer, rule>> BY DEF SpawnGap
  <1>2. /\ runner' \in [Runners -> {Resting} \cup Lookup]
        /\ \A w \in Runners : runner'[w] # Resting => runner'[w] = runner[w]
    BY <1>0, <1>1
  <1>3. CASE OpenTasks # {}
    <2>1. gapTasks' = gapTasks BY <1>3 DEF SpawnGap
    <2>2. GapTypeOK' BY <1>1, <1>2, <2>1 DEF RuleBounded, GapTypeOK
    <2>3. LookupsStand' BY <1>2, <2>1 DEF RuleBounded, LookupsStand, Running
    <2> QED BY <2>1, <2>2, <2>3 DEF RuleBounded, RuleTasksStack, WithinLimit
  <1>4. CASE OpenTasks = {}
    <2> DEFINE n == Len(gapTasks) + 1
               late == {t \in DOMAIN gapTasks : t > runner[u].known}
               l == NewTask(runner[u].limit, late)
    <2>1. Len(gapTasks) < MaxRuns /\ gapTasks' = Append(gapTasks, l) BY <1>4 DEF SpawnGap
    <2>2. late \subseteq 1..(n - 1) /\ late \in SUBSET Nat /\ Running \subseteq late BY <1>0 DEF Running
    <2> HIDE DEF late
    <2>3. l \in GapTask BY <1>0, <2>2, GapAssumption DEF GapTask, GapStates, NewTask
    <2>4. /\ l.status = "open" /\ l.limit \in Nat /\ l.planned = {} /\ l.waiting = {} /\ l.proposed = 0 /\ l.beside = late
          /\ l.reading = FALSE /\ l.pulled = {} /\ l.brought = {} /\ l.under = {}
      BY <1>0, GapAssumption DEF NewTask
    <2> HIDE DEF l
    <2>5. /\ gapTasks' \in Seq(GapTask) /\ Len(gapTasks') = n /\ DOMAIN gapTasks' = 1..n /\ gapTasks'[n] = l
          /\ n \in Nat /\ DOMAIN gapTasks = 1..(n - 1) /\ n \notin DOMAIN gapTasks
          /\ \A t \in DOMAIN gapTasks : gapTasks'[t] = gapTasks[t]
          /\ \A t \in DOMAIN gapTasks' : t = n \/ t \in DOMAIN gapTasks
      BY <1>0, <2>1, <2>3
    <2>6. TaskBounded(n, l)
      <3>1. Counted(l) = {} /\ Cardinality({}) = 0 BY <2>4, FS_EmptySet DEF Counted, ToWork
      <3> QED BY <2>2, <2>3, <2>4, <3>1 DEF TaskBounded, Live
    <2>t. \A t \in DOMAIN gapTasks' : TaskBounded(t, gapTasks'[t]) BY <2>5, <2>6, RuleParts
    <2>7. GapTypeOK'
      <3>1. \A t \in DOMAIN gapTasks' :
          /\ gapTasks'[t].waiting \cup gapTasks'[t].brought \cup gapTasks'[t].under \subseteq gapTasks'[t].planned
          /\ gapTasks'[t].pulled \cap gapTasks'[t].planned = {} /\ gapTasks'[t].beside \subseteq 1..(t - 1)
          /\ gapTasks'[t].reading => gapTasks'[t].status \in {"open", "in_progress"}
          /\ gapTasks'[t].pulled # {} => gapTasks'[t].reading
          /\ gapTasks'[t].status \notin {"open", "in_progress"} => gapTasks'[t].waiting \subseteq gapTasks'[t].under
        BY <2>t DEF TaskBounded, Live
      <3>2. Len(gapTasks') <= MaxRuns BY <1>0, <2>1, <2>5, GapAssumption
      <3> QED BY <1>1, <1>2, <2>5, <3>1, <3>2 DEF RuleBounded, GapTypeOK
    <2>8. RuleTasksStack'
      <3> SUFFICES ASSUME NEW t \in DOMAIN gapTasks', NEW v \in DOMAIN gapTasks', v < t,
                          {gapTasks'[t].status, gapTasks'[v].status} \subseteq {"open", "in_progress"}
                   PROVE  v \in gapTasks'[t].beside
        BY DEF RuleTasksStack
      <3>1. v \in DOMAIN gapTasks /\ (t = n \/ t \in DOMAIN gapTasks) BY <2>5
      <3>2. CASE t = n
        <4>1. v \in Running BY <2>5, <3>1 DEF Running
        <4> QED BY <2>2, <2>4, <2>5, <3>2, <4>1
      <3>3. CASE t \in DOMAIN gapTasks
        <4>1. gapTasks'[t] = gapTasks[t] /\ gapTasks'[v] = gapTasks[v] BY <2>5, <3>1, <3>3
        <4> QED BY <3>1, <3>3, <4>1 DEF RuleBounded, RuleTasksStack
      <3> QED BY <3>1, <3>2, <3>3
    <2>9. LookupsStand'
      <3>1. Running' \subseteq Running \cup {n} BY <2>5 DEF Running
      <3> SUFFICES ASSUME NEW w \in Runners, runner'[w] # Resting
                   PROVE  runner'[w].known <= n /\ \A t \in Running' : t > runner'[w].known
        BY <2>5 DEF LookupsStand
      <3>2. runner[w] \in Lookup /\ runner'[w] = runner[w] BY <1>0, <1>2
      <3>3. runner[w].known \in Nat /\ runner[w].known <= Len(gapTasks) /\ \A t \in Running : t > runner[w].known
        BY <1>2, <3>2 DEF RuleBounded, LookupsStand, Lookup
      <3> QED BY <1>0, <3>1, <3>2, <3>3
    <2>10. WithinLimit' BY <2>t DEF TaskBounded, Counted, WithinLimit
    <2> QED BY <2>7, <2>8, <2>9, <2>10 DEF RuleBounded
  <1> QED BY <1>3, <1>4

\* The operator, other orders and time move the answers; tasks and lookups rest.
LEMMA ReviewActions ==
    ASSUME RuleBounded,
           \/ DayPasses \/ \E p \in Products : AnswerElsewhere(p) \/ CatalogueChanges(p)
           \/ \E p \in Products, s \in {"applied", "rejected", "drifted", "superseded", "reverted"} : ReviewAnswer(p, s)
    PROVE  RuleBounded' /\ (AnswersAwaited => AnswersAwaited')
  <1>0. answer \in [Products -> Answer] /\ NoAnswer \in Answer /\ missing \subseteq Products /\ 0 \in 0..MaxRuns
        /\ rule \in {NoRule} \cup [auto : BOOLEAN, limit : Limits]
    BY GapAssumption DEF RuleBounded, GapTypeOK, NoAnswer, Answer
  <1>f. \A t \in DOMAIN gapTasks : ToWork(gapTasks[t]) \subseteq Products
    BY RuleParts DEF TaskBounded, GapTask, ToWork
  <1>1. CASE DayPasses
    <2> DEFINE Older(a) == IF a.status \in {"rejected", "applied"} /\ a.age < Cooldown THEN [a EXCEPT !.age = @ + 1] ELSE a
    <2>1. answer' = [p \in Products |-> Older(answer[p])] BY <1>1 DEF DayPasses
    <2>2. ASSUME NEW a \in Answer
          PROVE  Older(a) \in Answer /\ Older(a).from = a.from /\ (Blocks(Older(a)) => Blocks(a))
      <3>1. CASE a.status \in {"rejected", "applied"} /\ a.age < Cooldown
        <4>1. a.age + 1 \in 0..Cooldown BY <3>1, GapAssumption DEF Answer
        <4>2. Older(a) = [a EXCEPT !.age = a.age + 1] BY <3>1
        <4>3. Older(a) \in Answer /\ Older(a).from = a.from BY <4>1, <4>2 DEF Answer
        <4>4. Blocks(a) BY <3>1 DEF Blocks
        <4> QED BY <4>3, <4>4
      <3>2. CASE ~(a.status \in {"rejected", "applied"} /\ a.age < Cooldown) BY <3>2
      <3> QED BY <3>1, <3>2
    <2> HIDE DEF Older
    <2>3. answer' \in [Products -> Answer] BY <1>0, <2>1, <2>2
    <2>4. UNCHANGED <<missing, rule, gapTasks, runner>> BY <1>1 DEF DayPasses
    <2>5. \A p \in Products : Blocks(answer'[p]) => Blocks(answer[p]) /\ answer'[p].from = answer[p].from
      BY <1>0, <2>1, <2>2
    <2>6. RuleBounded' BY <1>0, <2>3, <2>4, RuleWorldChanges
    <2> QED BY <1>f, <2>4, <2>5, <2>6, AnswersMove
  <1>2. ASSUME NEW p \in Products, NEW a \in Answer, answer' = [answer EXCEPT ![p] = a],
               UNCHANGED <<missing, rule, gapTasks, runner>>,
               Blocks(a) /\ a.from # 0 => Blocks(answer[p]) /\ a.from = answer[p].from
        PROVE  RuleBounded' /\ (AnswersAwaited => AnswersAwaited')
    <2>1. answer' \in [Products -> Answer] /\ answer'[p] = a /\ \A q \in Products : q # p => answer'[q] = answer[q]
      BY <1>0, <1>2
    <2>2. RuleBounded' BY <1>0, <1>2, <2>1, RuleWorldChanges
    <2>3. \A q \in Products : Blocks(answer'[q]) /\ answer'[q].from # 0 => Blocks(answer[q]) /\ answer'[q].from = answer[q].from
      BY <1>2, <2>1
    <2> QED BY <1>2, <1>f, <2>2, <2>3, AnswersMove
  <1>3. ASSUME NEW p \in Products, AnswerElsewhere(p) PROVE RuleBounded' /\ (AnswersAwaited => AnswersAwaited')
    <2> DEFINE a == [status |-> "pending", age |-> 0, from |-> 0]
    <2>1. answer' = [answer EXCEPT ![p] = a] /\ UNCHANGED <<missing, rule, gapTasks, runner>> BY <1>3 DEF AnswerElsewhere
    <2>2. a \in Answer /\ a.from = 0 BY <1>0, GapAssumption DEF Answer
    <2> HIDE DEF a
    <2> QED BY <1>2, <2>1, <2>2
  <1>4. ASSUME NEW p \in Products, CatalogueChanges(p) PROVE RuleBounded' /\ (AnswersAwaited => AnswersAwaited')
    <2>1. missing' \subseteq Products /\ UNCHANGED <<answer, rule, gapTasks, runner>> BY <1>0, <1>4 DEF CatalogueChanges
    <2>2. RuleBounded' BY <1>0, <2>1, RuleWorldChanges
    <2> QED BY <1>f, <2>1, <2>2, AnswersMove
  <1>5. ASSUME NEW p \in Products, NEW s \in {"applied", "rejected", "drifted", "superseded", "reverted"}, ReviewAnswer(p, s)
        PROVE  RuleBounded' /\ (AnswersAwaited => AnswersAwaited')
    <2> DEFINE a == IF s \in {"superseded", "reverted"} THEN NoAnswer ELSE [answer[p] EXCEPT !.status = s, !.age = 0]
    <2>1. answer' = [answer EXCEPT ![p] = a] /\ UNCHANGED <<missing, rule, gapTasks, runner>>
      BY <1>5 DEF ReviewAnswer
    <2>2. a \in Answer /\ (Blocks(a) /\ a.from # 0 => Blocks(answer[p]) /\ a.from = answer[p].from)
      <3>1. CASE s \in {"superseded", "reverted"} BY <1>0, <3>1 DEF NoAnswer
      <3>2. CASE s \notin {"superseded", "reverted"}
        <4>1. answer[p] \in Answer BY <1>0
        <4>2. a = [answer[p] EXCEPT !.status = s, !.age = 0] BY <3>2
        <4>3. s \in {"applied", "rejected", "drifted"} /\ 0 \in 0..Cooldown BY <3>2, GapAssumption
        <4> HIDE DEF a
        <4>5. a \in Answer /\ a.from = answer[p].from BY <4>1, <4>2, <4>3 DEF Answer
        <4>4. Blocks(answer[p]) BY <1>5, <3>2 DEF ReviewAnswer, Blocks
        <4> QED BY <4>4, <4>5
      <3> QED BY <3>1, <3>2
    <2> HIDE DEF a
    <2> QED BY <1>2, <2>1, <2>2
  <1> QED BY <1>1, <1>3, <1>4, <1>5

LEMMA RuleStep ==
    ASSUME RuleBounded, [GapNext]_gapVars PROVE RuleBounded' /\ (AnswersAwaited => AnswersAwaited')
  <1>0. ASSUME RuleBounded', UNCHANGED <<gapTasks, answer>> PROVE RuleBounded' /\ (AnswersAwaited => AnswersAwaited')
    BY <1>0 DEF AnswersAwaited, Blocks, Overlap
  <1>1. ASSUME NEW auto \in BOOLEAN, NEW n \in Limits, CreateRule(auto, n) \/ UpdateRule(auto, n)
        PROVE  RuleBounded' /\ (AnswersAwaited => AnswersAwaited')
    BY <1>0, <1>1, RuleWorldChanges DEF CreateRule, UpdateRule, RuleBounded, GapTypeOK
  <1>2. CASE DeleteRule BY <1>0, <1>2, RuleWorldChanges DEF DeleteRule, RuleBounded, GapTypeOK
  <1>3. CASE Autospawn \/ RunNow
    <2>1. UNCHANGED <<gapTasks, answer>> BY <1>3 DEF Autospawn, RunNow, FindAndProbe
    <2> QED BY <1>0, <1>3, <2>1, LookupActions
  <1>4. ASSUME NEW u \in Runners, SpawnGap(u) PROVE RuleBounded' /\ (AnswersAwaited => AnswersAwaited')
    <2>1. RuleBounded' BY <1>4, SpawnGapSound
    <2>2. UNCHANGED answer BY <1>4 DEF SpawnGap
    <2>3. CASE OpenTasks # {} BY <1>0, <1>4, <2>1, <2>2, <2>3 DEF SpawnGap
    <2>4. CASE OpenTasks = {}
      <3> DEFINE n == Len(gapTasks) + 1
                 l == NewTask(runner[u].limit, {t \in DOMAIN gapTasks : t > runner[u].known})
      <3>1. gapTasks' = Append(gapTasks, l) BY <1>4, <2>4 DEF SpawnGap
      <3>2. ToWork(l) = {} BY DEF NewTask, ToWork
      <3> HIDE DEF l
      <3>3. gapTasks \in Seq(GapTask) BY DEF RuleBounded, GapTypeOK
      <3>4. /\ DOMAIN gapTasks' = DOMAIN gapTasks \cup {n} /\ gapTasks'[n] = l
            /\ \A t \in DOMAIN gapTasks : gapTasks'[t] = gapTasks[t]
        BY <3>1, <3>3
      <3> HIDE DEF n
      <3>5. ASSUME AnswersAwaited PROVE AnswersAwaited'
        <4> SUFFICES ASSUME NEW t \in DOMAIN gapTasks', NEW p \in ToWork(gapTasks'[t]), NEW w, w = answer[p].from,
                            Blocks(answer[p]), w # 0
                     PROVE  w \in DOMAIN gapTasks' /\ w # t /\ Overlap(t, w, p)'
          BY <2>2 DEF AnswersAwaited, Blocks, Overlap
        <4>1. t \in DOMAIN gapTasks /\ p \in ToWork(gapTasks[t]) BY <3>2, <3>4
        <4>2. w \in DOMAIN gapTasks /\ w # t /\ Overlap(t, w, p)
          BY <3>5, <4>1 DEF AnswersAwaited
        <4>3. gapTasks'[t] = gapTasks[t] /\ gapTasks'[w] = gapTasks[w] BY <3>4, <4>1, <4>2
        <4> QED BY <3>4, <4>2, <4>3 DEF Overlap
      <3> QED BY <2>1, <3>5
    <2> QED BY <2>3, <2>4
  <1>5. ASSUME NEW t \in DOMAIN gapTasks,
               \/ PlanGap(t) \/ SettleGap(t) \/ NextPage(t) \/ EndPages(t) \/ PagesFail(t) \/ StartGap(t)
               \/ \E s \in GapStates : SetGapStatus(t, s)
        PROVE  RuleBounded' /\ (AnswersAwaited => AnswersAwaited')
    BY <1>5, RuleTaskActions
  <1>6. ASSUME \/ DayPasses \/ \E p \in Products : AnswerElsewhere(p) \/ CatalogueChanges(p)
               \/ \E p \in Products, s \in {"applied", "rejected", "drifted", "superseded", "reverted"} : ReviewAnswer(p, s)
        PROVE  RuleBounded' /\ (AnswersAwaited => AnswersAwaited')
    BY <1>6, ReviewActions
  <1>7. ASSUME NEW t \in DOMAIN gapTasks, NEW p \in Products, NEW brings \in 0..MaxBrings, WorkGap(t, p, brings)
        PROVE  RuleBounded' /\ (AnswersAwaited => AnswersAwaited')
    BY <1>7, WorkGapSound
  <1>8. CASE UNCHANGED gapVars BY <1>0, <1>8, RuleWorldChanges DEF gapVars, RuleBounded, GapTypeOK
  <1> QED BY <1>1, <1>2, <1>3, <1>4, <1>5, <1>6, <1>7, <1>8 DEF GapNext

LEMMA RuleStart == ASSUME GapInit PROVE RuleBounded /\ AnswersAwaited
  <1>1. NoAnswer \in Answer BY GapAssumption DEF NoAnswer, Answer
  <1>2. gapTasks \in Seq(GapTask) /\ Len(gapTasks) = 0 /\ DOMAIN gapTasks = {} BY DEF GapInit
  <1>3. answer \in [Products -> Answer] /\ runner \in [Runners -> {Resting} \cup Lookup] BY <1>1 DEF GapInit
  <1>4. GapTypeOK BY <1>2, <1>3, GapAssumption DEF GapTypeOK, GapInit
  <1>5. LookupsStand BY DEF LookupsStand, GapInit
  <1> QED BY <1>2, <1>4, <1>5 DEF RuleBounded, RuleTasksStack, WithinLimit, AnswersAwaited

\* A rule keeps to what the operator allowed: for any catalogue, page, limits
\* and cooldown, the targets a gap task works or has brought proposals for exceed
\* its limit only by those of pages read over unworked targets, and two tasks of
\* one rule run side by side only when the second was looked up before the first
\* existed (gap_autospawn.run_rule, task_service.resolve_gap_page).
THEOREM RuleIsBounded == GapSpec => []RuleBounded
  <1>1. GapInit => RuleBounded BY RuleStart
  <1>2. RuleBounded /\ [GapNext]_gapVars => RuleBounded' BY RuleStep
  <1> QED BY <1>1, <1>2, PTL DEF GapSpec

\* However long after its page a target is worked, an answer of the rule holds it
\* back only if it came from another task that ran unseen beside this one, or
\* from a unit that was leased when a task was closed (_filter_gap_candidates).
THEOREM AnswersAreAwaited == GapSpec => []AnswersAwaited
  <1>1. GapInit => RuleBounded /\ AnswersAwaited BY RuleStart
  <1>2. RuleBounded /\ AnswersAwaited /\ [GapNext]_gapVars => (RuleBounded /\ AnswersAwaited)' BY RuleStep
  <1> QED BY <1>1, <1>2, PTL DEF GapSpec

-----------------------------------------------------------------------------
(* Orders: what a step does to one task                                     *)

Fits(o) ==
    /\ o \in Order
    /\ \A r \in Refs :
        /\ o.status = "open" => o.unit[r] \in {"none", "queued"}
        /\ o.failedBy = "units" => o.unit[r] \in {"none", "cancelled", "failed"}
        /\ o.failedBy = "plan" /\ ~o.batch => o.unit[r] = "none"
    /\ o.failedBy # "none" <=> o.status = "failed"
\* started without a unit, as a run whose plan failed is
Bare(o) == o.status # "open" /\ (~o.batch => \A r \in Refs : o.unit[r] = "none")
\* a task keeps what it is about, never flies again once it ended, and what it
\* has lost stays lost
Advances(o, l) ==
    /\ Fits(l) /\ l.batch = o.batch /\ l.refs = o.refs /\ l.origin = o.origin /\ l.beside = o.beside
    /\ l.status \in {"open", "in_progress"} => o.status \in {"open", "in_progress"}
    /\ \A r \in Refs : MayRepeat(o, r) => MayRepeat(l, r)
    /\ Bare(o) => Bare(l)

LEMMA CloseAdvances ==
    ASSUME NEW o, Fits(o), o.status \in {"open", "in_progress"}, NEW s \in {"done", "failed", "cancelled"},
           NEW by \in {"units", "plan", "hand"},
           s = "failed" /\ by = "units" => \A r \in Refs : o.unit[r] \in {"none", "queued", "failed", "cancelled"},
           s = "failed" /\ by = "plan" => Bare(o)
    PROVE  Advances(o, Close(o, s, by)) /\ Close(o, s, by).status = s
  <1>1. o \in Order /\ o.unit \in [Refs -> UnitStates] BY DEF Fits, Order
  <1> DEFINE u == [r \in Refs |-> IF o.unit[r] = "queued" THEN "cancelled" ELSE o.unit[r]]
             f == IF s = "failed" THEN by ELSE "none"
             l == Close(o, s, by)
  <1>2. u \in [Refs -> UnitStates] BY <1>1 DEF UnitStates
  <1>3. /\ l \in Order /\ l.unit = u /\ l.status = s /\ l.failedBy = f /\ l.batch = o.batch /\ l.refs = o.refs
        /\ l.origin = o.origin /\ l.beside = o.beside
    BY <1>1, <1>2 DEF Close, CancelUnits, Order, TaskStates
  <1> HIDE DEF l
  <1>4. \A r \in Refs : MayRepeat(o, r) => MayRepeat(l, r)
    <2>1. o.failedBy = "none" BY DEF Fits
    <2>2. \A r \in Refs : Lost(o, r) => Lost(l, r) BY <1>1, <1>3 DEF Lost
    <2> QED BY <2>1, <2>2 DEF MayRepeat, FailedOver
  <1>5. \A r \in Refs : o.unit[r] = "none" => l.unit[r] = "none" BY <1>3
  <1>6. Bare(o) => Bare(l) BY <1>3, <1>5 DEF Bare
  <1>7. Fits(l)
    <2>1. f # "none" <=> s = "failed" OBVIOUS
    <2>2. f = "units" => s = "failed" /\ by = "units" OBVIOUS
    <2>3. f = "plan" => s = "failed" /\ by = "plan" OBVIOUS
    <2> HIDE DEF f, u
    <2>4. ASSUME f = "units", NEW r \in Refs PROVE l.unit[r] \in {"none", "cancelled", "failed"}
      <3>1. o.unit[r] \in {"none", "queued", "failed", "cancelled"} BY <2>2, <2>4
      <3> QED BY <1>3, <3>1 DEF u
    <2>5. ASSUME f = "plan", ~o.batch, NEW r \in Refs PROVE l.unit[r] = "none"
      BY <1>5, <2>3, <2>5 DEF Bare
    <2> QED BY <1>3, <2>1, <2>4, <2>5 DEF Fits
  <1> QED BY <1>3, <1>4, <1>6, <1>7 DEF Advances, l

LEMMA SettledAdvances ==
    ASSUME NEW o, Fits(o)
    PROVE  /\ Advances(o, Settled(o))
           /\ o.status # "open" => Settled(o).status # "open"
           /\ (o.status = "open" /\ \A r \in Refs : o.unit[r] = "none") => Settled(o).status # "open"
  <1>1. Advances(o, o) BY DEF Advances
  <1>2. CASE o.status \notin {"open", "in_progress"} \/ \E r \in Refs : o.unit[r] \in {"queued", "leased"}
    BY <1>1, <1>2 DEF Settled
  <1>3. CASE ~(o.status \notin {"open", "in_progress"} \/ \E r \in Refs : o.unit[r] \in {"queued", "leased"})
    <2>1. Settled(o) = Close(o, Verdict(o), "units") BY <1>3 DEF Settled
    <2>2. Verdict(o) \in {"done", "failed"} BY DEF Verdict
    <2>3. Verdict(o) = "failed" => \A r \in Refs : o.unit[r] \in {"none", "queued", "failed", "cancelled"}
      BY <1>3 DEF Verdict, Fits, Order, UnitStates
    <2> QED BY <1>3, <2>1, <2>2, <2>3, CloseAdvances
  <1> QED BY <1>2, <1>3

LEMMA AdvancesTwice ==
    ASSUME NEW o, NEW l, NEW k, Advances(o, l), Advances(l, k) PROVE Advances(o, k)
  BY DEF Advances

LEMMA ClaimAdvances ==
    ASSUME NEW o, Fits(o), NEW r \in Refs, o.unit[r] = "queued"
    PROVE  Advances(o, Claim(o, r)) /\ Claim(o, r).status # "open"
  <1>1. o \in Order /\ o.unit \in [Refs -> UnitStates] BY DEF Fits, Order
  <1> DEFINE l == Claim(o, r)
             s == IF o.status = "open" THEN "in_progress" ELSE o.status
             u == [o.unit EXCEPT ![r] = "leased"]
  <1>2. u \in [Refs -> UnitStates] BY <1>1 DEF UnitStates
  <1>3. /\ l \in Order /\ l.unit = u /\ l.status = s /\ l.failedBy = o.failedBy /\ l.batch = o.batch /\ l.refs = o.refs
        /\ l.origin = o.origin /\ l.beside = o.beside
    BY <1>1, <1>2 DEF Claim, Started, Order, TaskStates
  <1>4. s # "open" /\ s \in TaskStates /\ (s = "failed" <=> o.status = "failed") /\ (o.status # "open" => s = o.status)
    BY <1>1 DEF Order, TaskStates
  <1>5. \A q \in Refs : MayRepeat(o, q) => MayRepeat(l, q)
    <2> HIDE DEF l
    <2>1. \A q \in Refs : Lost(o, q) => Lost(l, q) BY <1>1, <1>3 DEF Lost
    <2> QED BY <1>3, <2>1 DEF MayRepeat, FailedOver
  <1>6. Fits(l) /\ (Bare(o) => Bare(l))
    <2> HIDE DEF l, s
    <2>1. o.failedBy # "units" /\ (o.failedBy = "plan" => o.batch) BY DEF Fits
    <2>2. Bare(o) => o.batch BY DEF Bare
    <2> QED BY <1>3, <1>4, <2>1, <2>2 DEF Fits, Bare
  <1> QED BY <1>3, <1>4, <1>5, <1>6 DEF Advances

\* A task is marked started.
LEMMA StartAdvances ==
    ASSUME NEW o, Fits(o), o.status = "open" PROVE Advances(o, Started(o)) /\ Started(o).status = "in_progress"
                                                   /\ Started(o).unit = o.unit /\ Started(o).batch = o.batch
  <1> DEFINE l == Started(o)
  <1>1. o \in Order BY DEF Fits
  <1>2. /\ l \in Order /\ l.unit = o.unit /\ l.status = "in_progress" /\ l.failedBy = o.failedBy /\ l.batch = o.batch
        /\ l.refs = o.refs /\ l.origin = o.origin /\ l.beside = o.beside
    BY <1>1 DEF Started, Order, TaskStates
  <1> HIDE DEF l
  <1>3. \A r \in Refs : o.unit[r] \in {"none", "queued"} /\ o.failedBy = "none" BY DEF Fits
  <1>4. \A r \in Refs : MayRepeat(o, r) => MayRepeat(l, r) BY <1>2, <1>3 DEF MayRepeat, Lost, FailedOver
  <1>5. Fits(l) BY <1>2, <1>3 DEF Fits
  <1>6. Bare(o) => Bare(l) BY <1>2 DEF Bare
  <1> QED BY <1>2, <1>4, <1>5, <1>6 DEF Advances, l

LEMMA ReportAdvances ==
    ASSUME NEW o, Fits(o), NEW r \in Refs, NEW works \in BOOLEAN, o.unit[r] = "leased"
    PROVE  Advances(o, Report(o, r, works)) /\ Report(o, r, works).status # "open"
  <1>1. o \in Order /\ o.unit \in [Refs -> UnitStates] /\ o.status # "open" BY DEF Fits, Order
  <1> DEFINE s == IF works THEN "done" ELSE "failed"
             u == [o.unit EXCEPT ![r] = s]
             l == [o EXCEPT !.unit[r] = s]
  <1>2. u \in [Refs -> UnitStates] BY <1>1 DEF UnitStates
  <1>3. /\ l \in Order /\ l.unit = u /\ l.status = o.status /\ l.failedBy = o.failedBy /\ l.batch = o.batch
        /\ l.refs = o.refs /\ l.origin = o.origin /\ l.beside = o.beside
    BY <1>1, <1>2 DEF Order
  <1>4. Report(o, r, works) = Settled(l) BY DEF Report
  <1> HIDE DEF l
  <1>5. \A q \in Refs : MayRepeat(o, q) => MayRepeat(l, q)
    <2> HIDE DEF s
    <2>1. \A q \in Refs : Lost(o, q) => Lost(l, q) BY <1>1, <1>3 DEF Lost
    <2> QED BY <1>3, <2>1 DEF MayRepeat, FailedOver
  <1>6. Fits(l) /\ (Bare(o) => Bare(l))
    <2>1. o.failedBy # "units" /\ (o.failedBy = "plan" => o.batch) BY DEF Fits
    <2>2. Bare(o) => o.batch BY DEF Bare
    <2>3. o.failedBy # "none" <=> o.status = "failed" BY DEF Fits
    <2> HIDE DEF s, u
    <2> QED BY <1>1, <1>3, <2>1, <2>2, <2>3 DEF Fits, Bare
  <1>7. Advances(o, l) BY <1>3, <1>5, <1>6 DEF Advances
  <1>8. Advances(l, Settled(l)) /\ Settled(l).status # "open" BY <1>1, <1>3, <1>6, SettledAdvances
  <1>9. Advances(o, Settled(l)) BY <1>7, <1>8, AdvancesTwice
  <1> QED BY <1>4, <1>8, <1>9


\* What is planned at once fills the task up or leaves nothing unplanned.
LEMMA PlanAdvances ==
    ASSUME NEW o, Fits(o), o.status = "open", NEW new \in NewUnits(o)
    PROVE  Advances(o, PlanUnits(o, new)) /\ (PlanUnits(o, new).status = "open" => IsPlanned(PlanUnits(o, new)))
  <1>1. o \in Order /\ o.unit \in [Refs -> UnitStates] /\ o.refs \subseteq Refs BY DEF Fits, Order
  <1>2. new \subseteq Unplanned(o) /\ new \subseteq Refs /\ Planned(o) \subseteq Refs /\ new \cap Planned(o) = {}
    BY <1>1 DEF NewUnits, Unplanned, Planned
  <1> DEFINE u == [r \in Refs |-> IF r \in new THEN "queued" ELSE o.unit[r]]
             l == Queue(o, new)
  <1>3. u \in [Refs -> UnitStates] BY <1>1 DEF UnitStates
  <1>4. /\ l \in Order /\ l.unit = u /\ l.status = "open" /\ l.failedBy = o.failedBy /\ l.batch = o.batch /\ l.refs = o.refs
        /\ l.origin = o.origin /\ l.beside = o.beside
    BY <1>1, <1>3 DEF Queue, Order
  <1>5. PlanUnits(o, new) = IF Planned(l) = {} THEN Settled(l) ELSE l BY DEF PlanUnits
  <1> HIDE DEF l
  <1>6. Fits(l) BY <1>1, <1>4 DEF Fits
  <1>7. Advances(o, l)
    <2>1. \A r \in Refs : ~MayRepeat(o, r)
      <3>1. \A r \in Refs : Lost(o, r) => o.unit[r] = "failed" BY DEF Lost
      <3>2. \A r \in Refs : o.unit[r] # "failed" BY DEF Fits
      <3>3. o.failedBy = "none" BY DEF Fits
      <3> QED BY <3>1, <3>2, <3>3 DEF MayRepeat, FailedOver
    <2>2. ~Bare(o) BY DEF Bare
    <2> QED BY <1>4, <1>6, <2>1, <2>2 DEF Advances
  <1>8. CASE Planned(l) = {}
    <2>1. \A r \in Refs : l.unit[r] = "none" BY <1>8 DEF Planned
    <2>2. Advances(l, Settled(l)) /\ Settled(l).status # "open" BY <1>4, <1>6, <2>1, SettledAdvances
    <2>3. Advances(o, Settled(l)) BY <1>7, <2>2, AdvancesTwice
    <2> QED BY <1>5, <1>8, <2>2, <2>3
  <1>9. CASE Planned(l) # {}
    <2>1. Planned(l) = Planned(o) \cup new
      <3>1. \A r \in Refs : l.unit[r] # "none" <=> (r \in new \/ o.unit[r] # "none") BY <1>4
      <3> QED BY <1>2, <3>1 DEF Planned
    <2>2. CASE new = Unplanned(o)
      <3>1. Unplanned(l) = {} BY <1>4, <2>1, <2>2 DEF Unplanned
      <3> QED BY <1>5, <1>7, <1>9, <3>1 DEF IsPlanned
    <2>3. CASE Cardinality(new) = RoomOf(o)
      <3>1. IsFiniteSet(new) /\ IsFiniteSet(Planned(o)) /\ IsFiniteSet(Planned(l))
        BY <1>2, <2>1, SpawningAssumption, FS_Subset, FS_Union
      <3>2. Cardinality(Planned(o)) \in Nat /\ Cardinality(new) \in Nat /\ QueueMax \in Nat
        BY <3>1, FS_CardinalityType, SpawningAssumption
      <3>3. Cardinality(Planned(l)) = Cardinality(Planned(o)) + Cardinality(new) - Cardinality(Planned(o) \cap new)
        BY <2>1, <3>1, FS_Union
      <3>4. Cardinality(Planned(o) \cap new) = 0 BY <1>2, FS_EmptySet
      <3>5. Cardinality(Planned(l)) >= QueueMax BY <2>3, <3>2, <3>3, <3>4 DEF RoomOf
      <3> QED BY <1>5, <1>7, <1>9, <3>5 DEF IsPlanned
    <2> QED BY <2>2, <2>3 DEF NewUnits
  <1> QED BY <1>8, <1>9

-----------------------------------------------------------------------------
(* Orders: what a step does to all of them                                  *)

LEMMA OrderParts ==
    ASSUME OrdersServed, NEW t \in DOMAIN orders
    PROVE  Fits(orders[t]) /\ t \in Nat /\ DOMAIN orders = 1..Len(orders) /\ Len(orders) \in Nat
  <1>1. orders \in Seq(Order) BY DEF OrdersServed, OrderTypeOK
  <1>2. DOMAIN orders = 1..Len(orders) /\ Len(orders) \in Nat /\ t \in 1..Len(orders) /\ orders[t] \in Order BY <1>1
  <1>3. orders[t].failedBy # "none" <=> orders[t].status = "failed" BY DEF OrdersServed, OrderTypeOK
  <1>4. \A r \in Refs :
          /\ orders[t].status = "open" => orders[t].unit[r] \in {"none", "queued"}
          /\ orders[t].failedBy = "units" => orders[t].unit[r] \in {"none", "cancelled", "failed"}
          /\ orders[t].failedBy = "plan" /\ ~orders[t].batch => orders[t].unit[r] = "none"
    BY DEF OrdersServed, StatusOfUnits
  <1> QED BY <1>2, <1>3, <1>4 DEF Fits

\* What is being failed has started, and a run among it has no unit.
LEMMA FailingIsBare ==
    ASSUME OrdersServed, NEW t \in failing PROVE t \in DOMAIN orders /\ Bare(orders[t])
  BY DEF OrdersServed, OrderTypeOK, StatusOfUnits, Bare

LEMMA CallerParts ==
    ASSUME OrdersServed, NEW c \in Callers
    PROVE  /\ caller[c].does = "run" =>
              caller[c] \in RunCall /\ caller[c].refs \subseteq Refs /\ caller[c].known \in 0..Len(orders)
              /\ (caller[c].origin # 0 => caller[c].origin \in DOMAIN orders)
           /\ caller[c].does = "batch" => caller[c] \in BatchCall /\ caller[c].refs \subseteq Refs
           /\ caller[c].does = "append" =>
              /\ caller[c] \in AppendCall /\ caller[c].refs \subseteq Refs /\ caller[c].task \in DOMAIN orders
              /\ orders[caller[c].task].batch
  <1>1. caller[c] \in {Idle} \cup RunCall \cup BatchCall \cup AppendCall BY DEF OrdersServed, OrderTypeOK
  <1>2. DOMAIN orders = 1..Len(orders) /\ Len(orders) \in Nat BY DEF OrdersServed, OrderTypeOK
  <1>3. CASE caller[c] = Idle BY <1>3 DEF Idle
  <1>4. CASE caller[c] \in RunCall
    <2>1. /\ caller[c].does = "run" /\ caller[c].refs \subseteq Refs /\ caller[c].known \in 0..Len(orders)
          /\ caller[c].origin \in 0..Len(orders)
      BY <1>4 DEF RunCall
    <2>2. caller[c].origin # 0 => caller[c].origin \in DOMAIN orders BY <1>2, <2>1
    <2> QED BY <1>4, <2>1, <2>2
  <1>5. CASE caller[c] \in BatchCall BY <1>5 DEF BatchCall
  <1>6. CASE caller[c] \in AppendCall BY <1>6 DEF AppendCall, OrdersServed, OrderTypeOK
  <1> QED BY <1>1, <1>3, <1>4, <1>5, <1>6

\* One task advances; the plan messages only shrink, by its own.
LEMMA OrderAdvances ==
    ASSUME OrdersServed, NEW t \in DOMAIN orders, NEW l, Advances(orders[t], l), orders' = [orders EXCEPT ![t] = l],
           plans' \subseteq plans, plans \subseteq plans' \cup {t}, UNCHANGED caller,
           failing' \subseteq failing \cup {t}, t \in failing' => Bare(l),
           l.status = "open" /\ (t \notin plans' \/ (~l.batch /\ Planned(l) # {})) => IsPlanned(l)
    PROVE  OrdersServed'
  <1>1. orders \in Seq(Order) /\ l \in Order BY DEF OrdersServed, OrderTypeOK, Advances, Fits
  <1>2. /\ orders' \in Seq(Order) /\ Len(orders') = Len(orders) /\ DOMAIN orders' = DOMAIN orders
        /\ orders'[t] = l /\ \A u \in DOMAIN orders : u # t => orders'[u] = orders[u]
    BY <1>1
  <1>3. \A u \in DOMAIN orders : Advances(orders[u], orders'[u])
    <2> SUFFICES ASSUME NEW u \in DOMAIN orders, u # t PROVE Advances(orders[u], orders'[u])
      BY <1>2
    <2> QED BY <1>2, OrderParts DEF Advances
  <1>4. OrderTypeOK'
    <2>1. \A u \in DOMAIN orders : orders'[u].batch = orders[u].batch /\ orders'[u].origin = orders[u].origin
                                   /\ orders'[u].beside = orders[u].beside
      BY <1>3 DEF Advances
    <2>2. RunCall' = RunCall /\ BatchCall' = BatchCall /\ AppendCall' = AppendCall
      BY <1>2 DEF RunCall, BatchCall, AppendCall
    <2>3. \A c \in Callers : caller[c].does = "append" => caller[c].task \in DOMAIN orders BY CallerParts
    <2>4. \A u \in DOMAIN orders : orders'[u].failedBy # "none" <=> orders'[u].status = "failed"
      BY <1>3 DEF Advances, Fits
    <2> QED BY <1>2, <2>1, <2>2, <2>3, <2>4 DEF OrdersServed, OrderTypeOK
  <1>5. OpenIsPlanned' BY <1>2 DEF OrdersServed, OpenIsPlanned
  <1>6. RunsDisjoint'
    <2>1. Flying' \subseteq Flying BY <1>2, <1>3 DEF Flying, Advances
    <2>2. \A u \in DOMAIN orders : orders'[u].batch = orders[u].batch /\ orders'[u].refs = orders[u].refs
                                   /\ orders'[u].beside = orders[u].beside
      BY <1>3 DEF Advances
    <2>3. Flying \subseteq DOMAIN orders BY DEF Flying
    <2> QED BY <1>2, <2>1, <2>2, <2>3 DEF OrdersServed, RunsDisjoint
  <1>7. RetriesFailures'
    <2>1. \A u \in DOMAIN orders : \A r \in Refs : MayRepeat(orders[u], r) => MayRepeat(orders'[u], r) BY <1>3 DEF Advances
    <2>2. \A u \in DOMAIN orders : orders[u].origin # 0 =>
            orders[u].origin \in DOMAIN orders /\ orders'[u].origin = orders[u].origin
      <3>1. \A u \in DOMAIN orders : orders[u].origin \in 0..(u - 1) /\ u \in 1..Len(orders) /\ DOMAIN orders = 1..Len(orders)
        BY <1>1, OrderParts DEF OrdersServed, OrderTypeOK
      <3> QED BY <1>3, <3>1 DEF Advances
    <2>3. \A u \in DOMAIN orders : orders[u].refs \subseteq Refs /\ orders'[u].refs = orders[u].refs
                                   /\ orders'[u].origin = orders[u].origin
      <3>1. \A u \in DOMAIN orders : orders[u] \in Order BY OrderParts DEF Fits
      <3> QED BY <1>3, <3>1 DEF Advances, Order
    <2>4. \A c \in Callers : caller[c].does = "run" /\ caller[c].origin # 0
            => caller[c].origin \in DOMAIN orders /\ caller[c].refs \subseteq Refs
      BY CallerParts
    <2> QED BY <1>2, <2>1, <2>2, <2>3, <2>4 DEF OrdersServed, RetriesFailures
  <1>8. StatusOfUnits'
    <2>1. \A u \in DOMAIN orders : Fits(orders'[u]) BY <1>3 DEF Advances
    <2>2. ASSUME NEW u \in DOMAIN orders, u \in failing' PROVE Bare(orders'[u])
      <3>1. CASE u = t BY <1>2, <2>2, <3>1
      <3>2. CASE u # t BY <1>2, <2>2, <3>2, FailingIsBare
      <3> QED BY <3>1, <3>2
    <2> QED BY <1>2, <2>1, <2>2 DEF StatusOfUnits, Fits, Bare
  <1> QED BY <1>4, <1>5, <1>6, <1>7, <1>8 DEF OrdersServed


LEMMA OrderBounds == MaxOrders \in Nat /\ NowMax \in Nat /\ QueueMax \in Nat
  BY SpawningAssumption

KnownFree(refs, known) == \A u \in Flying : u <= known /\ ~orders[u].batch => orders[u].refs \cap refs = {}
LostBy(origin, refs) == origin # 0 => \A r \in refs : MayRepeat(orders[origin], r)

\* A task is created: what its caller looked up still holds of every task that
\* the caller knew of.
LEMMA CreateServed ==
    ASSUME OrdersServed, NEW c \in Callers, NEW batch \in BOOLEAN, NEW lane,
           NEW refs \in SUBSET Refs, NEW origin \in 0..Len(orders), NEW known \in 0..Len(orders),
           Create(c, batch, lane, refs, origin, known), origin # 0 => batch = FALSE,
           batch = TRUE \/ KnownFree(refs, known), LostBy(origin, refs),
           LaneFor(lane, refs) \in {"now", "queue"}
    PROVE  OrdersServed'
  <1> DEFINE n == Len(orders) + 1
             beside == {t \in DOMAIN orders : t > known}
             o == [batch |-> batch, lane |-> LaneFor(lane, refs), refs |-> refs, origin |-> origin, status |-> "open",
                   failedBy |-> "none", unit |-> [r \in Refs |-> "none"], beside |-> beside]
  <1>1. orders \in Seq(Order) /\ Len(orders) \in Nat /\ DOMAIN orders = 1..Len(orders) /\ plans \cup failing \subseteq DOMAIN orders
    BY DEF OrdersServed, OrderTypeOK
  <1>d. \A i : i \in DOMAIN orders <=> i \in Nat /\ 1 <= i /\ i <= Len(orders) BY <1>1
  <1>2. orders' = Append(orders, o) /\ Len(orders) < MaxOrders /\ plans' = plans \cup {n}
        /\ caller' = [caller EXCEPT ![c] = Idle] /\ failing' = failing
    BY DEF Create
  <1>3. o \in Order
    <2>1. beside \subseteq Nat /\ origin \in Nat BY <1>1
    <2> QED BY <2>1 DEF Order, UnitStates, TaskStates
  <1>4. /\ o.batch = batch /\ o.refs = refs /\ o.origin = origin /\ o.status = "open" /\ o.failedBy = "none" /\ o.beside = beside
        /\ \A r \in Refs : o.unit[r] = "none"
    OBVIOUS
  <1>n. n = Len(orders) + 1 /\ n \in Nat /\ n \notin DOMAIN orders BY <1>1, <1>d
  <1> HIDE DEF o, n
  <1>5. /\ orders' \in Seq(Order) /\ Len(orders') = n /\ DOMAIN orders' = 1..n /\ orders'[n] = o
        /\ \A u \in DOMAIN orders : orders'[u] = orders[u] /\ u # n /\ u \in 1..n
        /\ \A u \in DOMAIN orders' : u \in DOMAIN orders \/ u = n
    BY <1>1, <1>2, <1>3, <1>n
  <1>6. Flying' = Flying \cup {n} /\ Flying \subseteq DOMAIN orders
    <2>1. Flying' \subseteq Flying \cup {n} BY <1>5 DEF Flying
    <2>2. n \in DOMAIN orders' BY <1>5, <1>n
    <2>3. n \in Flying' BY <1>4, <1>5, <2>2 DEF Flying
    <2>4. \A u \in DOMAIN orders : u \in DOMAIN orders' BY <1>5
    <2>5. Flying \subseteq Flying' BY <1>5, <2>4 DEF Flying
    <2> QED BY <2>1, <2>3, <2>5 DEF Flying
  <1>7. /\ caller' \in [Callers -> {Idle} \cup RunCall \cup BatchCall \cup AppendCall]
        /\ \A d \in Callers : caller'[d].does # "nothing" => caller'[d] = caller[d]
    <2>1. Idle.does = "nothing" BY DEF Idle
    <2> QED BY <1>2, <2>1 DEF OrdersServed, OrderTypeOK
  <1>8. OrderTypeOK'
    <2>1. RunCall \subseteq RunCall' /\ BatchCall \subseteq BatchCall' /\ AppendCall \subseteq AppendCall'
      <3>1. 0..Len(orders) \subseteq 0..Len(orders') /\ DOMAIN orders \subseteq DOMAIN orders' BY <1>1, <1>5
      <3> QED BY <3>1 DEF RunCall, BatchCall, AppendCall
    <2>2. \A d \in Callers : caller'[d].does = "append" => orders'[caller'[d].task].batch
      <3> SUFFICES ASSUME NEW d \in Callers, caller'[d].does = "append" PROVE orders'[caller'[d].task].batch
        OBVIOUS
      <3>1. caller'[d] = caller[d] BY <1>7
      <3> QED BY <1>5, <3>1, CallerParts
    <2>3. \A t \in DOMAIN orders : orders[t].origin \in 0..(t - 1) /\ orders[t].beside \subseteq 1..(t - 1)
                                   /\ (orders[t].origin # 0 => ~orders[t].batch)
                                   /\ (orders[t].failedBy # "none" <=> orders[t].status = "failed")
      BY DEF OrdersServed, OrderTypeOK
    <2>4. beside \subseteq 1..(n - 1) /\ origin \in 0..(n - 1) BY <1>d, <1>n, <1>1
    <2>5. n <= MaxOrders BY <1>1, <1>2, <1>n, OrderBounds
    <2>6. plans' \cup failing' \subseteq DOMAIN orders' BY <1>1, <1>2, <1>5, <1>n
    <2>7. caller' \in [Callers -> {Idle} \cup RunCall' \cup BatchCall' \cup AppendCall'] BY <1>7, <2>1
    <2>8. \A t \in DOMAIN orders' : orders'[t].origin \in 0..(t - 1) /\ orders'[t].beside \subseteq 1..(t - 1)
                                    /\ (orders'[t].origin # 0 => ~orders'[t].batch)
                                    /\ (orders'[t].failedBy # "none" <=> orders'[t].status = "failed")
      BY <1>4, <1>5, <2>3, <2>4
    <2>9. Idle' = Idle BY DEF Idle
    <2> QED BY <1>5, <2>2, <2>5, <2>6, <2>7, <2>8, <2>9 DEF OrderTypeOK
  <1>9. OpenIsPlanned'
    <2>1. n \in plans' /\ Planned(o) = {} BY <1>2, <1>4 DEF Planned
    <2>2. \A u \in DOMAIN orders : u \notin plans' => u \notin plans BY <1>2
    <2> QED BY <1>5, <2>1, <2>2 DEF OrdersServed, OpenIsPlanned
  <1>10. RunsDisjoint'
    <2>1. ASSUME NEW u \in Flying, ~orders[u].batch, batch = FALSE, orders[u].refs \cap refs # {} PROVE u \in beside
      BY <1>d, <1>6, <2>1, <1>n DEF KnownFree
    <2>2. \A t, u \in Flying' : u < t /\ ~orders'[u].batch /\ ~orders'[t].batch /\ orders'[u].refs \cap orders'[t].refs # {}
                                 => u \in orders'[t].beside
      <3> SUFFICES ASSUME NEW t \in Flying', NEW u \in Flying', u < t, ~orders'[u].batch, ~orders'[t].batch,
                          orders'[u].refs \cap orders'[t].refs # {}
                   PROVE  u \in orders'[t].beside
        OBVIOUS
      <3>1. CASE t \in Flying
        <4>1. u \in Flying BY <1>d, <1>6, <1>n, <3>1
        <4> QED BY <1>5, <1>6, <3>1, <4>1 DEF OrdersServed, RunsDisjoint
      <3>2. CASE t = n
        <4>1. u \in Flying BY <1>d, <1>6, <1>n, <3>2
        <4> QED BY <1>4, <1>5, <1>6, <2>1, <3>2, <4>1
      <3> QED BY <1>6, <3>1, <3>2
    <2>3. ASSUME NEW d \in Callers, caller'[d].does = "run", NEW u \in Flying', u <= caller'[d].known, ~orders'[u].batch
          PROVE  orders'[u].refs \cap caller'[d].refs = {}
      <3>1. caller'[d] = caller[d] BY <1>7, <2>3
      <3>2. caller[d].known \in 0..Len(orders) BY <2>3, <3>1, CallerParts
      <3>3. u \in Flying BY <1>d, <1>6, <1>n, <2>3, <3>1, <3>2
      <3> QED BY <1>5, <1>6, <2>3, <3>1, <3>3 DEF OrdersServed, RunsDisjoint
    <2> QED BY <2>2, <2>3 DEF RunsDisjoint
  <1>11. RetriesFailures'
    <2>1. \A t \in DOMAIN orders : orders[t].origin # 0 => orders[t].origin \in DOMAIN orders
      <3> SUFFICES ASSUME NEW t \in DOMAIN orders, orders[t].origin # 0 PROVE orders[t].origin \in DOMAIN orders
        OBVIOUS
      <3>1. orders[t].origin \in 0..(t - 1) /\ t \in 1..Len(orders) BY <1>1 DEF OrdersServed, OrderTypeOK
      <3> QED BY <1>d, <1>1, <3>1
    <2>2. \A d \in Callers : caller'[d].does = "run" => caller'[d] = caller[d] BY <1>7
    <2>3. \A d \in Callers : caller[d].does = "run" /\ caller[d].origin # 0 => caller[d].origin \in DOMAIN orders
      BY CallerParts
    <2>4. origin # 0 => origin \in DOMAIN orders BY <1>1, <1>d
    <2>5. \A t \in DOMAIN orders' : orders'[t].origin # 0
            => \A r \in orders'[t].refs : MayRepeat(orders'[orders'[t].origin], r)
      <3> SUFFICES ASSUME NEW t \in DOMAIN orders', orders'[t].origin # 0, NEW r \in orders'[t].refs
                   PROVE  MayRepeat(orders'[orders'[t].origin], r)
        OBVIOUS
      <3>1. CASE t = n BY <1>4, <1>5, <2>4, <3>1 DEF LostBy
      <3>2. CASE t \in DOMAIN orders BY <1>5, <2>1, <3>2 DEF OrdersServed, RetriesFailures
      <3> QED BY <1>5, <3>1, <3>2
    <2>6. \A d \in Callers : caller'[d].does = "run" /\ caller'[d].origin # 0
            => \A r \in caller'[d].refs : MayRepeat(orders'[caller'[d].origin], r)
      <3> SUFFICES ASSUME NEW d \in Callers, caller'[d].does = "run", caller'[d].origin # 0, NEW r \in caller'[d].refs
                   PROVE  MayRepeat(orders'[caller'[d].origin], r)
        OBVIOUS
      <3> QED BY <1>5, <2>2, <2>3 DEF OrdersServed, RetriesFailures
    <2> QED BY <2>5, <2>6 DEF RetriesFailures
  <1>12. StatusOfUnits'
    <2>1. n \notin failing BY <1>1, <1>n
    <2>2. \A t \in DOMAIN orders' : t \in DOMAIN orders \/ t = n BY <1>5
    <2> QED BY <1>2, <1>4, <1>5, <2>1, <2>2 DEF OrdersServed, StatusOfUnits
  <1> QED BY <1>8, <1>9, <1>10, <1>11, <1>12 DEF OrdersServed


\* A request is looked up: its caller starts to hold what it saw.
LEMMA CallerStarts ==
    ASSUME OrdersServed, NEW c \in Callers, NEW call \in RunCall \cup BatchCall \cup AppendCall,
           caller' = [caller EXCEPT ![c] = call], UNCHANGED <<orders, plans, failing>>,
           call.does = "append" => orders[call.task].batch,
           call.does = "run" => KnownFree(call.refs, call.known) /\ LostBy(call.origin, call.refs)
    PROVE  OrdersServed'
  <1>1. /\ caller' \in [Callers -> {Idle} \cup RunCall \cup BatchCall \cup AppendCall]
        /\ caller'[c] = call /\ \A d \in Callers : d # c => caller'[d] = caller[d]
    BY DEF OrdersServed, OrderTypeOK
  <1>2. OrderTypeOK'
    <2>1. RunCall' = RunCall /\ BatchCall' = BatchCall /\ AppendCall' = AppendCall BY DEF RunCall, BatchCall, AppendCall
    <2>2. \A d \in Callers : caller'[d].does = "append" => orders[caller'[d].task].batch
      BY <1>1 DEF OrdersServed, OrderTypeOK
    <2> QED BY <1>1, <2>1, <2>2 DEF OrdersServed, OrderTypeOK
  <1>3. OpenIsPlanned' BY DEF OrdersServed, OpenIsPlanned
  <1>4. RunsDisjoint'
    <2>1. Flying' = Flying BY DEF Flying
    <2>2. ASSUME NEW d \in Callers, caller'[d].does = "run" PROVE KnownFree(caller'[d].refs, caller'[d].known)
      BY <1>1, <2>2 DEF OrdersServed, RunsDisjoint, KnownFree
    <2>3. \A t, u \in Flying : u < t /\ ~orders[u].batch /\ ~orders[t].batch /\ orders[u].refs \cap orders[t].refs # {}
                                 => u \in orders[t].beside
      BY DEF OrdersServed, RunsDisjoint
    <2> QED BY <2>1, <2>2, <2>3 DEF RunsDisjoint, KnownFree
  <1>5. RetriesFailures'
    <2>1. ASSUME NEW d \in Callers, caller'[d].does = "run" PROVE LostBy(caller'[d].origin, caller'[d].refs)
      BY <1>1, <2>1 DEF OrdersServed, RetriesFailures, LostBy
    <2>2. \A t \in DOMAIN orders : orders[t].origin # 0 => \A r \in orders[t].refs : MayRepeat(orders[orders[t].origin], r)
      BY DEF OrdersServed, RetriesFailures
    <2> QED BY <2>1, <2>2 DEF RetriesFailures, LostBy
  <1>6. StatusOfUnits' BY DEF OrdersServed, StatusOfUnits
  <1> QED BY <1>2, <1>3, <1>4, <1>5, <1>6 DEF OrdersServed

LEMMA OrderRunServed ==
    ASSUME OrdersServed, NEW c \in Callers, NEW lane \in LaneAsked, NEW refs \in SUBSET Refs, NEW origin \in 0..Len(orders),
           OrderRun(c, lane, refs, origin), LostBy(origin, refs)
    PROVE  OrdersServed'
  <1> DEFINE free == DropInFlight(refs)
             call == [does |-> "run", lane |-> lane, refs |-> free, origin |-> origin, known |-> Len(orders)]
  <1>1. Len(orders) \in Nat BY DEF OrdersServed, OrderTypeOK
  <1>2. free \subseteq refs /\ \A u \in Flying : orders[u].refs \cap free = {} BY DEF DropInFlight, BusyRefs
  <1>3. caller' = [caller EXCEPT ![c] = call] /\ UNCHANGED <<orders, plans, failing>> BY DEF OrderRun
  <1> HIDE DEF free
  <1>4. Len(orders) \in 0..Len(orders) /\ free \subseteq Refs BY <1>1, <1>2
  <1>5. call \in RunCall BY <1>4, Zenon DEF RunCall
  <1>6. call.does = "run" /\ call.refs = free /\ call.origin = origin OBVIOUS
  <1>7. KnownFree(call.refs, call.known) BY <1>2, <1>6 DEF KnownFree
  <1>8. LostBy(call.origin, call.refs) BY <1>2, <1>6 DEF LostBy
  <1> HIDE DEF call
  <1> QED BY <1>3, <1>5, <1>6, <1>7, <1>8, CallerStarts

LEMMA OrderRetryServed ==
    ASSUME OrdersServed, NEW c \in Callers, NEW t \in DOMAIN orders, OrderRetry(c, t) PROVE OrdersServed'
  <1> DEFINE scope == RetryScope(t)
  <1>1. Fits(orders[t]) /\ t \in 0..Len(orders) BY OrderParts
  <1>2. orders[t].refs \subseteq Refs BY <1>1 DEF Fits, Order
  <1>3. scope \subseteq Refs BY <1>2 DEF RetryScope, FailedRefs
  <1>4. \A r \in scope : MayRepeat(orders[t], r)
    <2>1. CASE FailedRefs(t) # {}
      <3>1. scope = FailedRefs(t) BY <2>1 DEF RetryScope
      <3> QED BY <3>1 DEF FailedRefs, MayRepeat, Lost
    <2>2. CASE FailedRefs(t) = {} /\ orders[t].status = "failed"
      <3>1. scope = orders[t].refs BY <2>2 DEF RetryScope
      <3>2. orders[t].failedBy \in {"units", "plan", "hand"} BY <1>1, <2>2 DEF Fits, Order
      <3>3. CASE FailedOver(orders[t]) BY <3>3 DEF MayRepeat
      <3>4. CASE ~FailedOver(orders[t])
        <4>1. \A r \in Refs : orders[t].unit[r] \in {"none", "cancelled", "failed"}
          BY <1>1, <3>2, <3>4 DEF Fits, FailedOver
        <4> QED BY <1>2, <2>2, <3>1, <4>1 DEF MayRepeat, Lost
      <3> QED BY <3>3, <3>4
    <2>3. CASE FailedRefs(t) = {} /\ orders[t].status # "failed"
      <3>1. scope = {} BY <2>3 DEF RetryScope
      <3> QED BY <3>1
    <2> QED BY <2>1, <2>2, <2>3
  <1>5. LostBy(t, scope) /\ OrderRun(c, "", scope, t) BY <1>4 DEF LostBy, OrderRetry
  <1>6. "" \in LaneAsked BY DEF LaneAsked
  <1> HIDE DEF scope
  <1> QED BY <1>1, <1>3, <1>5, <1>6, OrderRunServed, Zenon


LEMMA OrderBatchServed ==
    ASSUME OrdersServed, NEW c \in Callers, NEW refs \in SUBSET Refs, OrderBatch(c, refs) PROVE OrdersServed'
  <1>1. Len(orders) \in Nat /\ \A t \in DOMAIN orders : t \in Nat /\ orders[t].refs \subseteq Refs
    <2>1. \A t \in DOMAIN orders : t \in Nat /\ orders[t] \in Order BY OrderParts DEF Fits
    <2> QED BY <2>1 DEF OrdersServed, OrderTypeOK, Order
  <1>2. UNCHANGED <<orders, plans, failing>> BY DEF OrderBatch
  <1>3. CASE OpenBatch = {}
    <2> DEFINE call == [does |-> "batch", refs |-> refs, known |-> Len(orders)]
    <2>1. caller' = [caller EXCEPT ![c] = call] BY <1>3 DEF OrderBatch
    <2>2. call \in BatchCall /\ call.does = "batch" BY <1>1 DEF BatchCall
    <2> HIDE DEF call
    <2> QED BY <1>2, <2>1, <2>2, CallerStarts
  <1>4. CASE OpenBatch # {}
    <2> DEFINE first == CHOOSE t \in OpenBatch : \A u \in OpenBatch : t <= u
               call == [does |-> "append", task |-> first, refs |-> orders[first].refs \cup refs]
    <2>1. caller' = [caller EXCEPT ![c] = call] BY <1>4, Zenon DEF OrderBatch
    <2>2. first \in OpenBatch
      <3>1. OpenBatch \subseteq Nat BY <1>1 DEF OpenBatch
      <3>2. \E t \in OpenBatch : \A u \in OpenBatch : t <= u BY <1>4, <3>1, LeastNumber
      <3> QED BY <3>2
    <2> HIDE DEF first
    <2>3. first \in DOMAIN orders /\ orders[first].batch /\ orders[first].refs \cup refs \subseteq Refs
      BY <1>1, <2>2 DEF OpenBatch
    <2>4. call \in AppendCall /\ call.does = "append" /\ orders[call.task].batch BY <2>3 DEF AppendCall
    <2> HIDE DEF call
    <2> QED BY <1>2, <2>1, <2>4, CallerStarts
  <1> QED BY <1>3, <1>4

LEMMA FinishServed ==
    ASSUME OrdersServed, NEW c \in Callers, FinishRun(c) \/ FinishBatch(c) PROVE OrdersServed'
  <1>1. CASE FinishRun(c)
    <2> DEFINE k == caller[c]
    <2>1. k.does = "run" /\ Create(c, FALSE, k.lane, k.refs, k.origin, k.known) BY <1>1 DEF FinishRun
    <2>2. k \in RunCall BY <2>1, CallerParts
    <2>3. k.lane \in LaneAsked /\ k.refs \in SUBSET Refs /\ k.origin \in 0..Len(orders) /\ k.known \in 0..Len(orders)
      BY <2>2, Zenon DEF RunCall
    <2>4. LaneFor(k.lane, k.refs) \in {"now", "queue"} BY <2>3, SpawningAssumption, Zenon DEF LaneFor, LaneAsked
    <2>5. KnownFree(k.refs, k.known) BY <2>1 DEF OrdersServed, RunsDisjoint, KnownFree
    <2>6. LostBy(k.origin, k.refs) BY <2>1 DEF OrdersServed, RetriesFailures, LostBy
    <2> HIDE DEF k
    <2> QED BY <2>1, <2>3, <2>4, <2>5, <2>6, CreateServed
  <1>2. CASE FinishBatch(c)
    <2> DEFINE k == caller[c]
    <2>1. k.does = "batch" /\ Create(c, TRUE, "", k.refs, 0, k.known) BY <1>2 DEF FinishBatch
    <2>2. k \in BatchCall BY <2>1, CallerParts
    <2>3. k.refs \in SUBSET Refs /\ k.known \in 0..Len(orders) BY <2>2 DEF BatchCall
    <2>4. LaneFor("", k.refs) \in {"now", "queue"} BY Zenon DEF LaneFor
    <2>5. 0 \in 0..Len(orders) BY DEF OrdersServed, OrderTypeOK
    <2>6. LostBy(0, k.refs) BY DEF LostBy
    <2> HIDE DEF k
    <2> QED BY <2>1, <2>3, <2>4, <2>5, <2>6, CreateServed
  <1> QED BY <1>1, <1>2

\* The list of a batch task grows: it is planned again, and runs do not look at it.
LEMMA AppendServed ==
    ASSUME OrdersServed, NEW c \in Callers, AppendRefs(c) PROVE OrdersServed'
  <1> DEFINE t == caller[c].task
             refs == caller[c].refs
             l == [orders[t] EXCEPT !.refs = refs]
  <1>1. t \in DOMAIN orders /\ orders[t].batch /\ refs \subseteq Refs BY CallerParts DEF AppendRefs
  <1>2. Fits(orders[t]) /\ orders[t] \in Order BY <1>1, OrderParts DEF Fits
  <1>3. orders' = [orders EXCEPT ![t] = l] /\ plans' = plans \cup {t} /\ failing' = failing /\ caller' = [caller EXCEPT ![c] = Idle]
    BY DEF AppendRefs
  <1> HIDE DEF t, refs
  <1>4. /\ l \in Order /\ l.refs = refs /\ l.batch = orders[t].batch /\ l.origin = orders[t].origin
        /\ l.beside = orders[t].beside /\ l.status = orders[t].status /\ l.unit = orders[t].unit
        /\ l.failedBy = orders[t].failedBy
    BY <1>1, <1>2 DEF Order
  <1> HIDE DEF l
  <1>5. orders \in Seq(Order) BY DEF OrdersServed, OrderTypeOK
  <1>6. /\ orders' \in Seq(Order) /\ Len(orders') = Len(orders) /\ DOMAIN orders' = DOMAIN orders
        /\ orders'[t] = l /\ \A u \in DOMAIN orders : u # t => orders'[u] = orders[u]
    BY <1>1, <1>3, <1>4, <1>5
  <1>7. \A u \in DOMAIN orders :
          /\ orders'[u].batch = orders[u].batch /\ orders'[u].origin = orders[u].origin
          /\ orders'[u].beside = orders[u].beside /\ orders'[u].status = orders[u].status /\ orders'[u].unit = orders[u].unit
          /\ orders'[u].failedBy = orders[u].failedBy
          /\ ~orders[u].batch => orders'[u] = orders[u]
    BY <1>1, <1>4, <1>6
  <1>8. /\ caller' \in [Callers -> {Idle} \cup RunCall \cup BatchCall \cup AppendCall]
        /\ \A d \in Callers : caller'[d].does # "nothing" => caller'[d] = caller[d]
    <2>1. Idle.does = "nothing" BY DEF Idle
    <2> QED BY <1>3, <2>1 DEF OrdersServed, OrderTypeOK
  <1>9. OrderTypeOK'
    <2>1. RunCall' = RunCall /\ BatchCall' = BatchCall /\ AppendCall' = AppendCall /\ Idle' = Idle
      BY <1>6 DEF RunCall, BatchCall, AppendCall, Idle
    <2>2. ASSUME NEW d \in Callers, caller'[d].does = "append" PROVE orders'[caller'[d].task].batch
      <3>1. caller'[d] = caller[d] BY <1>8, <2>2
      <3> QED BY <1>7, <2>2, <3>1, CallerParts
    <2>3. plans' \cup failing' \subseteq DOMAIN orders' BY <1>1, <1>3, <1>6 DEF OrdersServed, OrderTypeOK
    <2> QED BY <1>6, <1>7, <1>8, <2>1, <2>2, <2>3 DEF OrdersServed, OrderTypeOK
  <1>10. OpenIsPlanned' BY <1>1, <1>3, <1>4, <1>6 DEF OrdersServed, OpenIsPlanned
  <1>11. RunsDisjoint'
    <2>1. Flying' = Flying BY <1>6, <1>7 DEF Flying
    <2>2. \A d \in Callers : caller'[d].does = "run" => caller'[d] = caller[d] BY <1>8
    <2>3. Flying \subseteq DOMAIN orders BY DEF Flying
    <2> QED BY <1>7, <2>1, <2>2, <2>3 DEF OrdersServed, RunsDisjoint
  <1>12. RetriesFailures'
    <2>1. \A u \in DOMAIN orders, r \in Refs : MayRepeat(orders[u], r) <=> MayRepeat(orders'[u], r)
      BY <1>7 DEF MayRepeat, Lost, FailedOver
    <2>2. \A u \in DOMAIN orders : orders[u].origin # 0 =>
            orders[u].origin \in DOMAIN orders /\ orders'[u] = orders[u] /\ orders[u].refs \subseteq Refs
      <3> SUFFICES ASSUME NEW u \in DOMAIN orders, orders[u].origin # 0
                   PROVE  orders[u].origin \in DOMAIN orders /\ orders'[u] = orders[u] /\ orders[u].refs \subseteq Refs
        OBVIOUS
      <3>1. u \in 1..Len(orders) /\ orders[u].origin \in 0..(u - 1) /\ ~orders[u].batch /\ DOMAIN orders = 1..Len(orders)
            /\ orders[u] \in Order
        BY <1>5 DEF OrdersServed, OrderTypeOK
      <3>2. orders[u].origin \in DOMAIN orders BY <3>1
      <3> QED BY <1>7, <3>1, <3>2 DEF Order
    <2>3. \A d \in Callers : caller'[d].does = "run" => caller'[d] = caller[d] BY <1>8
    <2>4. ASSUME NEW d \in Callers, caller'[d].does = "run", caller'[d].origin # 0
          PROVE  \A r \in caller'[d].refs : MayRepeat(orders'[caller'[d].origin], r)
      <3>1. caller[d].does = "run" /\ caller'[d] = caller[d] BY <2>3, <2>4
      <3>2. caller[d].origin \in DOMAIN orders /\ caller[d].refs \subseteq Refs BY <2>4, <3>1, CallerParts
      <3> QED BY <2>1, <2>4, <3>1, <3>2 DEF OrdersServed, RetriesFailures
    <2>5. \A u \in DOMAIN orders' : orders'[u].origin # 0 => \A r \in orders'[u].refs : MayRepeat(orders'[orders'[u].origin], r)
      BY <1>6, <1>7, <2>1, <2>2 DEF OrdersServed, RetriesFailures
    <2> QED BY <2>4, <2>5 DEF RetriesFailures
  <1>13. StatusOfUnits' BY <1>3, <1>6, <1>7 DEF OrdersServed, StatusOfUnits
  <1> QED BY <1>9, <1>10, <1>11, <1>12, <1>13 DEF OrdersServed


\* Planning, work and cancellation change one task, which advances.
LEMMA WorkServed ==
    ASSUME OrdersServed, WorkOrders PROVE OrdersServed'
  <1>1. plans \subseteq DOMAIN orders BY DEF OrdersServed, OrderTypeOK
  <1>2. ASSUME NEW t \in DOMAIN orders, PlanTask(t) PROVE OrdersServed'
    <2> DEFINE o == orders[t]
    <2>1. Fits(o) BY OrderParts
    <2>2. plans' = plans \ {t} /\ UNCHANGED <<failing, caller>> BY <1>2 DEF PlanTask
    <2>3. CASE ~Plannable(o) /\ UNCHANGED orders
      <3>1. orders' = [orders EXCEPT ![t] = o] /\ Advances(o, o)
        <4>1. orders \in Seq(Order) BY DEF OrdersServed, OrderTypeOK
        <4> QED BY <2>1, <2>3, <4>1 DEF Advances
      <3>2. o.status = "open" => Planned(o) # {} /\ ~o.batch BY <2>3 DEF Plannable
      <3>3. o.status = "open" => IsPlanned(o) BY <3>2 DEF OrdersServed, OpenIsPlanned
      <3>4. t \in failing' => Bare(o) BY <2>2, FailingIsBare
      <3> HIDE DEF o
      <3> QED BY <2>2, <3>1, <3>3, <3>4, OrderAdvances DEF o
    <2>4. ASSUME Plannable(o), NEW new \in NewUnits(o), orders' = [orders EXCEPT ![t] = PlanUnits(o, new)]
          PROVE  OrdersServed'
      <3>1. o.status = "open" BY <2>4 DEF Plannable
      <3>2. Advances(o, PlanUnits(o, new)) /\ (PlanUnits(o, new).status = "open" => IsPlanned(PlanUnits(o, new)))
        BY <2>1, <3>1, PlanAdvances
      <3>3. t \notin failing' BY <2>2, <3>1, FailingIsBare DEF Bare
      <3> HIDE DEF o
      <3> QED BY <2>2, <2>4, <3>2, <3>3, OrderAdvances DEF o
    <2> QED BY <1>2, <2>3, <2>4 DEF PlanTask
  <1>3. ASSUME NEW t \in DOMAIN orders, PlanFails(t) PROVE OrdersServed'
    <2> DEFINE o == orders[t]
               l == Started(o)
    <2>1. Fits(o) /\ o.status = "open" /\ (Planned(o) = {} \/ o.batch) BY <1>3, OrderParts DEF PlanFails, Plannable
    <2>2. orders' = [orders EXCEPT ![t] = l] /\ plans' = plans \ {t} /\ failing' = failing \cup {t} /\ UNCHANGED caller
      BY <1>3 DEF PlanFails
    <2>3. ~o.batch => \A r \in Refs : o.unit[r] = "none" BY <2>1 DEF Planned
    <2> HIDE DEF o, l
    <2>4. Advances(o, l) /\ l.status = "in_progress" /\ l.unit = o.unit /\ l.batch = o.batch BY <2>1, StartAdvances DEF l
    <2>5. Bare(l) BY <2>3, <2>4 DEF Bare
    <2> QED BY <2>2, <2>4, <2>5, OrderAdvances DEF o
  <1>4. ASSUME NEW t \in DOMAIN orders, FailTask(t) PROVE OrdersServed'
    <2> DEFINE o == orders[t]
               l == IF o.status = "in_progress" THEN Close(o, "failed", "plan") ELSE o
    <2>1. Fits(o) /\ Bare(o) BY <1>4, OrderParts, FailingIsBare DEF FailTask
    <2>3. orders' = [orders EXCEPT ![t] = l]
      <3>1. orders \in Seq(Order) BY DEF OrdersServed, OrderTypeOK
      <3>2. orders' = IF o.status = "in_progress" THEN [orders EXCEPT ![t] = Close(@, "failed", "plan")] ELSE orders
        BY <1>4 DEF FailTask
      <3>3. CASE o.status = "in_progress" BY <3>2, <3>3
      <3>4. CASE o.status # "in_progress"
        <4>1. l = orders[t] /\ orders' = orders BY <3>2, <3>4
        <4> HIDE DEF l
        <4> QED BY <3>1, <4>1
      <3> QED BY <3>3, <3>4
    <2>4. failing' = failing \ {t} /\ UNCHANGED <<plans, caller>> BY <1>4 DEF FailTask
    <2>5. Advances(o, l) /\ l.status # "open"
      <3>1. CASE o.status = "in_progress" BY <2>1, <3>1, CloseAdvances
      <3>2. CASE o.status # "in_progress" BY <2>1, <3>2 DEF Advances, Bare
      <3> QED BY <3>1, <3>2
    <2> HIDE DEF o, l
    <2> QED BY <2>3, <2>4, <2>5, OrderAdvances DEF o
  <1>7. ASSUME NEW t \in DOMAIN orders, NEW status \in TaskStates, SetTaskStatus(t, status) PROVE OrdersServed'
    <2> DEFINE o == orders[t]
               l == IF status = "in_progress" THEN Started(o) ELSE Close(o, status, "hand")
    <2>1. Fits(o) /\ o.status \in TaskStates BY OrderParts DEF Fits, Order
    <2>2. status \in StepsFrom[o.status] /\ orders' = [orders EXCEPT ![t] = l] /\ UNCHANGED <<plans, failing, caller>>
      BY <1>7 DEF SetTaskStatus
    <2>3. o.status \in {"open", "in_progress"} /\ status \in {"in_progress", "done", "failed", "cancelled"}
          /\ (status = "in_progress" => o.status = "open")
      BY <2>1, <2>2 DEF StepsFrom, TaskStates
    <2>4. Advances(o, l) /\ l.status # "open"
      <3>1. CASE status = "in_progress" BY <2>1, <2>3, <3>1, StartAdvances
      <3>2. CASE status # "in_progress" BY <2>1, <2>3, <3>2, CloseAdvances
      <3> QED BY <3>1, <3>2
    <2>5. t \in failing' => Bare(l) BY <2>2, <2>4, FailingIsBare DEF Advances
    <2> HIDE DEF o, l
    <2> QED BY <2>2, <2>4, <2>5, OrderAdvances DEF o
  <1>5. ASSUME NEW t \in DOMAIN orders, NEW r \in Refs, ClaimUnit(t, r) PROVE OrdersServed'
    <2> DEFINE l == Claim(orders[t], r)
    <2>1. Advances(orders[t], l) /\ l.status # "open" BY <1>5, OrderParts, ClaimAdvances DEF ClaimUnit
    <2>2. orders' = [orders EXCEPT ![t] = l] /\ UNCHANGED <<plans, failing, caller>> BY <1>5 DEF ClaimUnit
    <2>3. t \in failing' => Bare(l) BY <2>1, <2>2, FailingIsBare DEF Advances
    <2> HIDE DEF l
    <2> QED BY <2>1, <2>2, <2>3, OrderAdvances
  <1>6. ASSUME NEW t \in DOMAIN orders, NEW r \in Refs, NEW works \in BOOLEAN, WorkUnit(t, r, works) PROVE OrdersServed'
    <2> DEFINE l == Report(orders[t], r, works)
    <2>1. Advances(orders[t], l) /\ l.status # "open" BY <1>6, OrderParts, ReportAdvances DEF WorkUnit
    <2>2. orders' = [orders EXCEPT ![t] = l] /\ UNCHANGED <<plans, failing, caller>> BY <1>6 DEF WorkUnit
    <2>3. t \in failing' => Bare(l) BY <2>1, <2>2, FailingIsBare DEF Advances
    <2> HIDE DEF l
    <2> QED BY <2>1, <2>2, <2>3, OrderAdvances
  <1> QED BY <1>2, <1>3, <1>4, <1>5, <1>6, <1>7 DEF WorkOrders

LEMMA OrderStep == OrdersServed /\ [OrdersNext]_spawnVars => OrdersServed'
  <1> SUFFICES ASSUME OrdersServed, [OrdersNext]_spawnVars PROVE OrdersServed'
    OBVIOUS
  <1>1. ASSUME NEW c \in Callers, NEW lane \in Lanes, NEW refs \in SUBSET Refs, OrderRun(c, lane, refs, 0)
        PROVE  OrdersServed'
    <2>1. LostBy(0, refs) BY DEF LostBy
    <2>2. 0 \in 0..Len(orders) BY DEF OrdersServed, OrderTypeOK
    <2>3. lane \in LaneAsked BY DEF LaneAsked
    <2> QED BY <1>1, <2>1, <2>2, <2>3, OrderRunServed
  <1>2. ASSUME NEW c \in Callers, NEW t \in DOMAIN orders, OrderRetry(c, t) PROVE OrdersServed' BY <1>2, OrderRetryServed
  <1>3. ASSUME NEW c \in Callers, FinishRun(c) \/ FinishBatch(c) PROVE OrdersServed' BY <1>3, FinishServed
  <1>4. ASSUME NEW c \in Callers, NEW refs \in SUBSET Refs, OrderBatch(c, refs) PROVE OrdersServed' BY <1>4, OrderBatchServed
  <1>5. ASSUME NEW c \in Callers, AppendRefs(c) PROVE OrdersServed' BY <1>5, AppendServed
  <1>6. CASE WorkOrders BY <1>6, WorkServed
  <1>7. CASE UNCHANGED spawnVars
    <2>1. UNCHANGED <<orders, plans, failing, caller>> BY <1>7 DEF spawnVars
    <2>2. OrderTypeOK' BY <2>1 DEF OrdersServed, OrderTypeOK, RunCall, BatchCall, AppendCall
    <2>3. RunsDisjoint' /\ OpenIsPlanned' BY <2>1 DEF OrdersServed, RunsDisjoint, Flying, OpenIsPlanned
    <2>4. RetriesFailures' /\ StatusOfUnits' BY <2>1 DEF OrdersServed, RetriesFailures, StatusOfUnits
    <2> QED BY <2>2, <2>3, <2>4 DEF OrdersServed
  <1> QED BY <1>1, <1>2, <1>3, <1>4, <1>5, <1>6, <1>7 DEF OrdersNext, RunsNext, BatchNext

\* Orders are served, for any subjects, callers and bounds and with runs,
\* retries and batches side by side: an open task is planned or about to be,
\* two runs share a subject only when neither could know of the other, and a
\* retry repeats only what its original lost for good, unless that was failed
\* over the head of its units by a request or by a later plan of a batch (run_service.spawn,
\* retry_service.retry, task_service.spawn, unit_planner.plan_task).
THEOREM OrdersAreServed == OrdersSpec => []OrdersServed
  <1>1. OrdersInit => OrdersServed
    <2> SUFFICES ASSUME OrdersInit PROVE OrdersServed
      OBVIOUS
    <2>1. orders \in Seq(Order) /\ Len(orders) = 0 /\ DOMAIN orders = {} /\ plans = {} /\ failing = {} BY DEF OrdersInit
    <2>2. caller = [c \in Callers |-> Idle] /\ Idle.does = "nothing" BY DEF OrdersInit, Idle
    <2>3. OrderTypeOK BY <2>1, <2>2, OrderBounds DEF OrderTypeOK
    <2>4. Flying = {} BY <2>1 DEF Flying
    <2> QED BY <2>1, <2>2, <2>3, <2>4 DEF OrdersServed, OpenIsPlanned, RunsDisjoint, RetriesFailures, StatusOfUnits
  <1> QED BY <1>1, OrderStep, PTL DEF OrdersSpec

-----------------------------------------------------------------------------
(* The staged file of an import: FileServes is inductive, since the first   *)
(* tasks of an import exist before any of its tasks can be old enough to    *)
(* start a prune                                                            *)

TaskRecord == [type : WorkTypes, try : 0..MaxRetries,
               status : CsvLive \cup {"done", "failed", "unresolved", "cancelled"}, age : 0..Retention]

\* A task becomes another of the same try, live only if it was, and the file rests.
LEMMA TaskMoves ==
    ASSUME FileServes, NEW k \in csvTasks, NEW l \in TaskRecord, Put(k, l), UNCHANGED <<upload, csvFile, pruning>>,
           l.try = k.try, l.age \in {0, k.age}, l.status \in CsvLive => k.status \in CsvLive
    PROVE  FileServes'
  <1>1. csvTasks' = (csvTasks \ {k}) \cup {l} BY DEF Put
  <1>2. CsvTypeOK' BY <1>1 DEF FileServes, CsvTypeOK, TaskRecord
  <1>3. FileOutlivesTasks' BY <1>1 DEF FileServes, FileOutlivesTasks
  <1>4. PruneComesLate' BY <1>1 DEF FileServes, PruneComesLate
  <1> QED BY <1>2, <1>3, <1>4 DEF FileServes

LEMMA TaskActions ==
    ASSUME FileServes, NEW k \in csvTasks,
           \/ WorkCsv(k) \/ \E resolves \in BOOLEAN : PlanCsv(k, resolves)
           \/ \E s \in {"done", "failed", "cancelled"} : EndCsv(k, s)
    PROVE  FileServes'
  <1>0. k \in TaskRecord /\ Retention \in Nat BY CsvAssumption DEF FileServes, CsvTypeOK, TaskRecord
  <1>1. CASE WorkCsv(k)
    <2>1. [k EXCEPT !.status = "in_progress"] \in TaskRecord BY <1>0 DEF TaskRecord, CsvLive
    <2> QED BY <1>0, <1>1, <2>1, TaskMoves DEF WorkCsv, TaskRecord, CsvLive
  <1>2. ASSUME NEW resolves \in BOOLEAN, PlanCsv(k, resolves) PROVE FileServes'
    <2> DEFINE l == [k EXCEPT !.status = IF resolves THEN "planned" ELSE "unresolved"]
    <2>1. l \in TaskRecord /\ l.try = k.try /\ l.age = k.age BY <1>0 DEF TaskRecord, CsvLive
    <2>2. k.status \in CsvLive /\ Put(k, l) /\ UNCHANGED <<upload, csvFile, pruning>> BY <1>2 DEF PlanCsv, CsvLive
    <2> QED BY <2>1, <2>2, TaskMoves
  <1>3. ASSUME NEW s \in {"done", "failed", "cancelled"}, EndCsv(k, s) PROVE FileServes'
    <2> DEFINE l == [k EXCEPT !.status = s, !.age = 0]
    <2>0. 0 \in 0..Retention /\ s \notin CsvLive BY <1>0 DEF CsvLive
    <2>1. l \in TaskRecord /\ l.try = k.try /\ l.age = 0 /\ l.status \notin CsvLive
      <3>1. l \in TaskRecord BY <1>0, <2>0 DEF TaskRecord
      <3>2. l.try = k.try /\ l.age = 0 /\ l.status = s BY <1>0 DEF TaskRecord
      <3> QED BY <2>0, <3>1, <3>2
    <2>2. Put(k, l) /\ UNCHANGED <<upload, csvFile, pruning>> BY <1>3 DEF EndCsv
    <2> QED BY <2>1, <2>2, TaskMoves
  <1> QED BY <1>1, <1>2, <1>3

LEMMA NewTaskRecord ==
    ASSUME NEW w \in WorkTypes, NEW try \in 0..MaxRetries
    PROVE  /\ CsvTask(w, try) \in TaskRecord /\ CsvTask(w, try).try = try /\ CsvTask(w, try).age = 0
  BY CsvAssumption DEF CsvTask, TaskRecord, CsvLive

LEMMA ImportActions ==
    ASSUME FileServes,
           \/ SpawnRefused \/ \E valid \in BOOLEAN : ValidateAndStage(valid)
           \/ \E w \in WorkTypes : SpawnType(w)
           \/ \E k \in csvTasks : RetryCsv(k)
    PROVE  FileServes'
  <1>1. CASE SpawnRefused
    BY <1>1 DEF SpawnRefused, FileServes, CsvTypeOK, FileOutlivesTasks, PruneComesLate
  <1>2. ASSUME NEW valid \in BOOLEAN, ValidateAndStage(valid) PROVE FileServes'
    <2>1. csvTasks = {} /\ csvTasks' = {} /\ pruning = "no" /\ pruning' = "no"
      BY <1>2 DEF ValidateAndStage, FileServes, PruneComesLate
    <2>2. CASE valid BY <1>2, <2>1, <2>2 DEF ValidateAndStage, FileServes, CsvTypeOK, FileOutlivesTasks, PruneComesLate
    <2>3. CASE ~valid BY <1>2, <2>1, <2>3 DEF ValidateAndStage, FileServes, CsvTypeOK, FileOutlivesTasks, PruneComesLate
    <2> QED BY <2>2, <2>3
  <1>3. ASSUME NEW w \in WorkTypes, SpawnType(w) PROVE FileServes'
    <2> DEFINE l == CsvTask(w, 0)
    <2>1. l \in TaskRecord /\ l.age = 0 BY NewTaskRecord, CsvAssumption
    <2>2. /\ upload = "spawning" /\ csvTasks' = csvTasks \cup {l} /\ upload' \in {"spawning", "spawned"}
          /\ UNCHANGED <<csvFile, pruning>>
      BY <1>3 DEF SpawnType
    <2> HIDE DEF l
    <2>3. csvFile = "staged" /\ pruning = "no" BY <2>2 DEF FileServes, PruneComesLate
    <2>4. CsvTypeOK' BY <2>1, <2>2 DEF FileServes, CsvTypeOK, TaskRecord
    <2>5. FileOutlivesTasks' BY <2>2, <2>3 DEF FileOutlivesTasks
    <2>6. PruneComesLate' BY <2>1, <2>2, <2>3 DEF FileServes, PruneComesLate
    <2> QED BY <2>4, <2>5, <2>6 DEF FileServes
  <1>4. ASSUME NEW k \in csvTasks, RetryCsv(k) PROVE FileServes'
    <2> DEFINE l == CsvTask(k.type, k.try + 1)
    <2>1. k \in TaskRecord /\ k.try < MaxRetries /\ csvTasks' = csvTasks \cup {l} /\ UNCHANGED <<upload, csvFile, pruning>>
      BY <1>4 DEF RetryCsv, FileServes, CsvTypeOK, TaskRecord
    <2>2. k.type \in WorkTypes /\ k.try + 1 \in 0..MaxRetries /\ k.try + 1 > 0
      BY <2>1, CsvAssumption DEF TaskRecord
    <2>3. l \in TaskRecord /\ l.age = 0 /\ l.try > 0 BY <2>2, NewTaskRecord
    <2> HIDE DEF l
    <2>4. CsvTypeOK' BY <2>1, <2>3 DEF FileServes, CsvTypeOK, TaskRecord
    <2>5. FileOutlivesTasks' BY <2>1, <2>3 DEF FileServes, FileOutlivesTasks
    <2>6. PruneComesLate' BY <2>1, <2>3 DEF FileServes, PruneComesLate
    <2> QED BY <2>4, <2>5, <2>6 DEF FileServes
  <1> QED BY <1>1, <1>2, <1>3, <1>4

LEMMA PruneActions ==
    ASSUME FileServes, CsvAges \/ PruneTasks \/ ReadLive \/ DropFile
    PROVE  FileServes'
  <1>1. CASE CsvAges
    <2> DEFINE Older(k) == IF k.status = "done" /\ k.age < Retention THEN [k EXCEPT !.age = @ + 1] ELSE k
    <2>1. upload # "spawning" /\ csvTasks' = {Older(k) : k \in csvTasks} /\ UNCHANGED <<upload, csvFile, pruning>>
      BY <1>1 DEF CsvAges
    <2>2. \A k \in csvTasks : k \in TaskRecord BY DEF FileServes, CsvTypeOK, TaskRecord
    <2>3. \A k \in csvTasks : Older(k) \in TaskRecord /\ Older(k).try = k.try /\ Older(k).status = k.status
      <3> SUFFICES ASSUME NEW k \in csvTasks
                   PROVE  Older(k) \in TaskRecord /\ Older(k).try = k.try /\ Older(k).status = k.status
        OBVIOUS
      <3>1. CASE k.status = "done" /\ k.age < Retention
        <4>1. k.age + 1 \in 0..Retention BY <2>2, <3>1, CsvAssumption DEF TaskRecord
        <4> QED BY <2>2, <3>1, <4>1 DEF TaskRecord
      <3>2. CASE ~(k.status = "done" /\ k.age < Retention) BY <2>2, <3>2
      <3> QED BY <3>1, <3>2
    <2> HIDE DEF Older
    <2>4. CsvTypeOK' BY <2>1, <2>3 DEF FileServes, CsvTypeOK, TaskRecord
    <2>5. FileOutlivesTasks' BY <2>1, <2>3 DEF FileServes, FileOutlivesTasks
    <2>6. PruneComesLate' BY <2>1, <2>3 DEF FileServes, PruneComesLate
    <2> QED BY <2>4, <2>5, <2>6 DEF FileServes
  <1>2. CASE PruneTasks
    <2>1. PICK k \in csvTasks : k.age = Retention BY <1>2 DEF PruneTasks, AgedDone
    <2>2. upload # "spawning" /\ upload # "new" BY <2>1, CsvAssumption DEF FileServes, PruneComesLate
    <2>3. csvTasks' \subseteq csvTasks /\ pruning' = "listed" /\ UNCHANGED <<upload, csvFile>> BY <1>2 DEF PruneTasks
    <2>4. CsvTypeOK' BY <2>3 DEF FileServes, CsvTypeOK
    <2>5. FileOutlivesTasks' BY <2>3 DEF FileServes, FileOutlivesTasks
    <2>6. PruneComesLate' BY <2>2, <2>3 DEF PruneComesLate
    <2> QED BY <2>4, <2>5, <2>6 DEF FileServes
  <1>3. CASE ReadLive
    <2>1. pruning = "listed" /\ UNCHANGED <<upload, csvFile, csvTasks>> BY <1>3 DEF ReadLive
    <2>2. pruning' \in {"no", "drop"} /\ (pruning' = "drop" => \A k \in csvTasks : k.status \notin CsvLive)
      BY <1>3 DEF ReadLive, StillRead
    <2>3. CsvTypeOK' /\ FileOutlivesTasks' BY <2>1, <2>2 DEF FileServes, CsvTypeOK, FileOutlivesTasks
    <2>4. PruneComesLate' BY <2>1, <2>2 DEF FileServes, PruneComesLate
    <2> QED BY <2>3, <2>4 DEF FileServes
  <1>4. CASE DropFile
    <2>1. pruning = "drop" /\ csvFile' = "dropped" /\ pruning' = "no" /\ UNCHANGED <<upload, csvTasks>> BY <1>4 DEF DropFile
    <2>2. upload # "spawning" /\ \A k \in csvTasks : k.status \in CsvLive => k.try > 0
      BY <2>1 DEF FileServes, PruneComesLate
    <2>3. CsvTypeOK' BY <2>1 DEF FileServes, CsvTypeOK
    <2>4. FileOutlivesTasks' BY <2>1, <2>2 DEF FileOutlivesTasks
    <2>5. PruneComesLate' BY <2>1, <2>2 DEF FileServes, PruneComesLate
    <2> QED BY <2>3, <2>4, <2>5 DEF FileServes
  <1> QED BY <1>1, <1>2, <1>3, <1>4

\* The staged file of an import is there for every first task of it that may
\* still read it, whichever task is pruned first and whenever a prune read the
\* live tasks (task_service.import_csv, cleanup._drop_unreferenced_csv_files).
THEOREM FilesServe == CsvSpec => []FileServes
  <1>1. CsvInit => FileServes
    BY DEF CsvInit, FileServes, CsvTypeOK, FileOutlivesTasks, PruneComesLate
  <1>2. FileServes /\ [CsvNext]_csvVars => FileServes'
    <2> SUFFICES ASSUME FileServes, [CsvNext]_csvVars PROVE FileServes'
      OBVIOUS
    <2>1. CASE SpawnRefused \/ CsvAges \/ PruneTasks \/ ReadLive \/ DropFile BY <2>1, ImportActions, PruneActions
    <2>2. ASSUME NEW valid \in BOOLEAN, ValidateAndStage(valid) PROVE FileServes' BY <2>2, ImportActions
    <2>3. ASSUME NEW w \in WorkTypes, SpawnType(w) PROVE FileServes' BY <2>3, ImportActions
    <2>4. ASSUME NEW k \in csvTasks, WorkCsv(k) PROVE FileServes' BY <2>4, TaskActions
    <2>5. ASSUME NEW k \in csvTasks, RetryCsv(k) PROVE FileServes' BY <2>5, ImportActions
    <2>6. ASSUME NEW k \in csvTasks, NEW resolves \in BOOLEAN, PlanCsv(k, resolves) PROVE FileServes'
      BY <2>6, TaskActions
    <2>7. ASSUME NEW k \in csvTasks, NEW s \in {"done", "failed", "cancelled"}, EndCsv(k, s) PROVE FileServes'
      BY <2>7, TaskActions
    <2>8. CASE UNCHANGED csvVars BY <2>8 DEF csvVars, FileServes, CsvTypeOK, FileOutlivesTasks, PruneComesLate
    <2> QED BY <2>1, <2>2, <2>3, <2>4, <2>5, <2>6, <2>7, <2>8 DEF CsvNext
  <1> QED BY <1>1, <1>2, PTL DEF CsvSpec
=============================================================================
