----------------------------- MODULE ReadsProofs -----------------------------
(***************************************************************************)
(* Proofs about the reads and the rollup, for any events, limits and       *)
(* requests.                                                               *)
(*                                                                         *)
(* Lists are ordered sets: an element is found by its place, which is how  *)
(* many come before it, so nothing needs induction over sequences.         *)
(*                                                                         *)
(* A tick is followed stage by stage, with what each leaves of the events  *)
(* that were there when it began (TickInv); a pool is followed by what it  *)
(* has read (PoolInv) and by what a request of its key would read          *)
(* (SharedInv); a client that scrolls by what is still to be shown to him  *)
(* (ScrollInv), which needs that a page has the newest events that match.  *)
(*                                                                         *)
(* Tables that are computed now and then agree with what they are computed *)
(* from by what a tick leaves when nothing comes in between: the rows of   *)
(* actors and features (NowInv), those of followers (FollowInv), and what  *)
(* is counted of both at any time (RealInv).                               *)
(***************************************************************************)
EXTENDS Reads, FiniteSetTheorems, SequenceTheorems, TLAPS

-----------------------------------------------------------------------------
(* Orders and pages *)

\* How many of S come before e.
RankIn(R, S, e) == Cardinality({f \in S : <<f, e>> \in R})

\* In a finite set that is strictly and totally ordered, each place is taken by one
\* element: this is what ORDER BY makes of rows with distinct keys.
LEMMA RanksArePlaces ==
    ASSUME NEW S, IsFiniteSet(S), NEW R,
           \A e \in S : <<e, e>> \notin R,
           \A e, f \in S : e # f => <<e, f>> \in R \/ <<f, e>> \in R,
           \A e, f, g \in S : <<e, f>> \in R /\ <<f, g>> \in R => <<e, g>> \in R
    PROVE  /\ \A e \in S : RankIn(R, S, e) \in 0..(Cardinality(S) - 1)
           /\ \A e, f \in S : <<e, f>> \in R => RankIn(R, S, e) < RankIn(R, S, f)
           /\ \A i \in 1..Cardinality(S) : \E e \in S : RankIn(R, S, e) = i - 1
<1> DEFINE Before(e) == {f \in S : <<f, e>> \in R}
           n == Cardinality(S)
<1>n. n \in Nat
  BY FS_CardinalityType
<1>1. ASSUME NEW e \in S
      PROVE  /\ IsFiniteSet(Before(e)) /\ Cardinality(Before(e)) \in Nat
             /\ Cardinality(Before(e)) < n
  <2>1. Before(e) \in SUBSET S /\ Before(e) # S
    OBVIOUS
  <2>2. IsFiniteSet(Before(e)) /\ Cardinality(Before(e)) <= n
        /\ (n = Cardinality(Before(e)) => S = Before(e))
    BY <2>1, FS_Subset
  <2>3. Cardinality(Before(e)) \in Nat
    BY <2>2, FS_CardinalityType
  <2> QED
    BY <1>n, <2>1, <2>2, <2>3
<1>2. ASSUME NEW e \in S, NEW f \in S, <<e, f>> \in R
      PROVE  Cardinality(Before(e)) < Cardinality(Before(f))
  <2>1. Before(e) \in SUBSET Before(f)
    BY <1>2
  <2>2. Before(f) # Before(e)
    BY <1>2
  <2>3. Cardinality(Before(e)) <= Cardinality(Before(f))
        /\ (Cardinality(Before(f)) = Cardinality(Before(e)) => Before(f) = Before(e))
    BY <1>1, <2>1, FS_Subset
  <2>4. Cardinality(Before(e)) \in Nat /\ Cardinality(Before(f)) \in Nat
    BY <1>1
  <2> HIDE DEF Before
  <2> QED
    BY <2>2, <2>3, <2>4
<1> HIDE DEF Before
<1>o. ASSUME NEW e \in S, NEW f \in S, e # f
      PROVE  Cardinality(Before(e)) # Cardinality(Before(f))
  <2>1. Cardinality(Before(e)) \in Nat /\ Cardinality(Before(f)) \in Nat
    BY <1>1
  <2>2. <<e, f>> \in R \/ <<f, e>> \in R
    BY <1>o
  <2> QED
    BY <1>2, <2>1, <2>2
<1>3. ASSUME NEW i \in 1..n
      PROVE  \E e \in S : Cardinality(Before(e)) = i - 1
  <2> DEFINE g == [e \in S |-> Cardinality(Before(e)) + 1]
  <2>a. \A e \in S : Cardinality(Before(e)) + 1 \in 1..n /\ Cardinality(Before(e)) \in Int
    BY <1>n, <1>1
  <2>1. g \in [S -> 1..n]
    BY <2>a
  <2>2. \A e, f \in S : g[e] = g[f] => e = f
    BY <2>a, <1>o
  <2>3. g \in Injection(S, 1..n)
    BY <2>1, <2>2 DEF Injection, IsInjective
  <2>4. IsFiniteSet(1..n) /\ Cardinality(1..n) = n
    BY <1>n, FS_Interval
  <2> HIDE DEF g
  <2>5. g \in Surjection(S, 1..n)
    BY <2>3, <2>4, FS_Injection
  <2>6. PICK e \in S : g[e] = i
    BY <2>5 DEF Surjection
  <2>7. g[e] = Cardinality(Before(e)) + 1
    BY DEF g
  <2> QED
    BY <2>a, <2>6, <2>7
<1>4. \A e \in S : RankIn(R, S, e) = Cardinality(Before(e))
  BY DEF RankIn, Before
<1> QED
  BY <1>n, <1>1, <1>2, <1>3, <1>4

\* A strict and total order of S.
StrictOrder(R, S) ==
    /\ \A e \in S : <<e, e>> \notin R
    /\ \A e, f \in S : e # f => <<e, f>> \in R \/ <<f, e>> \in R
    /\ \A e, f, g \in S : <<e, f>> \in R /\ <<f, g>> \in R => <<e, g>> \in R

\* ORDER BY, as Ordered gives it.
ByRank(R, S) == [i \in 1..Cardinality(S) |-> CHOOSE e \in S : RankIn(R, S, e) = i - 1]

\* The sequence has every element of S once, at its place.
LEMMA SortedByRanks ==
    ASSUME NEW S, IsFiniteSet(S), NEW R, StrictOrder(R, S)
    PROVE  /\ Cardinality(S) \in Nat /\ ByRank(R, S) \in Seq(S) /\ Len(ByRank(R, S)) = Cardinality(S)
           /\ \A e \in S : /\ RankIn(R, S, e) \in 0..(Cardinality(S) - 1)
                           /\ ByRank(R, S)[RankIn(R, S, e) + 1] = e
           /\ \A i \in 1..Cardinality(S) : /\ ByRank(R, S)[i] \in S
                                           /\ RankIn(R, S, ByRank(R, S)[i]) = i - 1
           /\ \A e, f \in S : <<e, f>> \in R <=> RankIn(R, S, e) < RankIn(R, S, f)
<1> DEFINE s == ByRank(R, S)
<1>1. Cardinality(S) \in Nat
  BY FS_CardinalityType
<1>2. /\ \A e \in S : RankIn(R, S, e) \in 0..(Cardinality(S) - 1)
      /\ \A e, f \in S : <<e, f>> \in R => RankIn(R, S, e) < RankIn(R, S, f)
      /\ \A i \in 1..Cardinality(S) : \E e \in S : RankIn(R, S, e) = i - 1
  BY RanksArePlaces DEF StrictOrder
<1>s. s = [i \in 1..Cardinality(S) |-> CHOOSE e \in S : RankIn(R, S, e) = i - 1]
  BY DEF ByRank
<1> HIDE DEF s
<1>3. ASSUME NEW i \in 1..Cardinality(S)
      PROVE  s[i] \in S /\ RankIn(R, S, s[i]) = i - 1
  <2>1. \E e \in S : RankIn(R, S, e) = i - 1
    BY <1>2
  <2>2. s[i] = CHOOSE e \in S : RankIn(R, S, e) = i - 1
    BY <1>s
  <2> QED
    BY <2>1, <2>2
<1>4. s \in Seq(S) /\ Len(s) = Cardinality(S)
  <2>1. s \in [1..Cardinality(S) -> S]
    BY <1>3, <1>s
  <2> QED
    BY <1>1, <2>1
<1>5. ASSUME NEW e \in S, NEW f \in S
      PROVE  /\ RankIn(R, S, e) = RankIn(R, S, f) => e = f
             /\ RankIn(R, S, e) < RankIn(R, S, f) => <<e, f>> \in R
  <2>1. RankIn(R, S, e) \in Int /\ RankIn(R, S, f) \in Int
    BY <1>1, <1>2
  <2>2. <<e, f>> \in R => RankIn(R, S, e) < RankIn(R, S, f)
    BY <1>2
  <2>3. <<f, e>> \in R => RankIn(R, S, f) < RankIn(R, S, e)
    BY <1>2
  <2>4. e # f => <<e, f>> \in R \/ <<f, e>> \in R
    BY DEF StrictOrder
  <2> QED
    BY <2>1, <2>2, <2>3, <2>4
<1>6. ASSUME NEW e \in S PROVE s[RankIn(R, S, e) + 1] = e
  <2>1. RankIn(R, S, e) \in Int /\ RankIn(R, S, e) + 1 \in 1..Cardinality(S)
    BY <1>1, <1>2
  <2>2. /\ s[RankIn(R, S, e) + 1] \in S
        /\ RankIn(R, S, s[RankIn(R, S, e) + 1]) = RankIn(R, S, e)
    BY <1>3, <2>1
  <2> QED
    BY <1>5, <2>2
<1> QED
  BY <1>1, <1>2, <1>3, <1>4, <1>5, <1>6 DEF s

\* s has the elements of S at their places, counted from 0.
Placed(s, S, pl) ==
    /\ s \in Seq(S) /\ pl \in [S -> Nat]
    /\ \A e \in S : pl[e] < Len(s) /\ s[pl[e] + 1] = e
    /\ \A i \in 1..Len(s) : pl[s[i]] = i - 1

\* LIMIT n OFFSET k leaves those whose places are from k on and before k + n.
HasPage(s, S, pl, k, n) ==
    /\ \A e : e \in Elems(Page(s, k, n)) <=> e \in S /\ k <= pl[e] /\ pl[e] < k + n
    /\ Page(s, k, n) \in Seq(S) /\ Len(Page(s, k, n)) \in Nat
    /\ Len(s) <= k => Len(Page(s, k, n)) = 0
    /\ Len(s) > k /\ Len(s) <= k + n => Len(Page(s, k, n)) = Len(s) - k
    /\ Len(s) > k + n => Len(Page(s, k, n)) = n
    /\ \A i \in 1..Len(Page(s, k, n)) : Page(s, k, n)[i] \in S /\ pl[Page(s, k, n)[i]] = k + i - 1

\* A page of a sorted list has the elements whose places it covers.
LEMMA PageOfSorted ==
    ASSUME NEW S, NEW s, NEW pl, Placed(s, S, pl), NEW k \in Nat, NEW n \in Nat
    PROVE  HasPage(s, S, pl, k, n)
<1> DEFINE m == Least(Len(s), k + n)
           p == SubSeq(s, k + 1, m)
<1>0. /\ s \in Seq(S) /\ pl \in [S -> Nat]
      /\ \A e \in S : pl[e] < Len(s) /\ s[pl[e] + 1] = e
      /\ \A i \in 1..Len(s) : pl[s[i]] = i - 1
  BY DEF Placed
<1>1. Len(s) \in Nat /\ \A i \in 1..Len(s) : s[i] \in S
  BY <1>0
<1>2. /\ m \in Nat /\ m <= Len(s) /\ m <= k + n
      /\ Len(s) <= k + n => m = Len(s)
      /\ Len(s) > k + n => m = k + n
  BY <1>1 DEF Least
<1>3. Page(s, k, n) = p
  BY DEF Page
<1> HIDE DEF m
<1>4. \A i \in (k + 1)..m : s[i] \in S
  BY <1>1, <1>2
<1>5. /\ p \in Seq(S) /\ Len(p) = IF k + 1 <= m THEN m - (k + 1) + 1 ELSE 0
      /\ \A i \in 1..(m - (k + 1) + 1) : p[i] = s[k + 1 + i - 1]
  BY <1>0, <1>2, <1>4, SubSeqProperties
<1> HIDE DEF p
<1>a. Len(p) \in Nat /\ DOMAIN p = 1..Len(p)
  BY <1>5
<1>6. (m <= k => Len(p) = 0) /\ (m > k => Len(p) = m - k)
  BY <1>2, <1>5
<1>7. ASSUME NEW i \in 1..Len(p)
      PROVE  p[i] \in S /\ pl[p[i]] = k + i - 1 /\ k <= pl[p[i]] /\ pl[p[i]] < k + n
  <2>1. i \in Int /\ 1 <= i /\ i <= Len(p)
    BY <1>a
  <2>2. m > k /\ i <= m - k
    BY <1>2, <1>6, <1>a, <2>1
  <2>3. i \in 1..(m - (k + 1) + 1) /\ k + 1 + i - 1 = k + i
    BY <1>2, <2>1, <2>2
  <2>4. p[i] = s[k + i]
    BY <1>5, <2>3
  <2>5. k + i \in 1..Len(s) /\ k <= k + i - 1 /\ k + i - 1 < k + n
    BY <1>1, <1>2, <2>1, <2>2
  <2>6. pl[s[k + i]] = k + i - 1 /\ s[k + i] \in S
    BY <1>0, <1>1, <2>5
  <2> QED
    BY <2>4, <2>5, <2>6
<1>8. ASSUME NEW e \in S, k <= pl[e], pl[e] < k + n
      PROVE  \E i \in DOMAIN p : p[i] = e
  <2> DEFINE q == pl[e]
             i == q + 1 - k
  <2>1. q \in Nat /\ q < Len(s) /\ s[q + 1] = e /\ k <= q /\ q < k + n
    BY <1>0, <1>8
  <2> HIDE DEF q
  <2>2. q < m
    BY <1>1, <1>2, <2>1
  <2>3. i \in 1..(m - (k + 1) + 1) /\ k + 1 + i - 1 = q + 1 /\ m > k /\ i \in 1..(m - k)
    BY <1>2, <2>1, <2>2
  <2> HIDE DEF i
  <2>4. p[i] = s[q + 1]
    BY <1>5, <2>3
  <2>5. i \in DOMAIN p
    BY <1>6, <1>a, <2>3
  <2> QED
    BY <2>1, <2>4, <2>5
<1>9. /\ Len(s) <= k => Len(p) = 0
      /\ Len(s) > k /\ Len(s) <= k + n => Len(p) = Len(s) - k
      /\ Len(s) > k + n => Len(p) = n
  <2>1. CASE Len(s) <= k
    BY <1>1, <1>2, <1>6, <2>1
  <2>2. CASE Len(s) > k /\ Len(s) <= k + n
    BY <1>1, <1>2, <1>6, <2>2
  <2>3. CASE Len(s) > k + n
    <3>1. m = k + n
      BY <1>2, <2>3
    <3>2. CASE n = 0
      BY <1>1, <1>6, <2>3, <3>1, <3>2
    <3>3. CASE n # 0
      BY <1>1, <1>6, <2>3, <3>1, <3>3
    <3> QED
      BY <1>1, <2>3, <3>1, <3>2, <3>3
  <2> QED
    BY <1>1, <2>1, <2>2, <2>3
<1>11. \A e : e \in Elems(p) <=> e \in S /\ k <= pl[e] /\ pl[e] < k + n
  <2>1. \A e : e \in Elems(p) <=> \E i \in DOMAIN p : p[i] = e
    BY DEF Elems
  <2> QED
    BY <1>7, <1>8, <1>a, <2>1
<1> QED
  BY <1>3, <1>5, <1>7, <1>9, <1>a, <1>11 DEF HasPage

\* A page of what is ordered by a relation has those whose ranks are from k on.
LEMMA PageByRank ==
    ASSUME NEW S, IsFiniteSet(S), NEW R, StrictOrder(R, S), NEW k \in Nat, NEW n \in Nat
    PROVE  \A e : e \in Elems(Page(ByRank(R, S), k, n)) <=>
                      e \in S /\ k <= RankIn(R, S, e) /\ RankIn(R, S, e) < k + n
<1>s. PICK s : s = ByRank(R, S)
  OBVIOUS
<1>l. PICK pl : pl = [e \in S |-> RankIn(R, S, e)]
  OBVIOUS
<1>1. /\ Cardinality(S) \in Nat /\ s \in Seq(S) /\ Len(s) = Cardinality(S)
      /\ \A e \in S : RankIn(R, S, e) \in 0..(Cardinality(S) - 1) /\ s[RankIn(R, S, e) + 1] = e
      /\ \A i \in 1..Cardinality(S) : s[i] \in S /\ RankIn(R, S, s[i]) = i - 1
  BY <1>s, SortedByRanks
<1>2. pl \in [S -> Nat]
  BY <1>1, <1>l
<1>3. \A e \in S : pl[e] = RankIn(R, S, e)
  BY <1>l
<1>4. \A e \in S : pl[e] < Len(s) /\ s[pl[e] + 1] = e
  BY <1>1, <1>2, <1>3
<1>5. \A i \in 1..Len(s) : pl[s[i]] = i - 1
  BY <1>1, <1>3
<1>p. Placed(s, S, pl)
  BY <1>1, <1>2, <1>4, <1>5 DEF Placed
<1>6. HasPage(s, S, pl, k, n)
  BY <1>p, PageOfSorted
<1>7. \A e : e \in Elems(Page(s, k, n)) <=> e \in S /\ k <= pl[e] /\ pl[e] < k + n
  BY <1>6 DEF HasPage
<1> QED
  BY <1>3, <1>7, <1>s

\* The place of an event among those of S, newest first.
Place(S, e) == Cardinality({f \in S : Newer(f, e)})

\* What ORDER BY created_at DESC, id DESC gives: every event of S once, at its place.
LEMMA NewestIsSorted ==
    ASSUME NEW S \in SUBSET Events
    PROVE  /\ IsFiniteSet(S) /\ Cardinality(S) \in Nat
           /\ Newest(S) \in Seq(S) /\ Len(Newest(S)) = Cardinality(S)
           /\ \A e \in S : /\ Place(S, e) \in 0..(Cardinality(S) - 1)
                           /\ Newest(S)[Place(S, e) + 1] = e
           /\ \A i \in 1..Cardinality(S) : Newest(S)[i] \in S /\ Place(S, Newest(S)[i]) = i - 1
           /\ \A e, f \in S : Newer(e, f) <=> Place(S, e) < Place(S, f)
<1> DEFINE R == {x \in S \X S : Newer(x[1], x[2])}
<1>1. IsFiniteSet(S)
  BY FS_Subset, EventsAssumption
<1>2. \A e \in S : e \in Nat /\ At[e] \in Nat
  BY EventsAssumption
<1>3. \A e, f \in S : <<e, f>> \in R <=> Newer(e, f)
  OBVIOUS
<1>4. \A e \in S : {f \in S : <<f, e>> \in R} = {f \in S : Newer(f, e)}
  BY <1>3
<1>5. \A e \in S : RankIn(R, S, e) = Place(S, e)
  BY <1>4 DEF RankIn, Place
<1> HIDE DEF R
<1>6. StrictOrder(R, S)
  BY <1>2, <1>3 DEF Newer, StrictOrder
<1>7. Newest(S) = ByRank(R, S)
  BY <1>5 DEF Newest, Ordered, Place, ByRank
<1>8. /\ Cardinality(S) \in Nat /\ ByRank(R, S) \in Seq(S) /\ Len(ByRank(R, S)) = Cardinality(S)
      /\ \A e \in S : /\ RankIn(R, S, e) \in 0..(Cardinality(S) - 1)
                      /\ ByRank(R, S)[RankIn(R, S, e) + 1] = e
      /\ \A i \in 1..Cardinality(S) : /\ ByRank(R, S)[i] \in S
                                      /\ RankIn(R, S, ByRank(R, S)[i]) = i - 1
      /\ \A e, f \in S : <<e, f>> \in R <=> RankIn(R, S, e) < RankIn(R, S, f)
  BY <1>1, <1>6, SortedByRanks
<1> QED
  BY <1>1, <1>3, <1>5, <1>7, <1>8

\* The same of a page of them.
LEMMA PageOfNewest ==
    ASSUME NEW S \in SUBSET Events, NEW k \in Nat, NEW n \in Nat
    PROVE  /\ \A e : e \in Elems(Page(Newest(S), k, n)) <=>
                        e \in S /\ k <= Place(S, e) /\ Place(S, e) < k + n
           /\ Page(Newest(S), k, n) \in Seq(S) /\ Len(Page(Newest(S), k, n)) \in Nat
           /\ Cardinality(S) <= k => Len(Page(Newest(S), k, n)) = 0
           /\ Cardinality(S) > k /\ Cardinality(S) <= k + n =>
                  Len(Page(Newest(S), k, n)) = Cardinality(S) - k
           /\ Cardinality(S) > k + n => Len(Page(Newest(S), k, n)) = n
           /\ \A i \in 1..Len(Page(Newest(S), k, n)) :
                  /\ Page(Newest(S), k, n)[i] \in S
                  /\ Place(S, Page(Newest(S), k, n)[i]) = k + i - 1
<1>s. PICK s : s = Newest(S)
  OBVIOUS
<1>l. PICK pl : pl = [e \in S |-> Place(S, e)]
  OBVIOUS
<1>1. /\ Cardinality(S) \in Nat /\ s \in Seq(S) /\ Len(s) = Cardinality(S)
      /\ \A e \in S : Place(S, e) \in 0..(Cardinality(S) - 1) /\ s[Place(S, e) + 1] = e
      /\ \A i \in 1..Cardinality(S) : s[i] \in S /\ Place(S, s[i]) = i - 1
  BY <1>s, NewestIsSorted
<1>2. pl \in [S -> Nat]
  BY <1>1, <1>l
<1>3. \A e \in S : pl[e] = Place(S, e)
  BY <1>l
<1>4. \A e \in S : pl[e] < Len(s) /\ s[pl[e] + 1] = e
  BY <1>1, <1>2, <1>3
<1>5. \A i \in 1..Len(s) : pl[s[i]] = i - 1
  BY <1>1, <1>3
<1>p. Placed(s, S, pl)
  BY <1>1, <1>2, <1>4, <1>5 DEF Placed
<1>6. /\ \A e : e \in Elems(Page(s, k, n)) <=> e \in S /\ k <= pl[e] /\ pl[e] < k + n
      /\ Page(s, k, n) \in Seq(S) /\ Len(Page(s, k, n)) \in Nat
      /\ Len(s) <= k => Len(Page(s, k, n)) = 0
      /\ Len(s) > k /\ Len(s) <= k + n => Len(Page(s, k, n)) = Len(s) - k
      /\ Len(s) > k + n => Len(Page(s, k, n)) = n
      /\ \A i \in 1..Len(Page(s, k, n)) : Page(s, k, n)[i] \in S /\ pl[Page(s, k, n)[i]] = k + i - 1
  <2>1. HasPage(s, S, pl, k, n)
    BY <1>p, PageOfSorted
  <2> QED
    BY <2>1 DEF HasPage
<1> QED
  BY <1>1, <1>3, <1>6, <1>s

\* LIMIT n leaves the events that fewer than n are newer than.
LEMMA FirstOfNewest ==
    ASSUME NEW S \in SUBSET Events, NEW n \in Nat
    PROVE  Elems(Page(Newest(S), 0, n)) = {e \in S : Place(S, e) < n}
<1>1. \A e : e \in Elems(Page(Newest(S), 0, n)) <=> e \in S /\ 0 <= Place(S, e) /\ Place(S, e) < 0 + n
  BY PageOfNewest
<1>2. \A e \in S : Place(S, e) \in Nat
  <2>1. Cardinality(S) \in Nat /\ \A e \in S : Place(S, e) \in 0..(Cardinality(S) - 1)
    BY NewestIsSorted
  <2> QED
    BY <2>1
<1>3. \A e : e \in Elems(Page(Newest(S), 0, n)) <=> e \in S /\ Place(S, e) < n
  BY <1>1, <1>2
<1> QED
  BY <1>3

\* What comes later leaves an event at its place or further down.
LEMMA PlaceGrows ==
    ASSUME NEW T \in SUBSET Events, NEW S \in SUBSET T, NEW e
    PROVE  Place(S, e) \in Nat /\ Place(T, e) \in Nat /\ Place(S, e) <= Place(T, e)
<1> DEFINE A == {f \in S : Newer(f, e)}
           B == {f \in T : Newer(f, e)}
<1>1. A \in SUBSET B /\ B \in SUBSET Events
  OBVIOUS
<1> HIDE DEF A, B
<1>2. IsFiniteSet(B) /\ IsFiniteSet(A) /\ Cardinality(A) <= Cardinality(B)
  BY <1>1, FS_Subset, EventsAssumption
<1>3. Cardinality(A) \in Nat /\ Cardinality(B) \in Nat
  BY <1>2, FS_CardinalityType
<1>4. Place(S, e) = Cardinality(A) /\ Place(T, e) = Cardinality(B)
  BY DEF Place, A, B
<1> QED
  BY <1>2, <1>3, <1>4

\* A set of positions has a first and a last one.
LEMMA Extremes ==
    ASSUME NEW n \in Nat, NEW I \in SUBSET (1..n), I # {}
    PROVE  MinOf(I) \in I /\ MaxOf(I) \in I
<1>0. IsFiniteSet(1..n)
  BY FS_Interval
<1>1. IsFiniteSet(I) /\ \A i \in I : i \in Int
  <2>1. IsFiniteSet(I)
    BY <1>0, FS_Subset
  <2>2. \A i \in I : i \in Int
    OBVIOUS
  <2> QED
    BY <2>1, <2>2
<1>2. Cardinality(I) \in Nat /\ Cardinality(I) # 0
  BY <1>1, FS_CardinalityType, FS_EmptySet
<1>3. ASSUME NEW R,
             \A i \in I : <<i, i>> \notin R,
             \A i, j \in I : i # j => <<i, j>> \in R \/ <<j, i>> \in R,
             \A i, j, k \in I : <<i, j>> \in R /\ <<j, k>> \in R => <<i, k>> \in R
      PROVE  \E i \in I : \A j \in I : <<j, i>> \notin R
  <2>1. \A k \in 1..Cardinality(I) : \E i \in I : RankIn(R, I, i) = k - 1
    BY <1>1, <1>3, RanksArePlaces
  <2>2. PICK i \in I : RankIn(R, I, i) = 0
    BY <1>2, <2>1
  <2> DEFINE B == {j \in I : <<j, i>> \in R}
  <2>3. B \in SUBSET I
    OBVIOUS
  <2>4. Cardinality(B) = 0
    BY <2>2 DEF RankIn
  <2> HIDE DEF B
  <2>5. B = {}
    BY <1>1, <2>3, <2>4, FS_Subset, FS_EmptySet
  <2> QED
    BY <2>5 DEF B
<1>4. \E i \in I : \A j \in I : i <= j
  <2> DEFINE R == {x \in I \X I : x[1] < x[2]}
  <2>1. \A i, j \in I : <<i, j>> \in R <=> i < j
    OBVIOUS
  <2> HIDE DEF R
  <2>4. /\ \A i \in I : <<i, i>> \notin R
        /\ \A i, j \in I : i # j => <<i, j>> \in R \/ <<j, i>> \in R
        /\ \A i, j, k \in I : <<i, j>> \in R /\ <<j, k>> \in R => <<i, k>> \in R
    BY <1>1, <2>1
  <2>2. PICK i \in I : \A j \in I : <<j, i>> \notin R
    BY <1>3, <2>4
  <2>3. ASSUME NEW j \in I PROVE i <= j
    <3>1. ~(j < i) /\ i \in Int /\ j \in Int
      BY <1>1, <2>1, <2>2
    <3> QED
      BY <3>1
  <2> QED
    BY <2>3
<1>5. \E i \in I : \A j \in I : i >= j
  <2> DEFINE R == {x \in I \X I : x[1] > x[2]}
  <2>1. \A i, j \in I : <<i, j>> \in R <=> i > j
    OBVIOUS
  <2> HIDE DEF R
  <2>4. /\ \A i \in I : <<i, i>> \notin R
        /\ \A i, j \in I : i # j => <<i, j>> \in R \/ <<j, i>> \in R
        /\ \A i, j, k \in I : <<i, j>> \in R /\ <<j, k>> \in R => <<i, k>> \in R
    BY <1>1, <2>1
  <2>2. PICK i \in I : \A j \in I : <<j, i>> \notin R
    BY <1>3, <2>4
  <2>3. ASSUME NEW j \in I PROVE i >= j
    <3>1. ~(j > i) /\ i \in Int /\ j \in Int
      BY <1>1, <2>1, <2>2
    <3> QED
      BY <3>1
  <2> QED
    BY <2>3
<1> QED
  BY <1>4, <1>5 DEF MinOf, MaxOf

\* A set of times has a last one.
LEMMA LastTime ==
    ASSUME NEW S \in SUBSET Events, S # {}
    PROVE  \E t \in {At[e] : e \in S} : \A e \in S : t >= At[e]
<1>1. IsFiniteSet(S) /\ Cardinality(S) \in Nat /\ Cardinality(S) # 0
  BY NewestIsSorted, FS_EmptySet
<1>2. 1 \in 1..Cardinality(S)
  BY <1>1
<1>3. Newest(S)[1] \in S /\ Place(S, Newest(S)[1]) = 0
  BY <1>2, NewestIsSorted
<1>4. PICK x \in S : Place(S, x) = 0
  BY <1>3
<1>5. ASSUME NEW e \in S PROVE At[x] >= At[e]
  <2>1. ~Newer(e, x)
    <3>1. Place(S, e) \in 0..(Cardinality(S) - 1) /\ (Newer(e, x) => Place(S, e) < Place(S, x))
      BY NewestIsSorted
    <3> QED
      BY <1>1, <1>4, <3>1
  <2>2. At[e] \in Nat /\ At[x] \in Nat
    BY EventsAssumption
  <2> QED
    BY <2>1, <2>2 DEF Newer
<1> QED
  BY <1>5

\* What a tag of an event names is an event.
LEMMA TagsAreEvents ==
    ASSUME NEW e \in Events, NEW i \in DOMAIN ETags[e]
    PROVE  ETags[e][i].to \in Events
<1> DEFINE Tag == [to : Events, marker : STRING]
<1>1. ETags[e] \in Seq(Tag)
  BY EventsAssumption
<1> HIDE DEF Tag
<1>2. i \in 1..Len(ETags[e])
  BY <1>1
<1>3. ETags[e][i] \in Tag
  BY <1>1, <1>2, ElementOfSeq
<1> QED
  BY <1>3 DEF Tag

\* A parent is an event.
LEMMA ParentIsEvent ==
    ASSUME NEW e \in Events, DirectParent(e) # None
    PROVE  DirectParent(e) \in Events
<1>1. ETags[e] \in Seq([to : Events, marker : STRING])
  BY EventsAssumption
<1>2. Len(ETags[e]) \in Nat /\ DOMAIN ETags[e] = 1..Len(ETags[e])
  BY <1>1
<1>3. \A m : Marked(e, m) \in SUBSET (1..Len(ETags[e]))
  BY <1>2 DEF Marked
<1>4. ASSUME NEW m, Marked(e, m) # {}
      PROVE  MinOf(Marked(e, m)) \in 1..Len(ETags[e]) /\ MaxOf(Marked(e, m)) \in 1..Len(ETags[e])
  <2>1. Marked(e, m) \in SUBSET (1..Len(ETags[e]))
    BY <1>3
  <2>2. MinOf(Marked(e, m)) \in Marked(e, m) /\ MaxOf(Marked(e, m)) \in Marked(e, m)
    BY <1>2, <1>4, <2>1, Extremes
  <2> QED
    BY <2>1, <2>2
<1>5. \A i \in 1..Len(ETags[e]) : ETags[e][i].to \in Events
  BY <1>2, TagsAreEvents
<1> QED
  BY <1>4, <1>5 DEF DirectParent

-----------------------------------------------------------------------------
(* The tables and the rollup *)

Stages == {"edges", "counts", "real", "stats", "features", "save"}
RealRow == [likes : Nat, reposts : Nat, quotes : Nat, replies : Nat, zaps : Nat, actors : Nat]

\* What the tables hold, whatever the deployment.
TableTypes ==
    /\ mode \in Modes /\ stored \subseteq Here.events
    /\ copies \in [stored -> 0..2]
    /\ edges \subseteq stored \X Events /\ counted \subseteq edges
    /\ DOMAIN real \subseteq stored /\ \A n \in DOMAIN real : real[n] \in RealRow
    /\ DOMAIN features \subseteq stored /\ \A n \in DOMAIN features : features[n].real \in RealRow
    /\ tick \in [stage : Stages \union {"idle"}, since : Nat, snap : SUBSET stored]
    /\ \A e \in tick.snap : copies[e] > 0

\* An arrival adds to the rows and the tags, and leaves what is derived of them.
Grown ==
    /\ stored \subseteq stored' /\ \A e \in stored : copies'[e] >= copies[e]
    /\ UNCHANGED <<mode, derived>>

\* The recent replies among the events of S, and those of them within the limit.
Children(S, since) == {e \in S : Kind[e] \in ReplyKinds /\ At[e] >= since}
TopChildren(S, since) ==
    {e \in Children(S, since) : Place(Children(S, since), e) < MaxTargets}

\* What is stored are events of the deployment.
LEMMA StoredAreEvents == TableTypes => stored \in SUBSET Events
  BY DeployAssumption DEF TableTypes, Here

\* The query for recent replies gives those whose place among them is within the limit.
LEMMA FirstChildren ==
    ASSUME NEW T \in SUBSET Events, NEW since
    PROVE  Elems(Page(Newest(Children(T, since)), 0, MaxTargets)) = TopChildren(T, since)
<1>1. Children(T, since) \in SUBSET Events
  BY DEF Children
<1>2. Elems(Page(Newest(Children(T, since)), 0, MaxTargets)) =
          {e \in Children(T, since) : Place(Children(T, since), e) < MaxTargets}
  BY <1>1, FirstOfNewest, RollupAssumption
<1> QED
  BY <1>2 DEF TopChildren

\* So it is for what is stored.
LEMMA RecentAreTop ==
    ASSUME stored \in SUBSET Events, NEW since
    PROVE  RecentChildren(since, MaxTargets) = TopChildren(stored, since)
  BY FirstChildren DEF RecentChildren, Children

\* A reply that is among the recent ones has been ever since it came.
LEMMA TopShrinks ==
    ASSUME NEW T \in SUBSET Events, NEW S \in SUBSET T, NEW since, NEW e \in S,
           e \in TopChildren(T, since)
    PROVE  e \in TopChildren(S, since)
<1> DEFINE A == Children(S, since)
           B == Children(T, since)
<1>1. A \in SUBSET B /\ B \in SUBSET Events /\ e \in A
  BY DEF Children, TopChildren
<1>2. Place(B, e) < MaxTargets
  BY DEF TopChildren
<1> HIDE DEF A, B
<1>3. Place(A, e) \in Nat /\ Place(B, e) \in Nat /\ Place(A, e) <= Place(B, e)
  BY <1>1, PlaceGrows
<1>4. Place(A, e) < MaxTargets
  BY <1>2, <1>3, RollupAssumption
<1> QED
  BY <1>1, <1>4 DEF TopChildren, A

\* Who acted, as a set of users and a number.
LEMMA ActorsCount ==
    ASSUME NEW S \in SUBSET Events, NEW n
    PROVE  /\ AuthorsOf(S) \in SUBSET Users /\ RealActors(S, n) \in SUBSET Users
           /\ IsFiniteSet(RealActors(S, n)) /\ Cardinality(RealActors(S, n)) \in Nat
<1>1. AuthorsOf(S) \in SUBSET Users
  BY EventsAssumption DEF AuthorsOf
<1>2. RealActors(S, n) \in SUBSET Users
  BY <1>1 DEF RealActors
<1> QED
  BY <1>1, <1>2, FS_Subset, FS_CardinalityType, EventsAssumption

\* What is counted for a row is the row's columns.
LEMMA RealIsRow ==
    ASSUME TableTypes, NEW n
    PROVE  Real(n) \in RealRow
<1> DEFINE l == RealActors(Referrers(n, {7}, "e"), n)
           r == RealActors(Referrers(n, {6, 16}, "e"), n)
           q == RealActors(Referrers(n, {1}, "q"), n)
           d == RealActors(DirectReplies(n), n)
           z == RealActors(ZapsOf(n), n)
           y == AuthorsOf(ZapsOf(n)) \intersect Scored
<1>1. stored \in SUBSET Events
  BY StoredAreEvents
<1>2. /\ \A kinds, key : Referrers(n, kinds, key) \in SUBSET Events
      /\ DirectReplies(n) \in SUBSET Events /\ ZapsOf(n) \in SUBSET Events
  <2>1. \A kinds, key : Referrers(n, kinds, key) \in SUBSET Events
    BY <1>1 DEF Referrers
  <2>2. DirectReplies(n) \in SUBSET Events
    BY <1>1 DEF DirectReplies, TableTypes
  <2>3. ZapsOf(n) \in SUBSET Events
    BY <1>1 DEF ZapsOf
  <2> QED
    BY <2>1, <2>2, <2>3
<1>3. l \in SUBSET Users /\ r \in SUBSET Users /\ q \in SUBSET Users /\ d \in SUBSET Users
      /\ z \in SUBSET Users /\ y \in SUBSET Users
  BY <1>2, ActorsCount
<1>4. Real(n) = [likes |-> Cardinality(l), reposts |-> Cardinality(r), quotes |-> Cardinality(q),
                 replies |-> Cardinality(d), zaps |-> Cardinality(y),
                 actors |-> Cardinality(l \union r \union q \union d \union z)]
  BY DEF Real
<1> HIDE DEF l, r, q, d, z, y
<1>5. l \union r \union q \union d \union z \in SUBSET Users
  BY <1>3
<1>6. \A S \in SUBSET Users : Cardinality(S) \in Nat
  BY FS_Subset, FS_CardinalityType, EventsAssumption
<1> QED
  BY <1>3, <1>4, <1>5, <1>6 DEF RealRow

\* Which steps there are for the tables: an arrival, a step of the rollup, and the others.
LEMMA StepKinds ==
    ASSUME [Next]_vars
    PROVE  \/ Arrive
           \/ UNCHANGED <<mode, stored, copies>> /\ (Begin \/ Stage \/ TickEnds)
           \/ UNCHANGED <<mode, stored, copies, derived>>
  BY DEF Next, vars, Rolls, Rolling, FillFeed, ScrollEvents, ScrollNotices, AskRanked, derived

\* An arrival only adds events.
LEMMA ArriveGrows ==
    ASSUME TableTypes, Arrive
    PROVE  Grown /\ stored' \subseteq Here.events /\ copies' \in [stored' -> 0..2]
<1>1. PICK e \in Here.events : InsertRow(e) \/ InsertTags(e)
  BY DEF Arrive
<1>2. UNCHANGED <<mode, derived>>
  BY DEF Arrive
<1>3. CASE InsertRow(e)
  <2> DEFINE v == IF e \in Here.late THEN 0 ELSE 1
  <2>1. stored' = stored \union {e} /\ e \notin stored
    BY <1>3 DEF InsertRow
  <2>2. copies' = [x \in stored \union {e} |-> IF x \in {e} THEN (IF x \in Here.late THEN 0 ELSE 1) ELSE copies[x]]
    BY <1>3 DEF InsertRow, Put, TableTypes
  <2>3. \A x \in stored : copies'[x] = copies[x] /\ copies[x] \in 0..2
    BY <2>1, <2>2 DEF TableTypes
  <2>4. copies'[e] \in 0..2
    BY <2>2
  <2> QED
    BY <1>2, <2>1, <2>2, <2>3, <2>4 DEF Grown, TableTypes
<1>4. CASE InsertTags(e)
  <2>1. stored' = stored /\ e \in stored /\ copies[e] < 2 /\ copies[e] \in 0..2
    BY <1>4 DEF InsertTags, TableTypes
  <2>2. copies' = [copies EXCEPT ![e] = @ + 1]
    BY <1>4 DEF InsertTags
  <2>3. copies' \in [stored -> 0..2] /\ \A x \in stored : copies'[x] >= copies[x]
    BY <2>1, <2>2 DEF TableTypes
  <2> QED
    BY <1>2, <2>1, <2>3 DEF Grown, TableTypes
<1> QED
  BY <1>1, <1>3, <1>4

\* Every step keeps the types of the store and of the rollup's tables.
LEMMA TablesNext ==
    ASSUME TableTypes, [Next]_vars
    PROVE  TableTypes'
<1>1. CASE Arrive
  <2>1. Grown /\ stored' \subseteq Here.events /\ copies' \in [stored' -> 0..2]
    BY <1>1, ArriveGrows
  <2>2. \A e \in tick'.snap : copies'[e] > 0
    <3> SUFFICES ASSUME NEW e \in tick'.snap PROVE copies'[e] > 0
      OBVIOUS
    <3>1. e \in stored /\ copies[e] > 0 /\ copies'[e] >= copies[e] /\ copies[e] \in Int /\ copies'[e] \in Int
      BY <2>1 DEF Grown, TableTypes, derived
    <3> QED
      BY <3>1
  <2>3. tick' \in [stage : Stages \union {"idle"}, since : Nat, snap : SUBSET stored']
    BY <2>1 DEF Grown, TableTypes, derived
  <2> QED
    BY <2>1, <2>2, <2>3 DEF Grown, TableTypes, derived, Here
<1>2. CASE UNCHANGED <<mode, stored, copies>> /\ (Begin \/ Stage \/ TickEnds)
  <2>1. mode' = mode /\ stored' = stored /\ copies' = copies
    BY <1>2
  <2>2. stored \in SUBSET Events
    BY StoredAreEvents
  <2>3. CASE Begin
    <3>1. PICK s \in Sinces : tick' = [stage |-> "edges", since |-> s, snap |-> {e \in stored : copies[e] > 0}]
      BY <2>3 DEF Begin
    <3>2. s \in Nat
      BY RollupAssumption
    <3>3. tick' \in [stage : Stages \union {"idle"}, since : Nat, snap : SUBSET stored]
      BY <3>1, <3>2 DEF Stages
    <3> QED
      BY <2>1, <2>3, <3>1, <3>3 DEF Begin, TableTypes, Here
  <2>4. CASE TickEnds
    BY <2>1, <2>4 DEF TickEnds, TableTypes, Here
  <2>5. ASSUME NEW s \in Stages, Finishes(s)
        PROVE  /\ tick' \in [stage : Stages \union {"idle"}, since : Nat, snap : SUBSET stored]
               /\ tick'.snap \subseteq tick.snap
    BY <2>5 DEF Finishes, TableTypes, StageAfter, Stages
  <2>6. CASE RecomputeEdges
    <3>1. NewEdges(tick.since, MaxTargets) \subseteq stored \X Events
      <4>1. RecentChildren(tick.since, MaxTargets) \subseteq stored
        BY <2>2, RecentAreTop DEF TopChildren, Children
      <4>2. ASSUME NEW e \in stored, IsReply(e) PROVE DirectParent(e) \in Events
        BY <2>2, <4>2, ParentIsEvent DEF IsReply
      <4> QED
        BY <4>1, <4>2 DEF NewEdges
    <3> QED
      BY <2>1, <2>5, <2>6, <3>1 DEF RecomputeEdges, TableTypes, Here, Stages
  <2>7. CASE RecomputeCounts
    BY <2>1, <2>5, <2>7 DEF RecomputeCounts, NewCounts, TableTypes, Here, Stages
  <2>8. CASE RecomputeEngagementReal
    <3> DEFINE S == EngagedNotes(tick.since) \intersect stored
    <3>1. real' = Put(real, S, Real)
      BY <2>8 DEF RecomputeEngagementReal
    <3>2. DOMAIN real' = DOMAIN real \union S
      BY <3>1 DEF Put
    <3>3. ASSUME NEW n \in DOMAIN real' PROVE real'[n] \in RealRow
      <4>1. real'[n] = IF n \in S THEN Real(n) ELSE real[n]
        BY <3>1, <3>2 DEF Put
      <4>2. Real(n) \in RealRow
        BY RealIsRow
      <4> QED
        BY <3>2, <4>1, <4>2 DEF TableTypes
    <3> QED
      BY <2>1, <2>5, <2>8, <3>2, <3>3 DEF RecomputeEngagementReal, TableTypes, Here, Stages
  <2>9. CASE RecomputeUserStats
    BY <2>1, <2>5, <2>9 DEF RecomputeUserStats, TableTypes, Here, Stages
  <2>10. CASE RecomputeRankFeatures
    <3> DEFINE S == EngagedNotes(tick.since) \intersect stored
               row(n) == [raw |-> Raw(n), real |-> RealOf(n), score |-> Score[Author[n]]]
    <3>1. features' = [n \in DOMAIN features \union S |-> IF n \in S THEN row(n) ELSE features[n]]
      BY <2>10 DEF RecomputeRankFeatures, Put
    <3>2. DOMAIN features' = DOMAIN features \union S
      BY <3>1
    <3>3. ASSUME NEW n \in DOMAIN features' PROVE features'[n].real \in RealRow
      <4>1. features'[n].real = IF n \in S THEN RealOf(n) ELSE features[n].real
        BY <3>1, <3>2
      <4>2. NoReal \in RealRow
        BY DEF NoReal, RealRow
      <4>3. RealOf(n) \in RealRow
        BY <4>2 DEF RealOf, TableTypes
      <4> QED
        BY <3>2, <4>1, <4>3 DEF TableTypes
    <3> QED
      BY <2>1, <2>5, <2>10, <3>2, <3>3 DEF RecomputeRankFeatures, TableTypes, Here, Stages
  <2>11. CASE SaveRollupState
    BY <2>1, <2>5, <2>11 DEF SaveRollupState, TableTypes, Here, Stages
  <2> QED
    BY <1>2, <2>3, <2>4, <2>6, <2>7, <2>8, <2>9, <2>10, <2>11 DEF Stage
<1>3. CASE UNCHANGED <<mode, stored, copies, derived>>
  BY <1>3 DEF TableTypes, Here, derived
<1> QED
  BY <1>1, <1>2, <1>3, StepKinds

\* The store is empty in the beginning.
LEMMA TablesInit == Init => TableTypes
  BY DEF Init, TableTypes, Idle

\* Rows, tag rows and derived tables keep their types, whatever arrives, twice or in part,
\* between the statements of a tick (InsertEvents, RunOnce).
THEOREM ReadTables == Spec => []TableTypes
  BY TablesInit, TablesNext, PTL DEF Spec

-----------------------------------------------------------------------------
(* What a tick has done *)

\* What a tick has done so far, for what was there when it began: the edges of recent
\* replies, their counts, and the rows of engaged notes.
RecentReplies == {c \in tick.snap \intersect RecentChildren(tick.since, MaxTargets) : IsReply(c)}
SnapEngaging(n) == tick.snap \intersect Engaging(n, tick.since)
RowHas(row, n) ==
    /\ row.likes >= Cardinality(RealActors({e \in SnapEngaging(n) : Kind[e] = 7}, n))
    /\ row.replies >= Cardinality(RealActors({e \in SnapEngaging(n) \intersect RecentReplies : DirectParent(e) = n}, n))
FewEngaged == Cardinality(Engaged(tick.since)) <= MaxTargets

TickInv ==
    /\ tick.stage \in Stages \ {"edges"} => \A c \in RecentReplies : <<c, DirectParent(c)>> \in edges
    /\ tick.stage \in Stages \ {"edges", "counts"} => \A c \in RecentReplies : <<c, DirectParent(c)>> \in counted
    /\ tick.stage \in {"stats", "features", "save"} /\ FewEngaged =>
          \A n \in tick.snap : SnapEngaging(n) # {} => n \in DOMAIN real /\ RowHas(real[n], n)
    /\ tick.stage = "save" /\ FewEngaged =>
          \A n \in tick.snap : SnapEngaging(n) # {} => n \in DOMAIN features /\ RowHas(features[n].real, n)

\* Who is engaged with at all is among the notes that a tick looks at, when they are few.
LEMMA FewAreAll ==
    ASSUME stored \in SUBSET Events, NEW since \in Nat, Cardinality(Engaged(since)) <= MaxTargets
    PROVE  Engaged(since) \subseteq EngagedNotes(since)
<1> DEFINE S == Engaged(since)
           R == {x \in S \X S : \/ LastEngaged(x[1], since) > LastEngaged(x[2], since)
                                \/ /\ LastEngaged(x[1], since) = LastEngaged(x[2], since)
                                   /\ x[1] > x[2]}
<1>1. S \in SUBSET Events
  <2>1. \A e \in stored : Tagged(e, "e") \subseteq Events
    BY TagsAreEvents DEF Tagged, TagValues
  <2> QED
    BY <2>1 DEF Engaged
<1>2. IsFiniteSet(S) /\ Cardinality(S) \in Nat
  BY <1>1, FS_Subset, FS_CardinalityType, EventsAssumption
<1>3. ASSUME NEW n \in S PROVE LastEngaged(n, since) \in Nat /\ n \in Nat
  <2>1. Engaging(n, since) \in SUBSET Events /\ Engaging(n, since) # {}
    BY DEF Engaging, Engaged, Referrers, ZapsOf
  <2>2. LastEngaged(n, since) \in {At[e] : e \in Engaging(n, since)}
    BY <2>1, LastTime DEF LastEngaged
  <2> QED
    BY <1>1, <2>1, <2>2, EventsAssumption
<1>4. \A m, n \in S : <<m, n>> \in R <=> \/ LastEngaged(m, since) > LastEngaged(n, since)
                                         \/ LastEngaged(m, since) = LastEngaged(n, since) /\ m > n
  OBVIOUS
<1>5. EngagedNotes(since) = Elems(Page(ByRank(R, S), 0, MaxTargets))
  <2> DEFINE later(m, n) == \/ LastEngaged(m, since) > LastEngaged(n, since)
                            \/ LastEngaged(m, since) = LastEngaged(n, since) /\ m > n
  <2>1. EngagedNotes(since) = Elems(Page(Ordered(S, later), 0, MaxTargets))
    BY DEF EngagedNotes
  <2>2. \A n \in S : {m \in S : later(m, n)} = {m \in S : <<m, n>> \in R}
    BY <1>4
  <2> HIDE DEF later, R, S
  <2>3. \A n \in S : Cardinality({m \in S : later(m, n)}) = RankIn(R, S, n)
    BY <2>2 DEF RankIn
  <2>4. Ordered(S, later) = ByRank(R, S)
    BY <2>3 DEF Ordered, ByRank
  <2> QED
    BY <2>1, <2>4
<1> HIDE DEF S, R
<1>6. StrictOrder(R, S)
  BY <1>3, <1>4 DEF StrictOrder
<1>7. MaxTargets \in Nat /\ Cardinality(S) <= MaxTargets
  BY RollupAssumption DEF S
<1>8. \A n : n \in Elems(Page(ByRank(R, S), 0, MaxTargets)) <=>
                 n \in S /\ 0 <= RankIn(R, S, n) /\ RankIn(R, S, n) < 0 + MaxTargets
  BY <1>2, <1>6, <1>7, PageByRank
<1>9. \A n \in S : RankIn(R, S, n) \in 0..(Cardinality(S) - 1)
  BY <1>2, <1>6, SortedByRanks
<1>10. ASSUME NEW n \in S PROVE n \in EngagedNotes(since)
  <2>1. 0 <= RankIn(R, S, n) /\ RankIn(R, S, n) < 0 + MaxTargets
    BY <1>2, <1>7, <1>9
  <2> QED
    BY <1>5, <1>8, <2>1
<1> QED
  BY <1>10 DEF S

\* More events that acted are as many actors or more.
LEMMA ActorsGrow ==
    ASSUME NEW T \in SUBSET Events, NEW S \in SUBSET T, NEW n
    PROVE  /\ Cardinality(RealActors(S, n)) \in Nat /\ Cardinality(RealActors(T, n)) \in Nat
           /\ Cardinality(RealActors(S, n)) <= Cardinality(RealActors(T, n))
<1>1. RealActors(S, n) \in SUBSET RealActors(T, n)
  BY DEF RealActors, AuthorsOf
<1>2. IsFiniteSet(RealActors(T, n)) /\ Cardinality(RealActors(T, n)) \in Nat
  BY ActorsCount
<1>3. Cardinality(RealActors(S, n)) \in Nat
  BY ActorsCount
<1> QED
  BY <1>1, <1>2, <1>3, FS_Subset

\* What was there when the tick began engages as it did; more notes may be engaged with,
\* and fewer replies be recent.
LEMMA GrownKeeps ==
    ASSUME TableTypes, TableTypes', Grown
    PROVE  /\ tick' = tick /\ edges' = edges /\ counted' = counted /\ real' = real
           /\ features' = features
           /\ \A n : SnapEngaging(n)' = SnapEngaging(n)
           /\ FewEngaged' => FewEngaged
           /\ RecentReplies' \subseteq RecentReplies
           /\ tick.snap \in SUBSET Events
<1>1. tick' = tick /\ edges' = edges /\ counted' = counted /\ real' = real /\ features' = features
  BY DEF Grown, derived
<1>2. stored \in SUBSET Events /\ stored' \in SUBSET Events /\ stored \subseteq stored'
  <2>1. stored' \in SUBSET Events
    BY DeployAssumption DEF TableTypes, Here
  <2> QED
    BY <2>1, StoredAreEvents DEF Grown
<1>3. tick.snap \subseteq stored /\ tick.since \in Nat
  BY DEF TableTypes
<1>4. ASSUME NEW e \in stored
      PROVE  /\ copies[e] \in Nat /\ copies'[e] \in Nat /\ copies'[e] >= copies[e]
             /\ e \in tick.snap => copies[e] > 0
  BY <1>2 DEF TableTypes, Grown
<1>5. ASSUME NEW e \in stored, copies[e] > 0, NEW key
      PROVE  copies'[e] > 0 /\ Tagged(e, key)' = Tagged(e, key)
  <2>1. copies'[e] # 0 /\ copies[e] # 0 /\ copies'[e] > 0
    BY <1>4, <1>5
  <2>2. Tagged(e, key) = TagValues(e, key)
    BY <2>1 DEF Tagged
  <2>3. Tagged(e, key)' = TagValues(e, key)
    BY <2>1 DEF Tagged
  <2> QED
    BY <2>1, <2>2, <2>3
<1>6. ASSUME NEW e \in stored, NEW n
      PROVE  /\ n \in Tagged(e, "e") => copies[e] > 0 /\ n \in Tagged(e, "e")'
             /\ copies[e] > 0 => Tagged(e, "e")' = Tagged(e, "e") /\ copies'[e] > 0
  <2>1. n \in Tagged(e, "e") => copies[e] # 0
    BY DEF Tagged
  <2>2. copies[e] # 0 => copies[e] > 0
    BY <1>4
  <2> QED
    BY <1>5, <2>1, <2>2
<1>7. ASSUME NEW n, NEW since
      PROVE  /\ Engaging(n, since) \subseteq Engaging(n, since)'
             /\ \A e \in tick.snap : e \in Engaging(n, since)' => e \in Engaging(n, since)
  <2>1. \A e : e \in Engaging(n, since) <=>
               /\ e \in stored /\ At[e] >= since
               /\ \/ Kind[e] \in {1, 6, 7, 16, 1111} /\ n \in Tagged(e, "e")
                  \/ Kind[e] = 9735 /\ copies[e] > 0 /\ FirstETag(e) = n
    BY DEF Engaging, Referrers, ZapsOf
  <2>2. \A e : e \in Engaging(n, since)' <=>
               /\ e \in stored' /\ At[e] >= since
               /\ \/ Kind[e] \in {1, 6, 7, 16, 1111} /\ n \in Tagged(e, "e")'
                  \/ Kind[e] = 9735 /\ copies'[e] > 0 /\ FirstETag(e) = n
    BY DEF Engaging, Referrers, ZapsOf
  <2>3. ASSUME NEW e \in Engaging(n, since) PROVE e \in Engaging(n, since)'
    BY <1>2, <1>6, <2>1, <2>2
  <2>4. ASSUME NEW e \in tick.snap, e \in Engaging(n, since)' PROVE e \in Engaging(n, since)
    <3>1. e \in stored /\ copies[e] > 0 /\ Tagged(e, "e")' = Tagged(e, "e")
      BY <1>3, <1>4, <1>6
    <3> QED
      BY <2>1, <2>2, <2>4, <3>1
  <2> QED
    BY <2>3, <2>4
<1>8. ASSUME NEW n PROVE SnapEngaging(n)' = SnapEngaging(n)
  <2>1. tick'.since = tick.since /\ tick'.snap = tick.snap
    BY <1>1
  <2>2. SnapEngaging(n)' = tick.snap \intersect Engaging(n, tick.since)'
    BY <2>1 DEF SnapEngaging
  <2>3. \A e \in tick.snap : e \in Engaging(n, tick.since)' <=> e \in Engaging(n, tick.since)
    <3>1. tick.since \in Nat
      BY <1>3
    <3>2. PICK since : since = tick.since
      OBVIOUS
    <3>3. /\ Engaging(n, since) \subseteq Engaging(n, since)'
          /\ \A e \in tick.snap : e \in Engaging(n, since)' => e \in Engaging(n, since)
      BY <1>7
    <3>4. since = tick'.since
      BY <2>1, <3>2
    <3> QED
      BY <3>2, <3>3, <3>4
  <2>4. SnapEngaging(n) = tick.snap \intersect Engaging(n, tick.since)
    BY DEF SnapEngaging
  <2> QED
    BY <2>2, <2>3, <2>4
<1>9. FewEngaged' => FewEngaged
  <2> DEFINE A == Engaged(tick.since)
             B == Engaged(tick.since)'
  <2>1. A \subseteq B
    <3> SUFFICES ASSUME NEW n \in A PROVE n \in B
      OBVIOUS
    <3>1. PICK e \in stored : n \in Tagged(e, "e")
      BY DEF Engaged
    <3>2. e \in stored' /\ n \in Tagged(e, "e")'
      BY <1>2, <1>6, <3>1
    <3>3. Engaging(n, tick.since) # {}
      BY DEF Engaged
    <3>4. Engaging(n, tick.since)' # {}
      BY <1>1, <1>7, <3>3
    <3> QED
      BY <3>2, <3>4 DEF Engaged
  <2>2. A \in SUBSET Events /\ B \in SUBSET Events
    <3>1. \A e \in stored : Tagged(e, "e") \subseteq Events
      BY <1>2, TagsAreEvents DEF Tagged, TagValues
    <3>2. \A e \in stored' : Tagged(e, "e")' \subseteq Events
      BY <1>2, TagsAreEvents DEF Tagged, TagValues
    <3> QED
      BY <3>1, <3>2 DEF Engaged
  <2>3. FewEngaged' <=> Cardinality(B) <= MaxTargets
    BY <1>1 DEF FewEngaged
  <2> HIDE DEF A, B
  <2>4. IsFiniteSet(B) /\ Cardinality(B) \in Nat /\ Cardinality(A) \in Nat /\ Cardinality(A) <= Cardinality(B)
    BY <2>1, <2>2, FS_Subset, FS_CardinalityType, EventsAssumption
  <2>5. FewEngaged <=> Cardinality(A) <= MaxTargets
    BY DEF FewEngaged, A
  <2> QED
    BY <2>3, <2>4, <2>5, RollupAssumption
<1>10. RecentReplies' \subseteq RecentReplies
  <2> SUFFICES ASSUME NEW c \in RecentReplies' PROVE c \in RecentReplies
    OBVIOUS
  <2>1. c \in tick.snap /\ c \in RecentChildren(tick.since, MaxTargets)' /\ IsReply(c)'
    BY <1>1 DEF RecentReplies
  <2>2. c \in TopChildren(stored', tick.since)
    <3>1. RecentChildren(tick.since, MaxTargets)' =
              Elems(Page(Newest(Children(stored', tick.since')), 0, MaxTargets))
      BY DEF RecentChildren, Children
    <3>2. tick'.since = tick.since
      BY <1>1
    <3> QED
      BY <1>2, <2>1, <3>1, <3>2, FirstChildren
  <2>3. c \in TopChildren(stored, tick.since)
    BY <1>2, <1>3, <2>1, <2>2, TopShrinks
  <2>4. c \in RecentChildren(tick.since, MaxTargets)
    BY <1>2, <2>3, RecentAreTop
  <2>5. IsReply(c)
    BY <1>3, <1>4, <2>1 DEF IsReply
  <2> QED
    BY <2>1, <2>4, <2>5 DEF RecentReplies
<1> QED
  BY <1>1, <1>2, <1>3, <1>8, <1>9, <1>10

\* Where arrivals leave a row, it still has the actors that it is to have.
LEMMA RowsKeep ==
    ASSUME TableTypes, TableTypes', Grown, NEW row \in RealRow, NEW n, RowHas(row, n)
    PROVE  RowHas(row, n)'
<1> DEFINE K == {e \in SnapEngaging(n) : Kind[e] = 7}
           A == {e \in SnapEngaging(n) \intersect RecentReplies : DirectParent(e) = n}
           B == {e \in SnapEngaging(n) \intersect RecentReplies' : DirectParent(e) = n}
<1>1. /\ SnapEngaging(n)' = SnapEngaging(n) /\ RecentReplies' \subseteq RecentReplies
      /\ tick.snap \in SUBSET Events
  BY GrownKeeps
<1>2. B \in SUBSET A /\ A \in SUBSET Events
  BY <1>1 DEF RecentReplies
<1>3. row.likes >= Cardinality(RealActors(K, n)) /\ row.replies >= Cardinality(RealActors(A, n))
  BY DEF RowHas
<1>4. RowHas(row, n)' <=> /\ row.likes >= Cardinality(RealActors(K, n))
                          /\ row.replies >= Cardinality(RealActors(B, n))
  BY <1>1 DEF RowHas
<1> HIDE DEF K, A, B
<1>5. Cardinality(RealActors(A, n)) \in Nat /\ Cardinality(RealActors(B, n)) \in Nat
      /\ Cardinality(RealActors(B, n)) <= Cardinality(RealActors(A, n))
  BY <1>2, ActorsGrow
<1>6. row.replies \in Nat
  BY DEF RealRow
<1> QED
  BY <1>3, <1>4, <1>5, <1>6

\* The engagement that is computed for a note has the actors of what engages, when the
\* edges of the replies are there.
LEMMA RealHas ==
    ASSUME TableTypes, NEW n, \A c \in RecentReplies : <<c, DirectParent(c)>> \in edges
    PROVE  RowHas(Real(n), n)
<1> DEFINE K == {e \in SnapEngaging(n) : Kind[e] = 7}
           A == {e \in SnapEngaging(n) \intersect RecentReplies : DirectParent(e) = n}
<1>1. stored \in SUBSET Events
  BY StoredAreEvents
<1>2. K \in SUBSET Referrers(n, {7}, "e") /\ Referrers(n, {7}, "e") \in SUBSET Events
  BY <1>1 DEF SnapEngaging, Engaging, Referrers, ZapsOf
<1>3. A \in SUBSET DirectReplies(n) /\ DirectReplies(n) \in SUBSET Events
  <2>1. DirectReplies(n) \subseteq stored
    BY DEF DirectReplies, TableTypes
  <2>2. ASSUME NEW e \in A PROVE e \in DirectReplies(n)
    <3>1. <<e, n>> \in edges
      OBVIOUS
    <3> QED
      BY <3>1 DEF DirectReplies
  <2> QED
    BY <1>1, <2>1, <2>2
<1>4. /\ Real(n).likes = Cardinality(RealActors(Referrers(n, {7}, "e"), n))
      /\ Real(n).replies = Cardinality(RealActors(DirectReplies(n), n))
  BY DEF Real
<1>5. RowHas(Real(n), n) <=> /\ Real(n).likes >= Cardinality(RealActors(K, n))
                             /\ Real(n).replies >= Cardinality(RealActors(A, n))
  BY DEF RowHas
<1> HIDE DEF K, A
<1>6. /\ Cardinality(RealActors(K, n)) \in Nat
      /\ Cardinality(RealActors(Referrers(n, {7}, "e"), n)) \in Nat
      /\ Cardinality(RealActors(K, n)) <= Cardinality(RealActors(Referrers(n, {7}, "e"), n))
  BY <1>2, ActorsGrow
<1>7. /\ Cardinality(RealActors(A, n)) \in Nat
      /\ Cardinality(RealActors(DirectReplies(n), n)) \in Nat
      /\ Cardinality(RealActors(A, n)) <= Cardinality(RealActors(DirectReplies(n), n))
  BY <1>3, ActorsGrow
<1> QED
  BY <1>4, <1>5, <1>6, <1>7

\* A note that a stored event of the tick engages with is one of those it looks at.
LEMMA EngagedAreLookedAt ==
    ASSUME TableTypes, FewEngaged, NEW n \in tick.snap, SnapEngaging(n) # {}
    PROVE  n \in EngagedNotes(tick.since) \intersect stored
<1>1. stored \in SUBSET Events /\ tick.snap \subseteq stored /\ tick.since \in Nat
  BY StoredAreEvents DEF TableTypes
<1>2. PICK e \in tick.snap : e \in Engaging(n, tick.since)
  BY DEF SnapEngaging
<1>3. n \in Tagged(e, "e")
  <2>1. CASE e \in ZapsOf(n)
    <3>1. copies[e] > 0 /\ copies[e] \in Nat /\ FirstETag(e) = n /\ n \in Events
      BY <1>1, <2>1 DEF ZapsOf, TableTypes
    <3>2. ETags[e] # <<>> /\ ETags[e][1].to = n
      BY <3>1, EventsAssumption DEF FirstETag
    <3>3. ETags[e] \in Seq([to : Events, marker : STRING])
      BY <1>1, EventsAssumption
    <3>4. 1 \in DOMAIN ETags[e]
      BY <3>2, <3>3
    <3> QED
      BY <3>1, <3>2, <3>4 DEF Tagged, TagValues
  <2> QED
    BY <1>2, <2>1 DEF Engaging, Referrers
<1>4. n \in Engaged(tick.since)
  BY <1>1, <1>2, <1>3 DEF Engaged
<1> QED
  BY <1>1, <1>4, FewAreAll DEF FewEngaged

\* While nothing arrives, what a tick is to have done is told by its stage and the tables.
LEMMA TickUnmoved ==
    ASSUME UNCHANGED <<stored, copies>>, tick'.since = tick.since, tick'.snap = tick.snap
    PROVE  /\ RecentReplies' = RecentReplies /\ (FewEngaged' <=> FewEngaged)
           /\ \A n : SnapEngaging(n)' = SnapEngaging(n)
           /\ \A row, n : RowHas(row, n)' <=> RowHas(row, n)
<1>1. RecentReplies' = RecentReplies
  BY DEF RecentReplies, RecentChildren, IsReply
<1>2. FewEngaged' <=> FewEngaged
  BY DEF FewEngaged, Engaged, Engaging, Referrers, ZapsOf, Tagged
<1>3. ASSUME NEW n PROVE SnapEngaging(n)' = SnapEngaging(n)
  BY DEF SnapEngaging, Engaging, Referrers, ZapsOf, Tagged
<1>4. ASSUME NEW row, NEW n PROVE RowHas(row, n)' <=> RowHas(row, n)
  BY <1>1, <1>3 DEF RowHas
<1> QED
  BY <1>1, <1>2, <1>3, <1>4

\* Arrivals leave done what a tick has done.
LEMMA TickGrows ==
    ASSUME TableTypes, TableTypes', TickInv, Grown
    PROVE  TickInv'
<1>1. /\ tick' = tick /\ edges' = edges /\ counted' = counted /\ real' = real
      /\ features' = features
      /\ \A n : SnapEngaging(n)' = SnapEngaging(n)
      /\ FewEngaged' => FewEngaged
      /\ RecentReplies' \subseteq RecentReplies
  BY GrownKeeps
<1>2. tick'.stage \in Stages \ {"edges"} => \A c \in RecentReplies' : <<c, DirectParent(c)>> \in edges'
  BY <1>1 DEF TickInv
<1>3. tick'.stage \in Stages \ {"edges", "counts"} =>
          \A c \in RecentReplies' : <<c, DirectParent(c)>> \in counted'
  BY <1>1 DEF TickInv
<1>4. ASSUME tick'.stage \in {"stats", "features", "save"}, FewEngaged',
             NEW n \in tick'.snap, SnapEngaging(n)' # {}
      PROVE  n \in DOMAIN real' /\ RowHas(real[n], n)'
  <2>1. n \in tick.snap /\ SnapEngaging(n) # {} /\ FewEngaged /\ tick.stage \in {"stats", "features", "save"}
    BY <1>1, <1>4
  <2>2. n \in DOMAIN real /\ RowHas(real[n], n)
    BY <2>1 DEF TickInv
  <2>3. PICK row : row = real[n]
    OBVIOUS
  <2>4. row \in RealRow /\ RowHas(row, n)
    BY <2>2, <2>3 DEF TableTypes
  <2>5. RowHas(row, n)'
    BY <2>4, RowsKeep
  <2>6. real'[n] = row
    BY <1>1, <2>3
  <2> QED
    BY <1>1, <2>2, <2>5, <2>6
<1>5. ASSUME tick'.stage = "save", FewEngaged', NEW n \in tick'.snap, SnapEngaging(n)' # {}
      PROVE  n \in DOMAIN features' /\ RowHas(features[n].real, n)'
  <2>1. n \in tick.snap /\ SnapEngaging(n) # {} /\ FewEngaged /\ tick.stage = "save"
    BY <1>1, <1>5
  <2>2. n \in DOMAIN features /\ RowHas(features[n].real, n)
    BY <2>1 DEF TickInv
  <2>3. PICK row : row = features[n].real
    OBVIOUS
  <2>4. row \in RealRow /\ RowHas(row, n)
    BY <2>2, <2>3 DEF TableTypes
  <2>5. RowHas(row, n)'
    BY <2>4, RowsKeep
  <2>6. features'[n].real = row
    BY <1>1, <2>3
  <2> QED
    BY <1>1, <2>2, <2>5, <2>6
<1> QED
  BY <1>2, <1>3, <1>4, <1>5 DEF TickInv

\* Each stage does what the next ones go by.
LEMMA TickStages ==
    ASSUME TableTypes, TickInv, UNCHANGED <<stored, copies>>, Stage
    PROVE  TickInv'
<1>0. stored' = stored /\ copies' = copies /\ tick.stage \in Stages /\ DOMAIN tick' = DOMAIN tick
  BY DEF Stage, RecomputeEdges, RecomputeCounts, RecomputeEngagementReal, RecomputeUserStats,
         RecomputeRankFeatures, SaveRollupState, Finishes, Stages
<1>s. ASSUME NEW s \in Stages \ {"save"}, Finishes(s)
      PROVE  /\ tick.stage = s /\ tick'.stage = StageAfter(s)
             /\ tick'.since = tick.since /\ tick'.snap = tick.snap
  BY <1>s DEF Finishes, TableTypes, Stages
<1>u. ASSUME tick'.since = tick.since, tick'.snap = tick.snap
      PROVE  /\ RecentReplies' = RecentReplies /\ (FewEngaged' <=> FewEngaged)
             /\ \A n : SnapEngaging(n)' = SnapEngaging(n)
             /\ \A row, n : RowHas(row, n)' <=> RowHas(row, n)
  BY <1>0, <1>u, TickUnmoved
<1>t. /\ StageAfter("edges") = "counts" /\ StageAfter("counts") = "real"
      /\ StageAfter("real") = "stats" /\ StageAfter("stats") = "features"
      /\ StageAfter("features") = "save" /\ StageAfter("save") = "idle"
  BY DEF StageAfter
<1>r. \A c \in RecentReplies : c \in RecentChildren(tick.since, MaxTargets) /\ IsReply(c)
  BY DEF RecentReplies
<1>1. CASE RecomputeEdges
  <2>1. tick.stage = "edges" /\ tick'.stage = "counts" /\ tick'.since = tick.since /\ tick'.snap = tick.snap
    BY <1>1, <1>s, <1>t DEF RecomputeEdges, Stages
  <2>2. RecentReplies' = RecentReplies
    BY <1>u, <2>1
  <2>3. \A c \in RecentReplies : <<c, DirectParent(c)>> \in edges'
    BY <1>1, <1>r DEF RecomputeEdges, NewEdges
  <2> QED
    BY <2>1, <2>2, <2>3 DEF TickInv
<1>2. CASE RecomputeCounts
  <2>1. tick.stage = "counts" /\ tick'.stage = "real" /\ tick'.since = tick.since /\ tick'.snap = tick.snap
    BY <1>2, <1>s, <1>t DEF RecomputeCounts, Stages
  <2>2. RecentReplies' = RecentReplies /\ edges' = edges
    BY <1>2, <1>u, <2>1 DEF RecomputeCounts
  <2>3. \A c \in RecentReplies : <<c, DirectParent(c)>> \in edges
    BY <2>1 DEF TickInv, Stages
  <2>4. \A c \in RecentReplies : <<c, DirectParent(c)>> \in counted'
    BY <1>2, <1>r, <2>3 DEF RecomputeCounts, NewCounts
  <2> QED
    BY <2>1, <2>2, <2>3, <2>4 DEF TickInv
<1>3. CASE RecomputeEngagementReal
  <2>1. tick.stage = "real" /\ tick'.stage = "stats" /\ tick'.since = tick.since /\ tick'.snap = tick.snap
    BY <1>3, <1>s, <1>t DEF RecomputeEngagementReal, Stages
  <2>2. /\ RecentReplies' = RecentReplies /\ edges' = edges /\ counted' = counted
        /\ (FewEngaged' <=> FewEngaged)
        /\ \A n : SnapEngaging(n)' = SnapEngaging(n)
        /\ \A row, n : RowHas(row, n)' <=> RowHas(row, n)
    BY <1>3, <1>u, <2>1 DEF RecomputeEngagementReal
  <2>3. \A c \in RecentReplies : <<c, DirectParent(c)>> \in edges /\ <<c, DirectParent(c)>> \in counted
    BY <2>1 DEF TickInv, Stages
  <2>4. ASSUME FewEngaged, NEW n \in tick.snap, SnapEngaging(n) # {}
        PROVE  n \in DOMAIN real' /\ RowHas(real[n], n)'
    <3> DEFINE S == EngagedNotes(tick.since) \intersect stored
    <3>1. n \in S
      BY <2>4, EngagedAreLookedAt
    <3>2. real' = Put(real, S, Real)
      BY <1>3 DEF RecomputeEngagementReal
    <3> HIDE DEF S
    <3>3. n \in DOMAIN real' /\ real'[n] = Real(n)
      BY <3>1, <3>2 DEF Put
    <3>4. PICK row : row = Real(n)
      OBVIOUS
    <3>5. RowHas(row, n)
      BY <2>3, <3>4, RealHas
    <3>6. RowHas(row, n)'
      BY <2>2, <3>5
    <3> QED
      BY <3>3, <3>4, <3>6
  <2> QED
    BY <2>1, <2>2, <2>3, <2>4 DEF TickInv
<1>4. CASE RecomputeUserStats
  <2>1. tick.stage = "stats" /\ tick'.stage = "features" /\ tick'.since = tick.since /\ tick'.snap = tick.snap
    BY <1>4, <1>s, <1>t DEF RecomputeUserStats, Stages
  <2>2. /\ RecentReplies' = RecentReplies /\ edges' = edges /\ counted' = counted /\ real' = real
        /\ (FewEngaged' <=> FewEngaged)
        /\ \A n : SnapEngaging(n)' = SnapEngaging(n)
        /\ \A row, n : RowHas(row, n)' <=> RowHas(row, n)
    BY <1>4, <1>u, <2>1 DEF RecomputeUserStats
  <2>3. \A c \in RecentReplies : <<c, DirectParent(c)>> \in edges /\ <<c, DirectParent(c)>> \in counted
    BY <2>1 DEF TickInv, Stages
  <2>4. ASSUME FewEngaged, NEW n \in tick.snap, SnapEngaging(n) # {}
        PROVE  n \in DOMAIN real' /\ RowHas(real[n], n)'
    <3>1. n \in DOMAIN real /\ RowHas(real[n], n)
      BY <2>1, <2>4 DEF TickInv
    <3>2. PICK row : row = real[n]
      OBVIOUS
    <3>3. RowHas(row, n)' /\ real'[n] = row
      BY <2>2, <3>1, <3>2
    <3> QED
      BY <2>2, <3>1, <3>3
  <2> QED
    BY <2>1, <2>2, <2>3, <2>4 DEF TickInv
<1>5. CASE RecomputeRankFeatures
  <2>1. tick.stage = "features" /\ tick'.stage = "save" /\ tick'.since = tick.since /\ tick'.snap = tick.snap
    BY <1>5, <1>s, <1>t DEF RecomputeRankFeatures, Stages
  <2>2. /\ RecentReplies' = RecentReplies /\ edges' = edges /\ counted' = counted /\ real' = real
        /\ (FewEngaged' <=> FewEngaged)
        /\ \A n : SnapEngaging(n)' = SnapEngaging(n)
        /\ \A row, n : RowHas(row, n)' <=> RowHas(row, n)
    BY <1>5, <1>u, <2>1 DEF RecomputeRankFeatures
  <2>3. \A c \in RecentReplies : <<c, DirectParent(c)>> \in edges /\ <<c, DirectParent(c)>> \in counted
    BY <2>1 DEF TickInv, Stages
  <2>4. ASSUME FewEngaged, NEW n \in tick.snap, SnapEngaging(n) # {}
        PROVE  /\ n \in DOMAIN real' /\ RowHas(real[n], n)'
               /\ n \in DOMAIN features' /\ RowHas(features[n].real, n)'
    <3> DEFINE S == EngagedNotes(tick.since) \intersect stored
               new(x) == [raw |-> Raw(x), real |-> RealOf(x), score |-> Score[Author[x]]]
    <3>1. n \in DOMAIN real /\ RowHas(real[n], n)
      BY <2>1, <2>4 DEF TickInv
    <3>2. PICK row : row = real[n]
      OBVIOUS
    <3>3. RowHas(row, n)' /\ real'[n] = row
      BY <2>2, <3>1, <3>2
    <3>4. n \in S
      BY <2>4, EngagedAreLookedAt
    <3>5. features' = [x \in DOMAIN features \union S |-> IF x \in S THEN new(x) ELSE features[x]]
      BY <1>5 DEF RecomputeRankFeatures, Put
    <3> HIDE DEF S
    <3>6. n \in DOMAIN features' /\ features'[n] = new(n)
      BY <3>4, <3>5
    <3>7. new(n).real = row
      BY <3>1, <3>2 DEF RealOf
    <3> HIDE DEF new
    <3> QED
      BY <2>2, <3>1, <3>3, <3>6, <3>7
  <2> QED
    BY <2>1, <2>2, <2>3, <2>4 DEF TickInv
<1>6. CASE SaveRollupState
  <2>1. tick'.stage = "idle"
    BY <1>6, <1>t DEF SaveRollupState, Finishes, TableTypes, Stages
  <2> QED
    BY <2>1 DEF TickInv, Stages
<1> QED
  BY <1>1, <1>2, <1>3, <1>4, <1>5, <1>6 DEF Stage

\* A step leaves a tick with all that its stage stands for.
LEMMA TickNext ==
    ASSUME TableTypes, TableTypes', TickInv, [Next]_vars
    PROVE  TickInv'
<1>1. CASE Arrive
  <2>1. Grown
    BY <1>1, ArriveGrows
  <2> QED
    BY <2>1, TickGrows
<1>2. CASE UNCHANGED <<stored, copies>> /\ Stage
  BY <1>2, TickStages
<1>3. CASE Begin \/ TickEnds
  <2>1. tick'.stage = "edges" \/ tick'.stage = "idle"
    <3>1. CASE Begin
      BY <3>1 DEF Begin
    <3>2. CASE TickEnds
      BY <3>2 DEF TickEnds, TableTypes
    <3> QED
      BY <1>3, <3>1, <3>2
  <2> QED
    BY <2>1 DEF TickInv, Stages
<1>4. CASE UNCHANGED <<stored, copies, derived>>
  <2>1. /\ tick' = tick /\ edges' = edges /\ counted' = counted /\ real' = real /\ features' = features
        /\ stored' = stored /\ copies' = copies
    BY <1>4 DEF derived
  <2>2. /\ RecentReplies' = RecentReplies /\ (FewEngaged' <=> FewEngaged)
        /\ \A n : SnapEngaging(n)' = SnapEngaging(n)
        /\ \A row, n : RowHas(row, n)' <=> RowHas(row, n)
    BY <2>1, TickUnmoved
  <2>3. ASSUME NEW n
        PROVE  /\ RowHas(real[n], n)' <=> RowHas(real[n], n)
               /\ RowHas(features[n].real, n)' <=> RowHas(features[n].real, n)
    <3>1. PICK row, other : row = real[n] /\ other = features[n].real
      OBVIOUS
    <3>2. real'[n] = row /\ features'[n].real = other
      BY <2>1, <3>1
    <3>3. (RowHas(row, n)' <=> RowHas(row, n)) /\ (RowHas(other, n)' <=> RowHas(other, n))
      BY <2>2
    <3> QED
      BY <3>1, <3>2, <3>3
  <2> QED
    BY <2>1, <2>2, <2>3 DEF TickInv
<1> QED
  BY <1>1, <1>2, <1>3, <1>4, StepKinds

\* At the end of a tick the invariant is the completeness of the tick.
LEMMA TickSays ==
    ASSUME TableTypes, TickInv
    PROVE  TickIsComplete
<1> SUFFICES ASSUME tick.stage = "save" PROVE TickIsComplete
  BY DEF TickIsComplete
<1>1. ASSUME NEW c \in tick.snap \intersect RecentChildren(tick.since, MaxTargets), IsReply(c)
      PROVE  c \in CountedReplies(DirectParent(c))
  <2>1. <<c, DirectParent(c)>> \in counted
    BY <1>1 DEF TickInv, RecentReplies, Stages
  <2> QED
    BY <2>1 DEF CountedReplies
<1>2. ASSUME NEW n \in tick.snap, SnapEngaging(n) # {}, Cardinality(Engaged(tick.since)) <= MaxTargets
      PROVE  n \in DOMAIN features /\ RowHas(features[n].real, n)
  BY <1>2 DEF TickInv, FewEngaged
<1>3. ASSUME NEW n
      PROVE  {e \in SnapEngaging(n) \intersect RecentReplies : DirectParent(e) = n} =
                 {e \in SnapEngaging(n) : /\ IsReply(e) /\ DirectParent(e) = n
                                          /\ e \in RecentChildren(tick.since, MaxTargets)}
  BY DEF RecentReplies, SnapEngaging
<1>4. ASSUME NEW n \in tick.snap,
             SnapEngaging(n) # {}, Cardinality(Engaged(tick.since)) <= MaxTargets
      PROVE  /\ n \in DOMAIN features
             /\ features[n].real.likes >= Cardinality(RealActors({e \in SnapEngaging(n) : Kind[e] = 7}, n))
             /\ features[n].real.replies >=
                   Cardinality(RealActors({e \in SnapEngaging(n) :
                                              /\ IsReply(e) /\ DirectParent(e) = n
                                              /\ e \in RecentChildren(tick.since, MaxTargets)}, n))
  BY <1>2, <1>3, <1>4 DEF RowHas
<1> QED
  BY <1>1, <1>4 DEF TickIsComplete, SnapEngaging

\* What a tick has done by each stage, of what was there when it began, stays done.
THEOREM ReadsTickIsComplete == Spec => []TickIsComplete
<1>1. Init => TickInv
  BY DEF Init, TickInv, Idle, Stages
<1>2. TableTypes /\ TableTypes' /\ TickInv /\ [Next]_vars => TickInv'
  BY TickNext
<1>3. TableTypes /\ TickInv => TickIsComplete
  BY TickSays
<1> QED
  BY <1>1, <1>2, <1>3, ReadTables, PTL DEF Spec

-----------------------------------------------------------------------------
(* The pools of ranked feeds *)

KeyOf(c) == PoolKey(flights[c].request)

\* Computations of one key are one; a pool and a computation are of what had arrived, and
\* a pool is of no more than the computation that will replace it.
PoolInv ==
    /\ pools = [k \in DOMAIN pools |-> [pool |-> pools[k].pool, asOf |-> pools[k].asOf, fresh |-> pools[k].fresh]]
    /\ \A c, d \in DOMAIN flights : KeyOf(c) = KeyOf(d) => c = d
    /\ \A c \in DOMAIN flights : flights[c].asOf \subseteq Arrived
    /\ \A k \in DOMAIN pools : pools[k].asOf \subseteq Arrived
    /\ \A c \in DOMAIN flights : KeyOf(c) \in DOMAIN pools => pools[KeyOf(c)].asOf \subseteq flights[c].asOf

\* Which steps there are for the pools: arrivals, those of clients, and the others.
LEMMA PoolStepKinds ==
    ASSUME [Next]_vars
    PROVE  \/ Arrive /\ UNCHANGED ranked
           \/ UNCHANGED <<stored, copies>> /\ (Ask \/ \E c \in Clients, r \in Requests : Miss(c, r))
           \/ UNCHANGED <<stored, copies, ranked>>
  BY DEF Next, vars, Rolls, Rolling, FillFeed, ScrollEvents, ScrollNotices, AskRanked, ranked, Arrive

\* What has arrived stays.
LEMMA ArrivedGrows ==
    ASSUME TableTypes, TableTypes', Grown
    PROVE  Arrived \subseteq Arrived'
<1> SUFFICES ASSUME NEW e \in stored, NEW i \in 0..copies[e]
             PROVE  <<e, i>> \in Arrived'
  BY DEF Arrived
<1>1. e \in stored' /\ copies[e] \in Nat /\ copies'[e] \in Nat /\ copies[e] <= copies'[e]
  BY DEF Grown, TableTypes
<1>2. i \in 0..copies'[e]
  BY <1>1
<1> QED
  BY <1>1, <1>2 DEF Arrived

\* A flight that is over leaves the others as they are.
LEMMA OverLeaves ==
    ASSUME NEW l, Over(l)
    PROVE  /\ DOMAIN flights' = DOMAIN flights \ {l}
           /\ \A c \in DOMAIN flights' : flights'[c] = flights[c]
  BY DEF Over

\* The pools after a flight: the one of its key is what it computed, of any other key
\* they are what they were.
PoolPut(l) ==
    /\ KeyOf(l) \in DOMAIN pools' /\ l \in DOMAIN flights
    /\ pools'[KeyOf(l)] = [pool |-> PoolOf(flights[l].request, flights[l].ids),
                           asOf |-> flights[l].asOf, fresh |-> TRUE]
    /\ DOMAIN pools' = DOMAIN Swept \union {KeyOf(l)} /\ DOMAIN Swept \subseteq DOMAIN pools
    /\ \A k \in DOMAIN pools' : k # KeyOf(l) => k \in DOMAIN pools /\ pools'[k] = pools[k]

\* What getOrCompute leaves in the map when a flight is over.
LEMMA PoolsAfter ==
    ASSUME PoolInv, NEW l, FlightEnds(l)
    PROVE  PoolPut(l)
<1> DEFINE K == KeyOf(l)
           row(k) == [pool |-> PoolOf(flights[l].request, flights[l].ids),
                      asOf |-> flights[l].asOf, fresh |-> TRUE]
<1>1. pools' = [k \in DOMAIN Swept \union {K} |-> IF k \in {K} THEN row(k) ELSE Swept[k]] /\ l \in DOMAIN flights
  BY DEF FlightEnds, Put, KeyOf
<1>2. DOMAIN Swept \subseteq DOMAIN pools /\ \A k \in DOMAIN Swept : Swept[k] = pools[k]
  <2>1. CASE Swept = Fresh
    BY <2>1 DEF Fresh
  <2>2. CASE Swept = <<>>
    BY <2>2
  <2> QED
    BY <2>1, <2>2 DEF Swept
<1> HIDE DEF K
<1>3. \A k \in DOMAIN pools' : k # K => k \in DOMAIN Swept /\ pools'[k] = Swept[k]
  BY <1>1
<1>4. pools'[K] = row(K) /\ K \in DOMAIN pools' /\ DOMAIN pools' = DOMAIN Swept \union {K}
  BY <1>1
<1> QED
  BY <1>1, <1>2, <1>3, <1>4 DEF K, PoolPut

\* Each step keeps the invariant, and replaces no pool by one of less.
LEMMA PoolsNext ==
    ASSUME TableTypes, TableTypes', PoolInv, [Next]_vars
    PROVE  /\ PoolInv'
           /\ \A k \in DOMAIN pools \intersect DOMAIN pools' : pools[k].asOf \subseteq pools'[k].asOf
<1>1. CASE Arrive /\ UNCHANGED ranked
  <2>1. Arrived \subseteq Arrived'
    BY <1>1, ArriveGrows, ArrivedGrows
  <2> QED
    BY <1>1, <2>1 DEF ranked, PoolInv, KeyOf
<1>2. CASE UNCHANGED <<stored, copies>> /\ Ask
  <2>1. Arrived' = Arrived
    BY <1>2 DEF Arrived
  <2>2. ASSUME NEW c \in Clients, DoFlight(c)
        PROVE  /\ PoolInv'
               /\ \A k \in DOMAIN pools \intersect DOMAIN pools' : pools[k].asOf \subseteq pools'[k].asOf
    <3>1. pools' = pools
      BY <2>2 DEF DoFlight
    <3>2. CASE UNCHANGED flights
      BY <2>1, <3>1, <3>2 DEF PoolInv, KeyOf
    <3>3. CASE /\ Under(PoolKey(asks[c].request)) = {}
               /\ \E ids \in PoolIds(asks[c].request) :
                    flights' = Put(flights, {c}, LAMBDA x : [request |-> asks[c].request, ids |-> ids, asOf |-> Arrived])
      <4>1. PICK ids : flights' = [x \in DOMAIN flights \union {c} |->
                                     IF x \in {c} THEN [request |-> asks[c].request, ids |-> ids, asOf |-> Arrived]
                                     ELSE flights[x]]
        BY <3>3 DEF Put
      <4>2. DOMAIN flights' = DOMAIN flights \union {c}
        BY <4>1
      <4>3. flights'[c].request = asks[c].request /\ flights'[c].asOf = Arrived
        BY <4>1
      <4>4. \A d \in DOMAIN flights' : d # c => d \in DOMAIN flights /\ flights'[d] = flights[d]
        BY <4>1
      <4>5. \A d \in DOMAIN flights : KeyOf(d) # PoolKey(asks[c].request)
        BY <3>3 DEF Under, KeyOf
      <4>6. /\ KeyOf(c)' = PoolKey(asks[c].request)
            /\ \A d \in DOMAIN flights' : d # c => KeyOf(d)' = KeyOf(d)
        BY <4>3, <4>4 DEF KeyOf
      <4>7. \A d, e \in DOMAIN flights' : KeyOf(d)' = KeyOf(e)' => d = e
        BY <4>4, <4>5, <4>6 DEF PoolInv
      <4>8. \A d \in DOMAIN flights' : flights'[d].asOf \subseteq Arrived'
        BY <2>1, <4>3, <4>4 DEF PoolInv
      <4>9. \A d \in DOMAIN flights' : KeyOf(d)' \in DOMAIN pools' => pools'[KeyOf(d)'].asOf \subseteq flights'[d].asOf
        BY <3>1, <4>3, <4>4, <4>6 DEF PoolInv
      <4> QED
        BY <2>1, <3>1, <4>7, <4>8, <4>9 DEF PoolInv
    <3> QED
      BY <2>2, <3>2, <3>3 DEF DoFlight
  <2>3. ASSUME NEW c \in Clients, FlightEnds(c)
        PROVE  /\ PoolInv'
               /\ \A k \in DOMAIN pools \intersect DOMAIN pools' : pools[k].asOf \subseteq pools'[k].asOf
    <3>1. /\ KeyOf(c) \in DOMAIN pools' /\ c \in DOMAIN flights
          /\ pools'[KeyOf(c)] = [pool |-> PoolOf(flights[c].request, flights[c].ids),
                                 asOf |-> flights[c].asOf, fresh |-> TRUE]
          /\ DOMAIN pools' = DOMAIN Swept \union {KeyOf(c)} /\ DOMAIN Swept \subseteq DOMAIN pools
          /\ \A k \in DOMAIN pools' : k # KeyOf(c) => k \in DOMAIN pools /\ pools'[k] = pools[k]
      <4>1. PoolPut(c)
        BY <2>3, PoolsAfter
      <4> QED
        BY <4>1 DEF PoolPut
    <3>2. DOMAIN flights' = DOMAIN flights \ {c} /\ \A d \in DOMAIN flights' : flights'[d] = flights[d]
      BY <2>3, OverLeaves DEF FlightEnds
    <3>3. \A d \in DOMAIN flights' : KeyOf(d)' = KeyOf(d) /\ KeyOf(d) # KeyOf(c) /\ d \in DOMAIN flights
      BY <3>1, <3>2 DEF PoolInv, KeyOf
    <3>4. \A k \in DOMAIN pools' : pools'[k] = [pool |-> pools'[k].pool, asOf |-> pools'[k].asOf, fresh |-> pools'[k].fresh]
      BY <3>1 DEF PoolInv
    <3>5. pools' = [k \in DOMAIN pools' |-> pools'[k]]
      BY <2>3 DEF FlightEnds, Put
    <3>6. \A k \in DOMAIN pools' : pools'[k].asOf \subseteq Arrived
      BY <3>1 DEF PoolInv
    <3>7. \A k \in DOMAIN pools \intersect DOMAIN pools' : pools[k].asOf \subseteq pools'[k].asOf
      BY <3>1 DEF PoolInv
    <3>8. \A d \in DOMAIN flights' : KeyOf(d)' \in DOMAIN pools' => pools'[KeyOf(d)'].asOf \subseteq flights'[d].asOf
      BY <3>1, <3>2, <3>3 DEF PoolInv
    <3>9. \A d, e \in DOMAIN flights' : KeyOf(d)' = KeyOf(e)' => d = e
      BY <3>3 DEF PoolInv
    <3>10. pools' = [k \in DOMAIN pools' |->
                       [pool |-> pools'[k].pool, asOf |-> pools'[k].asOf, fresh |-> pools'[k].fresh]]
      BY <3>4, <3>5
    <3>11. \A d \in DOMAIN flights' : flights'[d].asOf \subseteq Arrived'
      BY <2>1, <3>2 DEF PoolInv
    <3> QED
      BY <2>1, <3>6, <3>7, <3>8, <3>9, <3>10, <3>11 DEF PoolInv
  <2>4. ASSUME NEW c \in Clients, FlightFails(c)
        PROVE  /\ PoolInv'
               /\ \A k \in DOMAIN pools \intersect DOMAIN pools' : pools[k].asOf \subseteq pools'[k].asOf
    <3>1. pools' = pools
      BY <2>4 DEF FlightFails
    <3>2. DOMAIN flights' = DOMAIN flights \ {c} /\ \A d \in DOMAIN flights' : flights'[d] = flights[d]
      BY <2>4, OverLeaves DEF FlightFails
    <3>3. \A d \in DOMAIN flights' : KeyOf(d)' = KeyOf(d) /\ d \in DOMAIN flights
      BY <3>2 DEF KeyOf
    <3> QED
      BY <2>1, <3>1, <3>2, <3>3 DEF PoolInv
  <2>5. ASSUME NEW k \in DOMAIN pools, Expire(k)
        PROVE  /\ PoolInv'
               /\ \A x \in DOMAIN pools \intersect DOMAIN pools' : pools[x].asOf \subseteq pools'[x].asOf
    <3>1. flights' = flights /\ pools' = [pools EXCEPT ![k].fresh = FALSE]
      BY <2>5 DEF Expire
    <3>2. DOMAIN pools' = DOMAIN pools
      BY <3>1
    <3>3. ASSUME NEW x \in DOMAIN pools
          PROVE  /\ pools'[x].asOf = pools[x].asOf
                 /\ pools'[x] = [pool |-> pools'[x].pool, asOf |-> pools'[x].asOf, fresh |-> pools'[x].fresh]
      <4>1. pools[x] = [pool |-> pools[x].pool, asOf |-> pools[x].asOf, fresh |-> pools[x].fresh]
        BY DEF PoolInv
      <4>2. pools'[x] = IF x = k THEN [pools[x] EXCEPT !.fresh = FALSE] ELSE pools[x]
        BY <3>1
      <4> QED
        BY <4>1, <4>2
    <3>4. pools' = [x \in DOMAIN pools' |-> pools'[x]]
      BY <3>1, <3>2
    <3>5. pools' = [x \in DOMAIN pools' |->
                       [pool |-> pools'[x].pool, asOf |-> pools'[x].asOf, fresh |-> pools'[x].fresh]]
      BY <3>2, <3>3, <3>4
    <3> QED
      BY <2>1, <3>1, <3>2, <3>3, <3>5 DEF PoolInv, KeyOf
  <2> QED
    BY <1>2, <2>2, <2>3, <2>4, <2>5 DEF Ask
<1>3. CASE UNCHANGED <<stored, copies>> /\ \E c \in Clients, r \in Requests : Miss(c, r)
  BY <1>3 DEF Miss, PoolInv, KeyOf, Arrived
<1>4. CASE UNCHANGED <<stored, copies, ranked>>
  BY <1>4 DEF ranked, PoolInv, KeyOf, Arrived
<1> QED
  BY <1>1, <1>2, <1>3, <1>4, PoolStepKinds

\* Nothing is computed and no pool is kept in the beginning.
LEMMA PoolsInit == Init => PoolInv
  BY DEF Init, PoolInv

\* Whoever reads a pool reads one that is no older than what was read before.
THEOREM ReadsPoolsOnlyAdvance == Spec => PoolsOnlyAdvance
<1>1. TableTypes /\ TableTypes' /\ PoolInv /\ [Next]_vars =>
          PoolInv' /\ \A k \in DOMAIN pools \intersect DOMAIN pools' : pools[k].asOf \subseteq pools'[k].asOf
  BY PoolsNext
<1> QED
  BY <1>1, PoolsInit, ReadTables, PTL DEF Spec, PoolsOnlyAdvance

\* A computation that ends finds room: it adds one pool to those that are fresh, or
\* begins anew.
LEMMA PoolsStayBounded ==
    ASSUME PoolInv, IsFiniteSet(DOMAIN pools), PoolsAreBounded, [Next]_vars
    PROVE  IsFiniteSet(DOMAIN pools') /\ PoolsAreBounded'
<1>1. CASE pools' = pools
  BY <1>1 DEF PoolsAreBounded
<1>2. ASSUME NEW l, FlightEnds(l)
      PROVE  IsFiniteSet(DOMAIN pools') /\ Cardinality(DOMAIN pools') <= PoolMax
  <2>1. DOMAIN pools' = DOMAIN Swept \union {KeyOf(l)} /\ DOMAIN Swept \subseteq DOMAIN pools
    <3>1. PoolPut(l)
      BY <1>2, PoolsAfter
    <3> QED
      BY <3>1 DEF PoolPut
  <2>2. IsFiniteSet(DOMAIN Swept) /\ Cardinality(DOMAIN Swept) \in Nat
    BY <2>1, FS_Subset, FS_CardinalityType
  <2>3. Cardinality(DOMAIN Swept) < PoolMax
    <3>1. CASE Cardinality(DOMAIN Fresh) >= PoolMax
      <4>1. DOMAIN Swept = {}
        BY <3>1 DEF Swept
      <4> QED
        BY <4>1, FS_EmptySet, RankedAssumption
    <3>2. CASE ~(Cardinality(DOMAIN Fresh) >= PoolMax)
      <4>1. Swept = Fresh
        BY <3>2 DEF Swept
      <4> QED
        BY <2>2, <3>2, <4>1, RankedAssumption
    <3> QED
      BY <3>1, <3>2
  <2> DEFINE D == DOMAIN Swept
             k == KeyOf(l)
  <2>4. /\ IsFiniteSet(D \union {k})
        /\ Cardinality(D \union {k}) = IF k \in D THEN Cardinality(D) ELSE Cardinality(D) + 1
    BY <2>2, FS_AddElement
  <2> HIDE DEF D, k
  <2>5. Cardinality(D) \in Nat /\ Cardinality(D) < PoolMax /\ PoolMax \in Nat
    BY <2>2, <2>3, RankedAssumption DEF D
  <2>6. Cardinality(D \union {k}) <= PoolMax
    BY <2>4, <2>5
  <2> QED
    BY <2>1, <2>4, <2>6 DEF D, k
<1>3. ASSUME NEW k \in DOMAIN pools, Expire(k) PROVE DOMAIN pools' = DOMAIN pools
  BY <1>3 DEF Expire
<1>4. ASSUME NEW c, DoFlight(c) \/ FlightFails(c) PROVE pools' = pools
  BY <1>4 DEF DoFlight, FlightFails
<1>5. CASE Ask
  BY <1>1, <1>2, <1>3, <1>4, <1>5 DEF Ask, PoolsAreBounded
<1>6. CASE (Arrive /\ UNCHANGED ranked) \/ UNCHANGED <<stored, copies, ranked>>
  BY <1>1, <1>6 DEF ranked
<1>7. CASE \E c \in Clients, r \in Requests : Miss(c, r)
  BY <1>1, <1>7 DEF Miss
<1> QED
  BY <1>5, <1>6, <1>7, PoolStepKinds

\* A schema keeps no more pools than it may.
THEOREM ReadsPoolsAreBounded == Spec => []PoolsAreBounded
<1>1. Init => IsFiniteSet(DOMAIN pools) /\ PoolsAreBounded
  <2> SUFFICES ASSUME Init PROVE IsFiniteSet(DOMAIN pools) /\ PoolsAreBounded
    OBVIOUS
  <2>1. DOMAIN pools = {}
    BY DEF Init
  <2> QED
    BY <2>1, FS_EmptySet, RankedAssumption DEF PoolsAreBounded
<1>2. PoolInv /\ IsFiniteSet(DOMAIN pools) /\ PoolsAreBounded /\ [Next]_vars =>
          (IsFiniteSet(DOMAIN pools) /\ PoolsAreBounded)'
  BY PoolsStayBounded
<1>3. TableTypes /\ TableTypes' /\ PoolInv /\ [Next]_vars => PoolInv'
  BY PoolsNext
<1> QED
  BY <1>1, <1>2, <1>3, PoolsInit, ReadTables, PTL DEF Spec

\* While nothing arrives, a request has the rows, the candidates and the scores it had.
LEMMA RankingUnmoved ==
    ASSUME UNCHANGED <<stored, copies>>, NEW r
    PROVE  PoolIds(r)' = PoolIds(r) /\ \A ids : PoolOf(r, ids)' = PoolOf(r, ids)
<1>1. ASSUME NEW e, NEW key PROVE Tagged(e, key)' = Tagged(e, key)
  BY DEF Tagged
<1>2. ASSUME NEW q PROVE Matching(q)' = Matching(q)
  <2>1. ASSUME NEW e, NEW t PROVE HasTag(e, t)' <=> HasTag(e, t)
    BY <1>1 DEF HasTag
  <2>2. ASSUME NEW e PROVE Matches(e, q)' <=> Matches(e, q)
    BY <2>1 DEF Matches
  <2> QED
    BY <2>2 DEF Matching
<1>3. ASSUME NEW q, NEW key PROVE TagCounts(q, key)' = TagCounts(q, key)
  BY <1>1, <1>2 DEF TagCounts
<1>4. ASSUME NEW q, NEW key, NEW t PROVE ReferenceCounts(q, key, t)' = ReferenceCounts(q, key, t)
  <2>1. ReferenceRows(q, key, t)' = ReferenceRows(q, key, t)
    BY <1>1, <1>2 DEF ReferenceRows
  <2> QED
    BY <2>1 DEF ReferenceCounts
<1>5. RowCounts(r)' = RowCounts(r)
  BY <1>3, <1>4 DEF RowCounts
<1>6. PoolIds(r)' = PoolIds(r)
  BY <1>5 DEF PoolIds
<1>7. ASSUME NEW q PROVE QueryEvents(q)' = QueryEvents(q)
  BY <1>2 DEF QueryEvents
<1>8. ASSUME NEW ids PROVE TargetEvents(r, ids)' = TargetEvents(r, ids)
  BY <1>7 DEF TargetEvents
<1>9. ASSUME NEW q, NEW key, NEW x, NEW n PROVE ByTargetCounts(q, key, x, n)' = ByTargetCounts(q, key, x, n)
  <2>1. Referring(q, key, x)' = Referring(q, key, x)
    BY <1>1, <1>2 DEF Referring
  <2> QED
    BY <2>1 DEF ByTargetCounts
<1>10. ASSUME NEW e, NEW kinds, NEW gate PROVE LikesOf(e, kinds, gate)' = LikesOf(e, kinds, gate)
  BY <1>9 DEF LikesOf
<1>11. ASSUME NEW e PROVE BaseScore(r, e)' = BaseScore(r, e)
  BY <1>10 DEF BaseScore
<1>12. ASSUME NEW ids PROVE PoolOf(r, ids)' = PoolOf(r, ids)
  BY <1>8, <1>11 DEF PoolOf
<1> QED
  BY <1>6, <1>12

\* What the key of a pool leaves out does not shape the pool.
LEMMA KeyTells ==
    ASSUME NEW r \in Rankings, NEW x \in Rankings, PoolKey(r) = PoolKey(x)
    PROVE  PoolIds(r) = PoolIds(x) /\ \A ids : PoolOf(r, ids) = PoolOf(x, ids)
<1>1. /\ r.kinds = x.kinds /\ r.refs = x.refs /\ r.target = x.target
      /\ r.weights = x.weights /\ r.gate = x.gate
  <2>1. ASSUME NEW y \in Rankings
        PROVE  /\ PoolKey(y).kinds = y.kinds /\ PoolKey(y).refs = y.refs /\ PoolKey(y).target = y.target
               /\ PoolKey(y).weights = y.weights /\ PoolKey(y).gate = y.gate
    BY DEF PoolKey, Rankings
  <2> QED
    BY <2>1
<1>2. RowCounts(r) = RowCounts(x)
  BY <1>1 DEF RowCounts
<1>3. PoolIds(r) = PoolIds(x)
  BY <1>1, <1>2 DEF PoolIds
<1>4. ASSUME NEW ids PROVE PoolOf(r, ids) = PoolOf(x, ids)
  <2>1. TargetEvents(r, ids) = TargetEvents(x, ids)
    BY <1>1 DEF TargetEvents
  <2>2. ASSUME NEW e PROVE BaseScore(r, e) = BaseScore(x, e)
    BY <1>1 DEF BaseScore
  <2> QED
    BY <2>1, <2>2 DEF PoolOf
<1> QED
  BY <1>3, <1>4

\* A request as it is parsed: a page of one event or more, and as many rows as the page
\* and what comes before it, if that many may be counted.
LEMMA RequestsAreParsed ==
    ASSUME mode \in Modes, NEW r \in Requests
    PROVE  /\ r \in Rankings /\ r.limit \in 1..RankedMax /\ r.offset \in Nat
           /\ r.refs = IF r.limit + r.offset > GroupMax THEN r.limit ELSE r.limit + r.offset
<1>1. PICK m \in Rankings : r = ParseRanked(m)
  BY DeployAssumption DEF Requests, Here
<1> DEFINE n == IF m.limit <= 0 \/ m.limit > RankedMax THEN RankedDefault ELSE m.limit
           k == IF m.offset < 0 THEN 0 ELSE m.offset
           refs == IF n + k > GroupMax THEN n ELSE n + k
<1>2. r = [m EXCEPT !.limit = n, !.offset = k, !.refs = refs, !.target.limit = n]
  BY <1>1 DEF ParseRanked
<1>3. m.limit \in Int /\ m.offset \in Int
  BY DEF Rankings
<1>4. n \in 1..RankedMax /\ k \in Nat
  BY <1>3, RankedAssumption
<1>5. refs \in Nat
  BY <1>4
<1> HIDE DEF n, k, refs
<1>6. [m.target EXCEPT !.limit = n] \in Filters
  <2>1. m.target \in Filters
    BY DEF Rankings
  <2> QED
    BY <1>4, <2>1 DEF Filters
<1>7. r.limit = n /\ r.offset = k /\ r.refs = refs /\ r.target = [m.target EXCEPT !.limit = n]
  BY <1>2 DEF Rankings
<1>8. r \in Rankings
  <2> DEFINE t == [m.target EXCEPT !.limit = n]
  <2>1. r = [m EXCEPT !.limit = n, !.offset = k, !.refs = refs, !.target = t]
    BY <1>2
  <2>2. t \in Filters /\ n \in Int /\ k \in Int
    BY <1>4, <1>6
  <2> HIDE DEF t
  <2> QED
    BY <1>5, <2>1, <2>2 DEF Rankings
<1> QED
  BY <1>4, <1>7, <1>8 DEF refs

\* An arrival is one more, so that what was read before it is not of all that has arrived.
LEMMA ArrivedMore ==
    ASSUME TableTypes, TableTypes', Arrive
    PROVE  Arrived \subseteq Arrived' /\ Arrived' # Arrived
<1>1. Arrived \subseteq Arrived'
  BY ArriveGrows, ArrivedGrows
<1>2. PICK e : InsertRow(e) \/ InsertTags(e)
  BY DEF Arrive
<1>3. \A x, i : <<x, i>> \in Arrived <=> x \in stored /\ i \in 0..copies[x]
  BY DEF Arrived
<1>4. \A x, i : <<x, i>> \in Arrived' <=> x \in stored' /\ i \in 0..copies'[x]
  BY DEF Arrived
<1>5. CASE InsertRow(e)
  <2>1. e \notin stored /\ e \in stored'
    BY <1>5 DEF InsertRow
  <2>2. 0 \in 0..copies'[e]
    BY <2>1 DEF TableTypes
  <2> QED
    BY <1>1, <1>3, <1>4, <2>1, <2>2
<1>6. CASE InsertTags(e)
  <2>1. e \in stored /\ e \in stored' /\ copies[e] \in Nat /\ copies'[e] = copies[e] + 1
    BY <1>6 DEF InsertTags, TableTypes
  <2>2. copies'[e] \in 0..copies'[e] /\ copies'[e] \notin 0..copies[e]
    BY <2>1
  <2> QED
    BY <1>1, <1>3, <1>4, <2>1, <2>2
<1> QED
  BY <1>2, <1>5, <1>6

\* The pool of the request, for some rows that it may be given.
PoolFor(p, k) == \E r \in Rankings : PoolKey(r) = k /\ \E ids \in PoolIds(r) : p = PoolOf(r, ids)

\* Computations have rows, and pools are what a request of their key gives, for all that
\* has arrived when they are of that.
SharedInv ==
    /\ DOMAIN asks = Clients /\ \A c \in Clients : asks[c] # None => asks[c].request \in Rankings
    /\ \A c \in DOMAIN flights :
          /\ flights[c].request \in Rankings
          /\ flights[c].asOf = Arrived => flights[c].ids \in PoolIds(flights[c].request)
    /\ \A k \in DOMAIN pools : pools[k].asOf = Arrived => PoolFor(pools[k].pool, k)

\* Each step of the clients keeps that.
LEMMA SharedAsks ==
    ASSUME TableTypes, PoolInv, SharedInv, UNCHANGED <<stored, copies>>, Ask
    PROVE  SharedInv'
<1>1. Arrived' = Arrived
  BY DEF Arrived
<1>2. \A r : PoolIds(r)' = PoolIds(r) /\ \A ids : PoolOf(r, ids)' = PoolOf(r, ids)
  BY RankingUnmoved
<1>3. \A p, k : PoolFor(p, k)' <=> PoolFor(p, k)
  BY <1>2 DEF PoolFor
<1>4. ASSUME NEW c \in Clients, DoFlight(c)
      PROVE  SharedInv'
  <2>1. pools' = pools /\ asks[c] # None /\ c \in Clients
    BY <1>4 DEF DoFlight
  <2>2. DOMAIN asks' = Clients /\ \A d \in Clients : asks'[d] # None => asks'[d].request \in Rankings
    <3>1. PICK l : asks' = [asks EXCEPT ![c].waitsFor = l]
      BY <1>4 DEF DoFlight
    <3>2. \A d \in Clients : asks'[d] = IF d = c THEN [asks[c] EXCEPT !.waitsFor = l] ELSE asks[d]
      BY <3>1 DEF SharedInv
    <3>3. asks[c].request \in Rankings /\ [asks[c] EXCEPT !.waitsFor = l].request = asks[c].request
      BY <2>1 DEF SharedInv
    <3> QED
      BY <3>1, <3>2, <3>3 DEF SharedInv
  <2>3. CASE UNCHANGED flights
    BY <1>1, <1>2, <1>3, <2>1, <2>2, <2>3 DEF SharedInv
  <2>4. CASE \E ids \in PoolIds(asks[c].request) :
                flights' = Put(flights, {c}, LAMBDA x : [request |-> asks[c].request, ids |-> ids, asOf |-> Arrived])
    <3>1. PICK ids \in PoolIds(asks[c].request) :
              flights' = [x \in DOMAIN flights \union {c} |->
                             IF x \in {c} THEN [request |-> asks[c].request, ids |-> ids, asOf |-> Arrived]
                             ELSE flights[x]]
      BY <2>4 DEF Put
    <3>2. flights'[c] = [request |-> asks[c].request, ids |-> ids, asOf |-> Arrived]
      BY <3>1
    <3>3. \A d \in DOMAIN flights' : d # c => d \in DOMAIN flights /\ flights'[d] = flights[d]
      BY <3>1
    <3>4. asks[c].request \in Rankings
      BY <2>1 DEF SharedInv
    <3>5. \A d \in DOMAIN flights' :
              /\ flights'[d].request \in Rankings
              /\ flights'[d].asOf = Arrived => flights'[d].ids \in PoolIds(flights'[d].request)
      <4>1. flights'[c].request \in Rankings /\ flights'[c].ids \in PoolIds(flights'[c].request)
        BY <3>1, <3>2, <3>4
      <4> QED
        BY <3>3, <4>1 DEF SharedInv
    <3>6. \A d \in DOMAIN flights' :
              flights'[d].asOf = Arrived' => flights'[d].ids \in PoolIds(flights[d].request)'
      BY <1>1, <1>2, <3>5
    <3> QED
      BY <1>1, <1>3, <2>1, <2>2, <3>5, <3>6 DEF SharedInv
  <2> QED
    BY <1>4, <2>3, <2>4 DEF DoFlight
<1>5. ASSUME NEW l, Over(l)
      PROVE  /\ DOMAIN asks' = Clients /\ \A d \in Clients : asks'[d] # None => asks'[d].request \in Rankings
             /\ \A c \in DOMAIN flights' :
                   /\ flights'[c].request \in Rankings
                   /\ flights'[c].asOf = Arrived' => flights'[c].ids \in PoolIds(flights[c].request)'
  <2>1. DOMAIN asks' = Clients /\ \A d \in Clients : asks'[d] = asks[d] \/ asks'[d] = None
    BY <1>5 DEF Over
  <2>2. \A c \in DOMAIN flights' : c \in DOMAIN flights /\ flights'[c] = flights[c]
    BY <1>5, OverLeaves
  <2>3. \A c \in DOMAIN flights' :
            flights'[c].request \in Rankings /\ PoolIds(flights[c].request)' = PoolIds(flights[c].request)
    BY <1>2, <2>2 DEF SharedInv
  <2> QED
    BY <1>1, <2>1, <2>2, <2>3 DEF SharedInv
<1>6. ASSUME NEW l \in Clients, FlightEnds(l)
      PROVE  SharedInv'
  <2>0. PoolPut(l)
    BY <1>6, PoolsAfter
  <2>1. /\ l \in DOMAIN flights
        /\ pools'[KeyOf(l)] = [pool |-> PoolOf(flights[l].request, flights[l].ids),
                               asOf |-> flights[l].asOf, fresh |-> TRUE]
        /\ \A k \in DOMAIN pools' : k # KeyOf(l) => k \in DOMAIN pools /\ pools'[k] = pools[k]
    BY <2>0 DEF PoolPut
  <2>2. flights[l].asOf = Arrived => PoolFor(pools'[KeyOf(l)].pool, KeyOf(l))
    BY <2>1 DEF SharedInv, PoolFor, KeyOf
  <2>3. \A k \in DOMAIN pools' : pools'[k].asOf = Arrived => PoolFor(pools'[k].pool, k)
    BY <2>1, <2>2 DEF SharedInv
  <2>4. \A k \in DOMAIN pools' : pools'[k].asOf = Arrived' => PoolFor(pools[k].pool, k)'
    <3> SUFFICES ASSUME NEW k \in DOMAIN pools', pools'[k].asOf = Arrived' PROVE PoolFor(pools[k].pool, k)'
      OBVIOUS
    <3>1. PICK p : p = pools'[k].pool
      OBVIOUS
    <3>2. PoolFor(p, k)
      BY <1>1, <2>3, <3>1
    <3>3. PoolFor(p, k)'
      BY <1>3, <3>2
    <3> QED
      BY <3>1, <3>3
  <2>5. Over(l)
    BY <1>6 DEF FlightEnds
  <2> QED
    BY <1>5, <2>4, <2>5 DEF SharedInv
<1>7. ASSUME NEW l \in Clients, FlightFails(l)
      PROVE  SharedInv'
  <2>1. pools' = pools /\ Over(l)
    BY <1>7 DEF FlightFails
  <2> QED
    BY <1>1, <1>3, <1>5, <2>1 DEF SharedInv
<1>8. ASSUME NEW k \in DOMAIN pools, Expire(k)
      PROVE  SharedInv'
  <2>1. flights' = flights /\ asks' = asks /\ DOMAIN pools' = DOMAIN pools
    BY <1>8 DEF Expire
  <2>2. ASSUME NEW x \in DOMAIN pools
        PROVE  pools'[x].asOf = pools[x].asOf /\ pools'[x].pool = pools[x].pool
    <3>1. pools[x] = [pool |-> pools[x].pool, asOf |-> pools[x].asOf, fresh |-> pools[x].fresh]
      BY DEF PoolInv
    <3>2. pools'[x] = IF x = k THEN [pools[x] EXCEPT !.fresh = FALSE] ELSE pools[x]
      BY <1>8 DEF Expire
    <3> QED
      BY <3>1, <3>2
  <2>3. \A x \in DOMAIN pools' : pools'[x].asOf = Arrived' => PoolFor(pools[x].pool, x)'
    <3> SUFFICES ASSUME NEW x \in DOMAIN pools', pools'[x].asOf = Arrived' PROVE PoolFor(pools[x].pool, x)'
      OBVIOUS
    <3>1. PICK p : p = pools'[x].pool
      OBVIOUS
    <3>2. PoolFor(p, x)
      BY <1>1, <2>1, <2>2, <3>1 DEF SharedInv
    <3>3. PoolFor(p, x)'
      BY <1>3, <3>2
    <3> QED
      BY <3>1, <3>3
  <2> QED
    BY <1>1, <1>2, <2>1, <2>3 DEF SharedInv
<1> QED
  BY <1>4, <1>6, <1>7, <1>8 DEF Ask

\* So does every other step.
LEMMA SharedNext ==
    ASSUME TableTypes, TableTypes', PoolInv, SharedInv, [Next]_vars
    PROVE  SharedInv'
<1>1. CASE Arrive /\ UNCHANGED ranked
  <2>1. Arrived \subseteq Arrived' /\ Arrived' # Arrived
    BY <1>1, ArrivedMore
  <2>2. pools' = pools /\ flights' = flights /\ asks' = asks
    BY <1>1 DEF ranked
  <2>3. (\A c \in DOMAIN flights : flights[c].asOf # Arrived') /\ \A k \in DOMAIN pools : pools[k].asOf # Arrived'
    BY <2>1 DEF PoolInv
  <2> QED
    BY <2>2, <2>3 DEF SharedInv
<1>2. CASE UNCHANGED <<stored, copies>> /\ Ask
  BY <1>2, SharedAsks
<1>3. ASSUME UNCHANGED <<stored, copies, pools, flights>>,
             DOMAIN asks' = Clients, \A c \in Clients : asks'[c] # None => asks'[c].request \in Rankings
      PROVE  SharedInv'
  <2>1. Arrived' = Arrived
    BY <1>3 DEF Arrived
  <2>2. \A r : PoolIds(r)' = PoolIds(r) /\ \A ids : PoolOf(r, ids)' = PoolOf(r, ids)
    BY <1>3, RankingUnmoved
  <2>3. \A p, k : PoolFor(p, k)' <=> PoolFor(p, k)
    BY <2>2 DEF PoolFor
  <2> QED
    BY <1>3, <2>1, <2>2, <2>3 DEF SharedInv
<1>4. CASE UNCHANGED <<stored, copies>> /\ \E c \in Clients, r \in Requests : Miss(c, r)
  <2>1. PICK c \in Clients, r \in Requests : Miss(c, r)
    BY <1>4
  <2>2. r \in Rankings
    BY RequestsAreParsed DEF TableTypes
  <2>3. asks' = [asks EXCEPT ![c] = [request |-> r, waitsFor |-> None]] /\ UNCHANGED <<pools, flights>>
    BY <2>1 DEF Miss
  <2>4. DOMAIN asks' = Clients /\ \A d \in Clients : asks'[d] # None => asks'[d].request \in Rankings
    BY <2>2, <2>3 DEF SharedInv
  <2> QED
    BY <1>3, <1>4, <2>3, <2>4
<1>5. CASE UNCHANGED <<stored, copies, ranked>>
  BY <1>3, <1>5 DEF ranked, SharedInv
<1> QED
  BY <1>1, <1>2, <1>4, <1>5, PoolStepKinds

\* A pool that is of all that has arrived is one that each request of its key could have
\* computed for itself.
THEOREM ReadsPoolsAreShared == Spec => []PoolsAreShared
<1>1. Init => SharedInv
  BY DEF Init, SharedInv
<1>2. TableTypes /\ TableTypes' /\ PoolInv /\ SharedInv /\ [Next]_vars => PoolInv' /\ SharedInv'
  BY PoolsNext, SharedNext
<1>3. ASSUME TableTypes, SharedInv PROVE PoolsAreShared
  <2> SUFFICES ASSUME NEW r \in Requests, PoolKey(r) \in DOMAIN pools, pools[PoolKey(r)].asOf = Arrived
               PROVE  pools[PoolKey(r)].pool \in {PoolOf(r, ids) : ids \in PoolIds(r)}
    BY DEF PoolsAreShared
  <2>1. r \in Rankings
    BY <1>3, RequestsAreParsed DEF TableTypes
  <2>2. PICK x \in Rankings : /\ PoolKey(x) = PoolKey(r)
                              /\ \E ids \in PoolIds(x) : pools[PoolKey(r)].pool = PoolOf(x, ids)
    BY <1>3 DEF SharedInv, PoolFor
  <2>3. PoolIds(r) = PoolIds(x) /\ \A ids : PoolOf(r, ids) = PoolOf(x, ids)
    BY <2>1, <2>2, KeyTells
  <2> QED
    BY <2>2, <2>3
<1> QED
  BY <1>1, <1>2, <1>3, PoolsInit, ReadTables, PTL DEF Spec

\* The counts of rows are numbers, of events, for finitely many of them.
LEMMA CountsAreNumbers ==
    ASSUME stored \in SUBSET Events, NEW r
    PROVE  /\ DOMAIN RowCounts(r) \in SUBSET Events
           /\ \A x \in DOMAIN RowCounts(r) : RowCounts(r)[x] \in Nat
<1> DEFINE q == [AnyEvent EXCEPT !.kinds = r.kinds, !.followers = r.gate]
<1>1. \A p : Matching(p) \in SUBSET Events
  BY DEF Matching
<1>2. \A S \in SUBSET Events : Cardinality({Author[e] : e \in S}) \in Nat
  <2> SUFFICES ASSUME NEW S \in SUBSET Events PROVE Cardinality({Author[e] : e \in S}) \in Nat
    OBVIOUS
  <2>1. {Author[e] : e \in S} \in SUBSET Users
    BY EventsAssumption
  <2> QED
    BY <2>1, FS_Subset, FS_CardinalityType, EventsAssumption
<1>3. /\ DOMAIN TagCounts(q, "e") \in SUBSET Events
      /\ \A x \in DOMAIN TagCounts(q, "e") : TagCounts(q, "e")[x] \in Nat
  <2> DEFINE S == Matching(q)
             cited(x) == {f \in S : x \in Tagged(f, "e")}
  <2>1. S \in SUBSET Events
    BY <1>1
  <2>2. \A e \in S : Tagged(e, "e") \subseteq Events
    BY <2>1, TagsAreEvents DEF Tagged, TagValues
  <2>3. TagCounts(q, "e") = [x \in UNION {Tagged(e, "e") : e \in S} |-> Cardinality({Author[e] : e \in cited(x)})]
    BY DEF TagCounts
  <2>4. \A x : cited(x) \in SUBSET Events
    BY <2>1
  <2> HIDE DEF S, cited, q
  <2>5. \A x : Cardinality({Author[e] : e \in cited(x)}) \in Nat
    BY <1>2, <2>4
  <2> QED
    BY <2>2, <2>3, <2>5
<1>4. /\ DOMAIN ReferenceCounts(q, "e", r.target) \in SUBSET Events
      /\ \A x \in DOMAIN ReferenceCounts(q, "e", r.target) : ReferenceCounts(q, "e", r.target)[x] \in Nat
  <2> DEFINE R == ReferenceRows(q, "e", r.target)
             of(x) == {s \in R : s[2] = x}
  <2>1. R \subseteq Events \X Events
    BY <1>1 DEF ReferenceRows
  <2>2. ReferenceCounts(q, "e", r.target) = [x \in {s[2] : s \in R} |-> Cardinality({Author[s[1]] : s \in of(x)})]
    BY DEF ReferenceCounts
  <2>3. \A x : of(x) \subseteq Events \X Events
    BY <2>1
  <2> HIDE DEF R, of, q
  <2>4. \A x : {Author[s[1]] : s \in of(x)} \in SUBSET Users
    BY <2>3, EventsAssumption
  <2>5. \A x : Cardinality({Author[s[1]] : s \in of(x)}) \in Nat
    BY <2>4, FS_Subset, FS_CardinalityType, EventsAssumption
  <2> QED
    BY <2>1, <2>2, <2>5
<1>5. RowCounts(r) = IF HasFilters(r.target) THEN ReferenceCounts(q, "e", r.target) ELSE TagCounts(q, "e")
  BY DEF RowCounts
<1> HIDE DEF q
<1> QED
  BY <1>3, <1>4, <1>5

\* An enumeration of a finite set has all of it.
LEMMA OrdersList ==
    ASSUME NEW G, IsFiniteSet(G), NEW s \in Orders(G)
    PROVE  Elems(s) = G /\ s \in Seq(G) /\ Len(s) = Cardinality(G)
<1>1. Cardinality(G) \in Nat
  BY FS_CardinalityType
<1>2. s \in [1..Cardinality(G) -> G] /\ \A i, j \in 1..Cardinality(G) : s[i] = s[j] => i = j
  BY DEF Orders
<1>3. s \in Injection(1..Cardinality(G), G)
  BY <1>2 DEF Injection, IsInjective
<1>4. IsFiniteSet(1..Cardinality(G)) /\ Cardinality(1..Cardinality(G)) = Cardinality(G)
  BY <1>1, FS_Interval
<1>5. s \in Surjection(1..Cardinality(G), G)
  BY <1>3, <1>4, FS_Injection
<1>6. \A g \in G : \E i \in 1..Cardinality(G) : s[i] = g
  BY <1>5 DEF Surjection
<1>7. Elems(s) = G
  BY <1>2, <1>6 DEF Elems
<1> QED
  BY <1>1, <1>2, <1>7

\* Groups can be put in the order of their counts.
LEMMA OrderExists ==
    ASSUME NEW G \in SUBSET Events, NEW f, \A x \in G : f[x] \in Nat
    PROVE  \E s \in Orders(G) : \A i, j \in DOMAIN s : i < j => f[s[i]] >= f[s[j]]
<1> DEFINE R == {x \in G \X G : f[x[1]] > f[x[2]] \/ (f[x[1]] = f[x[2]] /\ x[1] < x[2])}
           s == ByRank(R, G)
           n == Cardinality(G)
<1>1. IsFiniteSet(G) /\ \A x \in G : x \in Nat
  BY FS_Subset, EventsAssumption
<1>2. \A x, y \in G : <<x, y>> \in R <=> f[x] > f[y] \/ (f[x] = f[y] /\ x < y)
  OBVIOUS
<1> HIDE DEF R
<1>3. StrictOrder(R, G)
  BY <1>1, <1>2 DEF StrictOrder
<1>4. /\ n \in Nat /\ s \in Seq(G) /\ Len(s) = n
      /\ \A e \in G : RankIn(R, G, e) \in 0..(n - 1) /\ s[RankIn(R, G, e) + 1] = e
      /\ \A i \in 1..n : s[i] \in G /\ RankIn(R, G, s[i]) = i - 1
      /\ \A e, g \in G : <<e, g>> \in R <=> RankIn(R, G, e) < RankIn(R, G, g)
  BY <1>1, <1>3, SortedByRanks
<1> HIDE DEF s, n
<1>5. s \in [1..n -> G] /\ DOMAIN s = 1..n
  BY <1>4
<1>6. ASSUME NEW i \in 1..n, NEW j \in 1..n, i < j PROVE s[i] # s[j] /\ f[s[i]] >= f[s[j]]
  <2>1. s[i] \in G /\ s[j] \in G /\ RankIn(R, G, s[i]) = i - 1 /\ RankIn(R, G, s[j]) = j - 1
    BY <1>4
  <2>2. i \in Int /\ j \in Int /\ i - 1 < j - 1 /\ i - 1 # j - 1
    BY <1>6
  <2>3. <<s[i], s[j]>> \in R
    BY <1>4, <2>1, <2>2
  <2>4. f[s[i]] \in Nat /\ f[s[j]] \in Nat
    BY <2>1
  <2> QED
    BY <1>2, <2>1, <2>2, <2>3, <2>4
<1>7. \A i, j \in 1..n : i # j => s[i] # s[j]
  <2> SUFFICES ASSUME NEW i \in 1..n, NEW j \in 1..n, i # j PROVE s[i] # s[j]
    OBVIOUS
  <2>1. i \in Int /\ j \in Int
    BY <1>4
  <2>2. i < j \/ j < i
    BY <2>1
  <2> QED
    BY <1>6, <2>2
<1>8. s \in Orders(G)
  BY <1>5, <1>7 DEF Orders, n
<1> QED
  BY <1>5, <1>6, <1>8

\* The rows of a request, in any of their orders, are the groups that the limit leaves.
LEMMA OrdersAreOfRows ==
    ASSUME stored \in SUBSET Events, NEW r
    PROVE  /\ \A G \in RowSets(r) : G \in SUBSET Events /\ \E s \in RowOrders(r) : Elems(s) = G
           /\ \A s \in RowOrders(r) :
                 /\ Elems(s) \in RowSets(r) /\ s \in Seq(Elems(s)) /\ Len(s) = Cardinality(Elems(s))
                 /\ \A i, j \in DOMAIN s : i < j => RowCounts(r)[s[i]] >= RowCounts(r)[s[j]]
                 /\ \A i, j \in DOMAIN s : i # j => s[i] # s[j]
<1> DEFINE f == RowCounts(r)
           n == Limited(r.refs, GroupMax, GroupDefault)
           Sorted(s) == \A i, j \in DOMAIN s : i < j => f[s[i]] >= f[s[j]]
<1>1. DOMAIN f \in SUBSET Events /\ \A x \in DOMAIN f : f[x] \in Nat
  BY CountsAreNumbers
<1>2. RowSets(r) = TopGroups(f, n)
  BY DEF RowSets
<1>3. RowOrders(r) = UNION {{s \in Orders(G) : Sorted(s)} : G \in RowSets(r)}
  BY DEF RowOrders
<1> HIDE DEF f, n
<1>4. \A G \in RowSets(r) : G \in SUBSET DOMAIN f
  BY <1>2 DEF TopGroups
<1>5. ASSUME NEW G \in RowSets(r)
      PROVE  G \in SUBSET Events /\ IsFiniteSet(G) /\ \A x \in G : f[x] \in Nat
  BY <1>1, <1>4, FS_Subset, EventsAssumption
<1>6. ASSUME NEW G \in RowSets(r) PROVE \E s \in RowOrders(r) : Elems(s) = G
  <2>1. PICK s \in Orders(G) : Sorted(s)
    BY <1>5, OrderExists
  <2>2. s \in RowOrders(r)
    BY <1>3, <2>1
  <2> QED
    BY <1>5, <2>2, OrdersList
<1>7. ASSUME NEW s \in RowOrders(r)
      PROVE  /\ Elems(s) \in RowSets(r) /\ s \in Seq(Elems(s)) /\ Len(s) = Cardinality(Elems(s))
             /\ Sorted(s) /\ \A i, j \in DOMAIN s : i # j => s[i] # s[j]
  <2>1. PICK G \in RowSets(r) : s \in Orders(G) /\ Sorted(s)
    BY <1>3
  <2>2. Elems(s) = G /\ s \in Seq(G) /\ Len(s) = Cardinality(G)
    BY <1>5, <2>1, OrdersList
  <2>3. \A i, j \in DOMAIN s : i # j => s[i] # s[j]
    BY <2>1 DEF Orders
  <2> QED
    BY <2>1, <2>2, <2>3
<1> QED
  BY <1>5, <1>6, <1>7 DEF f

\* As deep as a pool is, the two transports take the same rows, and score and cut them
\* the same way.
THEOREM ReadsTransportsAgree == Spec => []TransportsAgree
<1>1. ASSUME TableTypes PROVE TransportsAgree
  <2> SUFFICES ASSUME NEW r \in Requests, UsesPool(r), r.limit + r.offset <= PoolDepth
               PROVE  PoolPages(r) = DirectPages(r)
    BY DEF TransportsAgree
  <2>1. stored \in SUBSET Events
    BY <1>1, StoredAreEvents
  <2>2. /\ r.limit \in 1..RankedMax /\ r.offset \in Nat
        /\ r.refs = IF r.limit + r.offset > GroupMax THEN r.limit ELSE r.limit + r.offset
    BY <1>1, RequestsAreParsed DEF TableTypes
  <2> DEFINE n == Limited(r.refs, GroupMax, GroupDefault)
  <2>3. n = r.refs /\ n \in Nat /\ n <= PoolDepth
    <3>1. r.refs \in Nat /\ r.refs # 0 /\ r.refs <= GroupMax /\ r.refs <= r.limit + r.offset
      BY <2>2, RankedAssumption
    <3>2. n = r.refs
      BY <3>1, RankedAssumption DEF Limited
    <3> QED
      BY <2>2, <3>1, <3>2, RankedAssumption
  <2>4. Least(PoolDepth, n) = n
    BY <2>3, RankedAssumption DEF Least
  <2>5. PoolIds(r) = RowSets(r)
    BY <2>4 DEF PoolIds, RowSets
  <2>6. r.target.ids = {} /\ IsWeighted(r)
    BY DEF UsesPool
  <2> DEFINE Of(G) == Finalize(r, PoolOf(r, G).events, PoolOf(r, G).scores)
             D(s) == LET ids == IF r.target.ids = {} THEN Elems(s) ELSE Elems(s) \intersect r.target.ids
                         candidates == TargetEvents(r, ids)
                     IN  IF IsWeighted(r) \/ r.boosted # {}
                         THEN Finalize(r, Elems(candidates), [e \in Elems(candidates) |-> BaseScore(r, e)])
                         ELSE Page(CandidateOrder(s, candidates), r.offset, r.limit)
  <2>7. PoolPages(r) = {Of(G) : G \in RowSets(r)}
    BY <2>5 DEF PoolPages
  <2>8. DirectPages(r) = {D(s) : s \in RowOrders(r)}
    BY DEF DirectPages
  <2>9. \A s : D(s) = Of(Elems(s))
    BY <2>6 DEF PoolOf
  <2> HIDE DEF Of, D
  <2>10. /\ \A G \in RowSets(r) : \E s \in RowOrders(r) : Elems(s) = G
         /\ \A s \in RowOrders(r) : Elems(s) \in RowSets(r)
    BY <2>1, OrdersAreOfRows
  <2> QED
    BY <2>7, <2>8, <2>9, <2>10
<1> QED
  BY <1>1, ReadTables, PTL

-----------------------------------------------------------------------------
(* Unweighted pages *)

\* t are the elements of s at the places p, which rise, and are those of I.
Picks(t, s, I, p) ==
    /\ p \in [1..Len(t) -> 1..Len(s)]
    /\ \A i, j \in 1..Len(t) : i < j => p[i] < p[j]
    /\ \A i \in 1..Len(t) : t[i] = s[p[i]] /\ p[i] \in I
    /\ \A k \in I : \E i \in 1..Len(t) : p[i] = k

\* What is picked from a sequence is in its order.
LEMMA PickedIsInOrder ==
    ASSUME NEW T, NEW s \in Seq(T), NEW I \in SUBSET (1..Len(s))
    PROVE  /\ Picked(s, I) \in Seq(T) /\ Len(Picked(s, I)) = Cardinality(I)
           /\ \E p : Picks(Picked(s, I), s, I, p)
<1> DEFINE R == {x \in I \X I : x[1] < x[2]}
           n == Cardinality(I)
<1>1. Len(s) \in Nat /\ DOMAIN s = 1..Len(s)
  OBVIOUS
<1>2. IsFiniteSet(I) /\ \A i \in I : i \in 1..Len(s) /\ i \in Int
  <2>1. IsFiniteSet(1..Len(s))
    BY <1>1, FS_Interval
  <2>2. IsFiniteSet(I)
    BY <2>1, FS_Subset
  <2> QED
    BY <1>1, <2>2
<1>3. \A i, j \in I : <<i, j>> \in R <=> i < j
  OBVIOUS
<1>4. \A i \in I : {h \in I : <<h, i>> \in R} = {h \in I : h < i}
  BY <1>3
<1>5. \A i \in I : RankIn(R, I, i) = Cardinality({h \in I : h < i})
  BY <1>4 DEF RankIn
<1> HIDE DEF R
<1>6. StrictOrder(R, I)
  BY <1>2, <1>3 DEF StrictOrder
<1>7. PICK p : p = ByRank(R, I)
  OBVIOUS
<1>9. /\ n \in Nat /\ p \in Seq(I) /\ Len(p) = n
      /\ \A i \in I : RankIn(R, I, i) \in 0..(n - 1) /\ p[RankIn(R, I, i) + 1] = i
      /\ \A k \in 1..n : p[k] \in I /\ RankIn(R, I, p[k]) = k - 1
      /\ \A i, j \in I : <<i, j>> \in R <=> RankIn(R, I, i) < RankIn(R, I, j)
  BY <1>2, <1>6, <1>7, SortedByRanks
<1>8. Ordered(I, LAMBDA i, j : i < j) = p
  <2> DEFINE q == Ordered(I, LAMBDA i, j : i < j)
             Has(i, k) == Cardinality({h \in I : h < i}) = k - 1
  <2>1. q = [k \in 1..n |-> CHOOSE i \in I : Has(i, k)]
    BY DEF Ordered
  <2>2. \A k \in 1..n : \A i \in I : Has(i, k) <=> RankIn(R, I, i) = k - 1
    BY <1>5
  <2> HIDE DEF Has, q
  <2>3. \A k \in 1..n : q[k] \in I /\ RankIn(R, I, q[k]) = k - 1
    <3> TAKE k \in 1..n
    <3>1. p[k] \in I /\ Has(p[k], k)
      BY <1>9, <2>2
    <3>2. q[k] = CHOOSE i \in I : Has(i, k)
      BY <2>1
    <3>3. q[k] \in I /\ Has(q[k], k)
      BY <3>1, <3>2
    <3> QED
      BY <2>2, <3>3
  <2>4. \A k \in 1..n : q[k] = p[k]
    BY <1>9, <2>3
  <2>5. DOMAIN q = 1..n /\ DOMAIN p = 1..n /\ q = [k \in 1..n |-> q[k]] /\ p = [k \in 1..n |-> p[k]]
    BY <1>9, <2>1
  <2>6. q = p
    BY <2>4, <2>5
  <2> QED
    BY <2>6 DEF q
<1>10. DOMAIN p = 1..n
  BY <1>9
<1>11. Picked(s, I) = [k \in 1..n |-> s[p[k]]]
  BY <1>8, <1>10 DEF Picked
<1> HIDE DEF n
<1>12. \A k \in 1..n : p[k] \in 1..Len(s) /\ p[k] \in I /\ s[p[k]] \in T
  <2> SUFFICES ASSUME NEW k \in 1..n PROVE p[k] \in 1..Len(s) /\ p[k] \in I /\ s[p[k]] \in T
    OBVIOUS
  <2>1. p[k] \in 1..Len(s) /\ p[k] \in I
    BY <1>2, <1>9
  <2> QED
    BY <1>1, <2>1
<1>13. PICK t : t = Picked(s, I)
  OBVIOUS
<1>14. t \in Seq(T) /\ Len(t) = n /\ \A k \in 1..n : t[k] = s[p[k]]
  <2>1. t \in [1..n -> T]
    BY <1>11, <1>12, <1>13
  <2> QED
    BY <1>9, <1>11, <1>13, <2>1
<1>15. \A i, j \in 1..n : i < j => p[i] < p[j]
  <2> SUFFICES ASSUME NEW i \in 1..n, NEW j \in 1..n, i < j PROVE p[i] < p[j]
    OBVIOUS
  <2>1. p[i] \in I /\ p[j] \in I /\ RankIn(R, I, p[i]) = i - 1 /\ RankIn(R, I, p[j]) = j - 1 /\ i - 1 < j - 1
    BY <1>9
  <2>2. <<p[i], p[j]>> \in R
    BY <1>9, <2>1
  <2> QED
    BY <1>3, <2>1, <2>2
<1>16. \A k \in I : \E i \in 1..n : p[i] = k
  <2> SUFFICES ASSUME NEW k \in I PROVE \E i \in 1..n : p[i] = k
    OBVIOUS
  <2>2. RankIn(R, I, k) \in 0..(n - 1) /\ p[RankIn(R, I, k) + 1] = k
    BY <1>9
  <2>3. RankIn(R, I, k) + 1 \in 1..n
    BY <1>9, <2>2
  <2> QED
    BY <2>2, <2>3
<1>17. p \in [1..n -> 1..Len(s)]
  BY <1>9, <1>10, <1>12
<1>18. Picks(t, s, I, p)
  BY <1>12, <1>14, <1>15, <1>16, <1>17 DEF Picks
<1> QED
  BY <1>13, <1>14, <1>18 DEF n

\* t are the elements of s at the places p, which rise, and are all that are in S.
Keeps(t, s, S, p) ==
    /\ p \in [1..Len(t) -> 1..Len(s)]
    /\ \A i, j \in 1..Len(t) : i < j => p[i] < p[j]
    /\ \A i \in 1..Len(t) : t[i] = s[p[i]] /\ s[p[i]] \in S
    /\ \A k \in 1..Len(s) : s[k] \in S => \E i \in 1..Len(t) : p[i] = k

\* What is kept of a sequence is in its order.
LEMMA KeptIsInOrder ==
    ASSUME NEW T, NEW s \in Seq(T), NEW S
    PROVE  /\ Kept(s, S) \in Seq(T) /\ Len(Kept(s, S)) = Cardinality({i \in 1..Len(s) : s[i] \in S})
           /\ \E p : Keeps(Kept(s, S), s, S, p)
<1> DEFINE I == {i \in 1..Len(s) : s[i] \in S}
<1>1. I \in SUBSET (1..Len(s)) /\ \A k : k \in I <=> k \in 1..Len(s) /\ s[k] \in S
  OBVIOUS
<1>2. Kept(s, S) = Picked(s, I)
  <2>1. DOMAIN s = 1..Len(s)
    OBVIOUS
  <2>2. {i \in DOMAIN s : s[i] \in S} = I
    BY <2>1
  <2> QED
    BY <2>2 DEF Kept
<1> HIDE DEF I
<1>3. PICK t : t = Picked(s, I)
  OBVIOUS
<1>4. t \in Seq(T) /\ Len(t) = Cardinality(I) /\ \E p : Picks(t, s, I, p)
  BY <1>1, <1>3, PickedIsInOrder
<1>5. PICK p : Picks(t, s, I, p)
  BY <1>4
<1>6. Keeps(t, s, S, p)
  BY <1>1, <1>5 DEF Picks, Keeps
<1> QED
  BY <1>2, <1>3, <1>4, <1>6 DEF I

\* The elements of a sequence are all different.
Once(s) == \A i, j \in DOMAIN s : i # j => s[i] # s[j]

\* What a page of a sequence over T has.
IsCut(s, k, n, T) ==
    /\ Page(s, k, n) \in Seq(T)
    /\ Len(s) <= k => Len(Page(s, k, n)) = 0
    /\ Len(Page(s, k, n)) <= n
    /\ \A i \in 1..Len(Page(s, k, n)) : k + i \in 1..Len(s) /\ Page(s, k, n)[i] = s[k + i]
    /\ k = 0 /\ Len(s) <= n => Page(s, k, n) = s
    /\ Once(s) => Once(Page(s, k, n))

\* A page is cut out of its list.
LEMMA PageOfSeq ==
    ASSUME NEW T, NEW s \in Seq(T), NEW k \in Nat, NEW n \in Nat
    PROVE  IsCut(s, k, n, T)
<1> DEFINE m == Least(Len(s), k + n)
           p == SubSeq(s, k + 1, m)
<1>1. Len(s) \in Nat /\ \A i \in 1..Len(s) : s[i] \in T
  OBVIOUS
<1>2. m \in Nat /\ m <= Len(s) /\ m <= k + n /\ (Len(s) <= k + n => m = Len(s))
  BY <1>1 DEF Least
<1>3. Page(s, k, n) = p
  BY DEF Page
<1> HIDE DEF m
<1>4. /\ p \in Seq(T) /\ Len(p) = IF k + 1 <= m THEN m - (k + 1) + 1 ELSE 0
      /\ \A i \in 1..(m - (k + 1) + 1) : p[i] = s[k + 1 + i - 1]
  <2>1. \A i \in (k + 1)..m : s[i] \in T
    BY <1>1, <1>2
  <2> QED
    BY <1>2, <2>1, SubSeqProperties
<1> HIDE DEF p
<1>5. \A i \in 1..Len(p) : k + i \in 1..Len(s) /\ p[i] = s[k + i]
  <2> SUFFICES ASSUME NEW i \in 1..Len(p) PROVE k + i \in 1..Len(s) /\ p[i] = s[k + i]
    OBVIOUS
  <2>1. k + 1 <= m /\ i \in 1..(m - (k + 1) + 1) /\ k + 1 + i - 1 = k + i
    BY <1>2, <1>4
  <2> QED
    BY <1>1, <1>2, <1>4, <2>1
<1>6. (Len(s) <= k => Len(p) = 0) /\ Len(p) <= n
  BY <1>1, <1>2, <1>4
<1>7. k = 0 /\ Len(s) <= n => p = s
  <2> SUFFICES ASSUME k = 0, Len(s) <= n PROVE p = s
    OBVIOUS
  <2>1. m = Len(s) /\ Len(p) = Len(s)
    BY <1>1, <1>2, <1>4
  <2>2. \A i \in 1..Len(s) : p[i] = s[i]
    BY <1>1, <1>5, <2>1
  <2> QED
    BY <1>1, <1>4, <2>1, <2>2
<1>8. Once(s) => Once(p)
  <2> SUFFICES ASSUME Once(s), NEW i \in DOMAIN p, NEW j \in DOMAIN p, i # j PROVE p[i] # p[j]
    BY DEF Once
  <2>1. i \in 1..Len(p) /\ j \in 1..Len(p) /\ Len(p) \in Nat
    BY <1>4
  <2>2. /\ k + i \in DOMAIN s /\ k + j \in DOMAIN s /\ k + i # k + j
        /\ p[i] = s[k + i] /\ p[j] = s[k + j]
    BY <1>1, <1>5, <2>1
  <2> QED
    BY <2>2 DEF Once
<1> QED
  BY <1>3, <1>4, <1>5, <1>6, <1>7, <1>8 DEF IsCut

\* There are n places up to n.
LEMMA Numbered == \A n \in Nat : IsFiniteSet(1..n) /\ Cardinality(1..n) = n
<1> SUFFICES ASSUME NEW n \in Nat PROVE IsFiniteSet(1..n) /\ Cardinality(1..n) = n
  OBVIOUS
<1> QED
  BY FS_Interval

\* What is kept of different elements are as many.
LEMMA KeptOnce ==
    ASSUME NEW T, NEW s \in Seq(T), Once(s), NEW S
    PROVE  /\ Elems(Kept(s, S)) = Elems(s) \intersect S
           /\ IsFiniteSet(Elems(s) \intersect S)
           /\ Len(Kept(s, S)) = Cardinality(Elems(s) \intersect S)
<1> DEFINE E == Elems(s) \intersect S
<1>1. PICK t : t = Kept(s, S)
  OBVIOUS
<1>2. t \in Seq(T) /\ \E p : Keeps(t, s, S, p)
  BY <1>1, KeptIsInOrder
<1>3. PICK p : Keeps(t, s, S, p)
  BY <1>2
<1>4. /\ Len(t) \in Nat /\ DOMAIN t = 1..Len(t) /\ Len(s) \in Nat /\ DOMAIN s = 1..Len(s)
      /\ p \in [1..Len(t) -> 1..Len(s)]
  BY <1>2, <1>3 DEF Keeps
<1>5. Elems(t) = E
  <2>1. \A e : e \in Elems(t) <=> \E i \in 1..Len(t) : t[i] = e
    BY <1>4 DEF Elems
  <2>2. \A e : e \in Elems(s) <=> \E i \in 1..Len(s) : s[i] = e
    BY <1>4 DEF Elems
  <2>3. \A i \in 1..Len(t) : p[i] \in 1..Len(s) /\ t[i] = s[p[i]] /\ s[p[i]] \in S
    BY <1>3, <1>4 DEF Keeps
  <2>4. \A k \in 1..Len(s) : s[k] \in S => \E i \in 1..Len(t) : t[i] = s[k]
    BY <1>3 DEF Keeps
  <2> QED
    BY <2>1, <2>2, <2>3, <2>4
<1>6. \A i, j \in 1..Len(t) : t[i] = t[j] => i = j
  <2> SUFFICES ASSUME NEW i \in 1..Len(t), NEW j \in 1..Len(t), i # j PROVE t[i] # t[j]
    OBVIOUS
  <2>1. i \in Int /\ j \in Int /\ p[i] \in 1..Len(s) /\ p[j] \in 1..Len(s) /\ p[i] \in Int /\ p[j] \in Int
    BY <1>4
  <2>2. p[i] < p[j] \/ p[j] < p[i]
    BY <1>3, <2>1 DEF Keeps
  <2>3. s[p[i]] # s[p[j]]
    BY <1>4, <2>1, <2>2 DEF Once
  <2> QED
    BY <1>3, <2>3 DEF Keeps
<1>7. t \in [1..Len(t) -> E] /\ \A e \in E : \E i \in 1..Len(t) : t[i] = e
  <2>1. \A e : e \in Elems(t) <=> \E i \in 1..Len(t) : t[i] = e
    BY <1>4 DEF Elems
  <2>2. \A i \in 1..Len(t) : t[i] \in E
    BY <1>5, <2>1
  <2>3. t \in [1..Len(t) -> T]
    BY <1>2
  <2> HIDE DEF E
  <2>4. t \in [1..Len(t) -> E]
    BY <2>2, <2>3
  <2> QED
    BY <1>5, <2>1, <2>4
<1>8. t \in Surjection(1..Len(t), E) /\ t \in Injection(1..Len(t), E)
  <2> HIDE DEF E
  <2>1. IsInjective(t)
    BY <1>4, <1>6 DEF IsInjective
  <2> QED
    BY <1>7, <2>1 DEF Surjection, Injection
<1>9. IsFiniteSet(1..Len(t)) /\ Cardinality(1..Len(t)) = Len(t)
  BY <1>4, Numbered
<1>10. IsFiniteSet(E) /\ Cardinality(E) = Len(t)
  BY <1>8, <1>9, FS_Surjection
<1> QED
  BY <1>1, <1>5, <1>10

\* The candidates by their rows are no more than the candidates.
LEMMA OrderIsOfCandidates ==
    ASSUME NEW T, NEW rs \in Seq(T), Once(rs), NEW c \in Seq(T), Once(c)
    PROVE  CandidateOrder(rs, c) \in Seq(T) /\ Len(CandidateOrder(rs, c)) = Len(c)
<1> DEFINE C == Elems(c)
<1>1. Len(c) \in Nat
  OBVIOUS
<1>2. PICK pg : pg = Page(rs, 0, Len(c))
  OBVIOUS
<1>3. pg \in Seq(T) /\ Once(pg)
  BY <1>1, <1>2, PageOfSeq DEF IsCut
<1>4. PICK u : u = Kept(pg, C)
  OBVIOUS
<1>5. u \in Seq(T) /\ Elems(u) = Elems(pg) \intersect C /\ Len(u) = Cardinality(Elems(u))
  <2>1. u \in Seq(T)
    BY <1>3, <1>4, KeptIsInOrder
  <2>2. Elems(u) = Elems(pg) \intersect C /\ Len(u) = Cardinality(Elems(pg) \intersect C)
    BY <1>3, <1>4, KeptOnce
  <2> QED
    BY <2>1, <2>2
<1>6. PICK v : v = Kept(c, C \ Elems(u))
  OBVIOUS
<1>7. v \in Seq(T) /\ Len(v) = Cardinality(C \intersect (C \ Elems(u)))
  BY <1>6, KeptIsInOrder, KeptOnce
<1>8. C \intersect C = C /\ C \intersect (C \ Elems(u)) = C \ Elems(u)
  OBVIOUS
<1>9. IsFiniteSet(C) /\ Cardinality(C) = Len(Kept(c, C))
  BY <1>8, KeptOnce
<1>10. Kept(c, C) \in Seq(T) /\ Len(Kept(c, C)) = Cardinality({i \in 1..Len(c) : c[i] \in C})
  BY KeptIsInOrder
<1>11. {i \in 1..Len(c) : c[i] \in C} = 1..Len(c)
  BY DEF Elems
<1>i. IsFiniteSet(1..Len(c)) /\ Cardinality(1..Len(c)) = Len(c)
  BY <1>1, Numbered
<1>12. Cardinality(C) = Len(c)
  BY <1>9, <1>10, <1>11, <1>i
<1>13. Cardinality(C \ Elems(u)) = Cardinality(C) - Cardinality(C \intersect Elems(u))
  BY <1>9, FS_Difference
<1>14. C \intersect Elems(u) = Elems(u)
  BY <1>5
<1>15. CandidateOrder(rs, c) = u \o v
  BY <1>2, <1>4, <1>6 DEF CandidateOrder
<1>16. u \o v \in Seq(T) /\ Len(u \o v) = Len(u) + Len(v)
  BY <1>5, <1>7, ConcatProperties
<1>17. Len(u) \in Nat /\ Len(v) \in Nat
  BY <1>5, <1>7
<1>18. Len(v) = Len(c) - Len(u)
  BY <1>5, <1>7, <1>8, <1>12, <1>13, <1>14
<1>19. Len(u) + Len(v) = Len(c)
  BY <1>1, <1>17, <1>18
<1> QED
  BY <1>15, <1>16, <1>19

\* Where the store has all that are referred to, an unweighted page is by their counts.
LEMMA PageIsByCount ==
    ASSUME stored \in SUBSET Events, mode \in Modes,
           NEW r \in Requests, ~IsWeighted(r), r.boosted = {}, r.target.offset = 0,
           DOMAIN RowCounts(r) \subseteq Matching([r.target EXCEPT !.limit = 0]),
           NEW s \in DirectPages(r), NEW i \in DOMAIN s, NEW j \in DOMAIN s, i < j
    PROVE  RowCounts(r)[s[i]] >= RowCounts(r)[s[j]]
<1> DEFINE f == RowCounts(r)
           n == Limited(r.refs, GroupMax, GroupDefault)
           q(A) == [r.target EXCEPT !.ids = A, !.limit = Cardinality(A)]
<1>1. /\ r \in Rankings /\ r.limit \in 1..RankedMax /\ r.offset \in Nat
      /\ r.refs = IF r.limit + r.offset > GroupMax THEN r.limit ELSE r.limit + r.offset
  BY RequestsAreParsed
<1>2. n = r.refs /\ n \in Nat
  <2>1. r.refs \in Nat /\ r.refs # 0 /\ r.refs <= GroupMax
    BY <1>1, RankedAssumption
  <2> QED
    BY <2>1, RankedAssumption DEF Limited
<1>3. PICK rs \in RowOrders(r) :
          s = LET ids == IF r.target.ids = {} THEN Elems(rs) ELSE Elems(rs) \intersect r.target.ids
                  candidates == TargetEvents(r, ids)
              IN  Page(CandidateOrder(rs, candidates), r.offset, r.limit)
  BY DEF DirectPages
<1>4. /\ Elems(rs) \in RowSets(r) /\ Elems(rs) \in SUBSET Events
      /\ rs \in Seq(Elems(rs)) /\ Len(rs) = Cardinality(Elems(rs))
      /\ \A a, b \in DOMAIN rs : a < b => f[rs[a]] >= f[rs[b]]
      /\ Once(rs)
  BY OrdersAreOfRows DEF Once
<1>5. PICK A : A = Elems(rs)
  OBVIOUS
<1>6. A \subseteq DOMAIN f /\ Cardinality(A) = Least(n, Cardinality(DOMAIN f))
  BY <1>4, <1>5 DEF RowSets, TopGroups
<1>7. A \in SUBSET Events /\ Cardinality(A) \in Nat /\ Cardinality(A) <= n
  <2>1. IsFiniteSet(A) /\ IsFiniteSet(DOMAIN f)
    BY <1>4, <1>5, CountsAreNumbers, FS_Subset, EventsAssumption
  <2>2. Cardinality(A) \in Nat /\ Cardinality(DOMAIN f) \in Nat
    BY <2>1, FS_CardinalityType
  <2> QED
    BY <1>2, <1>4, <1>5, <1>6, <2>2 DEF Least
<1> HIDE DEF f, n
<1>8. r.target \in Filters
  BY <1>1 DEF Rankings
<1>9. A \subseteq Matching([r.target EXCEPT !.limit = 0])
  BY <1>6 DEF f
<1>10. /\ (r.target.ids # {} => A \subseteq r.target.ids)
       /\ A # {} => Matching(q(A)) = A
  <2> DEFINE p == [r.target EXCEPT !.limit = 0]
  <2>1. /\ p.ids = r.target.ids /\ q(A).ids = A
        /\ p.authors = q(A).authors /\ p.notIds = q(A).notIds /\ p.notAuthors = q(A).notAuthors
        /\ p.kinds = q(A).kinds /\ p.tags = q(A).tags /\ p.texts = q(A).texts /\ p.followers = q(A).followers
        /\ p.since = q(A).since /\ p.until = q(A).until
    BY <1>8 DEF Filters
  <2>2. \A e \in A : e \in stored /\ Matches(e, p) /\ InWindow(e, p)
    BY <1>9 DEF Matching
  <2> HIDE DEF p, q
  <2>3. r.target.ids # {} => A \subseteq r.target.ids
    BY <2>1, <2>2 DEF Matches
  <2>4. ASSUME NEW e \in A PROVE e \in Matching(q(A))
    BY <2>1, <2>2, <2>4 DEF Matching, Matches, InWindow
  <2>5. ASSUME NEW e \in Matching(q(A)), A # {} PROVE e \in A
    BY <2>1, <2>5 DEF Matching, Matches
  <2> QED
    BY <2>3, <2>4, <2>5
<1> HIDE DEF q
<1>11. PICK c : c = TargetEvents(r, A)
  OBVIOUS
<1>12. PICK o : o = CandidateOrder(rs, c)
  OBVIOUS
<1>13. s = Page(o, r.offset, r.limit)
  <2>1. (IF r.target.ids = {} THEN Elems(rs) ELSE Elems(rs) \intersect r.target.ids) = A
    BY <1>5, <1>10
  <2> QED
    BY <1>3, <1>11, <1>12, <2>1
<1>14. Once(Newest(A)) /\ Newest(A) \in Seq(Events) /\ Len(Newest(A)) = Cardinality(A) /\ Elems(Newest(A)) = A
  <2>1. /\ Newest(A) \in Seq(A) /\ Len(Newest(A)) = Cardinality(A)
        /\ \A e \in A : Place(A, e) \in 0..(Cardinality(A) - 1) /\ Newest(A)[Place(A, e) + 1] = e
        /\ \A k \in 1..Cardinality(A) : Newest(A)[k] \in A /\ Place(A, Newest(A)[k]) = k - 1
    BY <1>7, NewestIsSorted
  <2>2. PICK w : w = Newest(A)
    OBVIOUS
  <2>3. DOMAIN w = 1..Cardinality(A) /\ w \in Seq(Events)
    BY <1>7, <2>1, <2>2
  <2>4. Once(w)
    <3> SUFFICES ASSUME NEW k \in DOMAIN w, NEW l \in DOMAIN w, w[k] = w[l] PROVE k = l
      BY DEF Once
    <3>1. k - 1 = l - 1 /\ k \in Int /\ l \in Int
      BY <1>7, <2>1, <2>2, <2>3
    <3> QED
      BY <3>1
  <2>5. \A e \in A : Place(A, e) + 1 \in DOMAIN w
    BY <1>7, <2>1, <2>3
  <2>6. Elems(w) = A
    BY <2>1, <2>2, <2>3, <2>5 DEF Elems
  <2> QED
    BY <2>1, <2>2, <2>3, <2>4, <2>6
<1>15. A # {} => c = Page(Newest(A), 0, Limited(Cardinality(A), MaxLimit, DefaultLimit))
  <2>1. q(A).offset = 0 /\ q(A).limit = Cardinality(A)
    BY <1>8 DEF Filters, q
  <2> QED
    BY <1>10, <1>11, <2>1 DEF TargetEvents, QueryEvents, q
<1>16. rs \in Seq(Events) /\ Len(rs) \in Nat
  BY <1>4
<1>17. ASSUME c \in Seq(Events), Once(c), Len(c) <= r.offset PROVE FALSE
  <2>1. o \in Seq(Events) /\ Len(o) = Len(c)
    BY <1>4, <1>12, <1>16, <1>17, OrderIsOfCandidates
  <2>2. s \in Seq(Events) /\ Len(s) = 0
    BY <1>1, <1>13, <1>17, <2>1, PageOfSeq DEF IsCut
  <2>3. DOMAIN s = {}
    BY <2>2
  <2> QED
    BY <2>3
<1>18. CASE A = {}
  <2>1. c = <<>>
    BY <1>11, <1>18 DEF TargetEvents
  <2>2. c \in Seq(Events) /\ Once(c) /\ Len(c) = 0
    BY <2>1 DEF Once
  <2> QED
    BY <1>1, <1>17, <2>2
<1>z. 0 \in Nat
  OBVIOUS
<1>b. DefaultLimit \in Nat \ {0} /\ MaxLimit \in Nat /\ DefaultLimit <= MaxLimit
  BY EventsAssumption
<1>19. CASE A # {} /\ Cardinality(A) > MaxLimit
  <2>1. c = Page(Newest(A), 0, DefaultLimit)
    <3>1. Limited(Cardinality(A), MaxLimit, DefaultLimit) = DefaultLimit
      BY <1>19 DEF Limited
    <3> QED
      BY <1>15, <1>19, <3>1
  <2>2. IsCut(Newest(A), 0, DefaultLimit, Events)
    BY <1>14, <1>b, <1>z, PageOfSeq
  <2>3. c \in Seq(Events) /\ Once(c) /\ Len(c) <= DefaultLimit
    BY <1>14, <2>1, <2>2 DEF IsCut
  <2>4. DefaultLimit <= r.offset
    <3>1. RankedMax \in Nat /\ RankedMax + DefaultLimit <= MaxLimit + 1
      BY RankedAssumption
    <3>2. r.refs \in Nat /\ MaxLimit < r.refs
      BY <1>2, <1>7, <1>19, <1>b
    <3>3. r.refs = r.limit + r.offset
      BY <1>1, <1>b, <3>1, <3>2
    <3> QED
      BY <1>1, <1>b, <3>1, <3>2, <3>3
  <2>5. Len(c) <= r.offset
    <3>1. Len(c) \in Nat
      BY <2>3
    <3> QED
      BY <1>1, <1>b, <2>3, <2>4, <3>1
  <2> QED
    BY <1>17, <2>3, <2>5
<1>20. CASE A # {} /\ Cardinality(A) <= MaxLimit
  <2>1. Cardinality(A) # 0
    <3>1. IsFiniteSet(A)
      BY <1>7, FS_Subset, EventsAssumption
    <3> QED
      BY <1>20, <3>1, FS_EmptySet
  <2>2. c = Newest(A)
    <3>1. Limited(Cardinality(A), MaxLimit, DefaultLimit) = Cardinality(A)
      BY <1>7, <1>20, <1>b, <2>1 DEF Limited
    <3>2. IsCut(Newest(A), 0, Cardinality(A), Events)
      BY <1>7, <1>14, <1>z, PageOfSeq
    <3>3. Len(Newest(A)) <= Cardinality(A)
      BY <1>7, <1>14
    <3> QED
      BY <1>15, <1>20, <3>1, <3>2, <3>3 DEF IsCut
  <2>3. Page(rs, 0, Len(c)) = rs
    <3>1. Len(rs) <= Len(c) /\ Len(c) \in Nat
      BY <1>4, <1>5, <1>14, <1>16, <2>2
    <3>2. IsCut(rs, 0, Len(c), Events)
      BY <1>16, <1>z, <3>1, PageOfSeq
    <3> QED
      BY <3>1, <3>2 DEF IsCut
  <2>4. PICK u : u = Kept(rs, A)
    OBVIOUS
  <2>5. u \in Seq(Events) /\ \E p : Keeps(u, rs, A, p)
    BY <1>16, <2>4, KeptIsInOrder
  <2>6. Elems(u) = A
    <3>1. Elems(u) = Elems(rs) \intersect A
      BY <1>4, <1>16, <2>4, KeptOnce
    <3> QED
      BY <1>5, <3>1
  <2>7. PICK v : v = Kept(c, {})
    OBVIOUS
  <2>8. v \in Seq(Events) /\ Len(v) = 0
    <3>1. Len(v) = Cardinality(Elems(c) \intersect {}) /\ v \in Seq(Events)
      BY <1>14, <2>2, <2>7, KeptOnce, KeptIsInOrder
    <3> QED
      BY <3>1, FS_EmptySet
  <2>9. o = u \o v
    <3>1. Elems(c) = A /\ A \ A = {}
      BY <1>14, <2>2
    <3> QED
      BY <1>12, <2>3, <2>4, <2>6, <2>7, <3>1 DEF CandidateOrder
  <2>10. o \in Seq(Events) /\ Len(o) = Len(u) /\ \A k \in 1..Len(o) : o[k] = u[k]
    <3>1. /\ u \o v \in Seq(Events) /\ Len(u \o v) = Len(u) + Len(v)
          /\ \A k \in 1..Len(u) + Len(v) : (u \o v)[k] = IF k <= Len(u) THEN u[k] ELSE v[k - Len(u)]
      BY <2>5, <2>8, ConcatProperties
    <3>2. Len(u) \in Nat /\ Len(u) + Len(v) = Len(u)
      BY <2>5, <2>8
    <3> QED
      BY <2>9, <3>1, <3>2
  <2>11. /\ s \in Seq(Events) /\ Len(s) \in Nat
         /\ \A k \in 1..Len(s) : r.offset + k \in 1..Len(o) /\ s[k] = o[r.offset + k]
    <3>1. IsCut(o, r.offset, r.limit, Events)
      BY <1>1, <2>10, PageOfSeq
    <3>2. s \in Seq(Events)
      BY <1>13, <3>1 DEF IsCut
    <3> QED
      BY <1>13, <3>1, <3>2 DEF IsCut
  <2>12. i \in 1..Len(s) /\ j \in 1..Len(s) /\ i \in Int /\ j \in Int
    BY <2>11
  <2>13. PICK p : Keeps(u, rs, A, p)
    BY <2>5
  <2>14. PICK x, y : x = r.offset + i /\ y = r.offset + j
    OBVIOUS
  <2>15. x \in 1..Len(u) /\ y \in 1..Len(u) /\ x < y /\ s[i] = u[x] /\ s[j] = u[y]
    <3>1. x \in 1..Len(o) /\ s[i] = o[x]
      BY <2>11, <2>12, <2>14
    <3>2. y \in 1..Len(o) /\ s[j] = o[y]
      BY <2>11, <2>12, <2>14
    <3>3. x < y
      BY <1>1, <2>12, <2>14
    <3> QED
      BY <2>10, <3>1, <3>2, <3>3
  <2>16. p[x] \in DOMAIN rs /\ p[y] \in DOMAIN rs /\ p[x] < p[y] /\ u[x] = rs[p[x]] /\ u[y] = rs[p[y]]
    BY <1>16, <2>13, <2>15 DEF Keeps
  <2>17. f[s[i]] >= f[s[j]]
    BY <1>4, <2>15, <2>16
  <2> QED
    BY <2>17 DEF f
<1> QED
  BY <1>7, <1>18, <1>19, <1>20, EventsAssumption

\* A page without weights is by the counts of its rows, however deep (rankedCandidateIDs).
THEOREM ReadsRankIsByCount == Spec => []RankIsByCount
<1>1. ASSUME TableTypes PROVE RankIsByCount
  <2>1. stored \in SUBSET Events /\ mode \in Modes
    BY <1>1, StoredAreEvents DEF TableTypes
  <2> QED
    BY <2>1, PageIsByCount DEF RankIsByCount
<1> QED
  BY <1>1, ReadTables, PTL

\* Ranked feeds have one ranking: the same by either transport and from any pool that a
\* request may be answered from, and by the counts when there is nothing else
\* (rankedEventViews, basePoolCache).
THEOREM ReadsRankingIsOne == Spec => []RankingIsOne
<1>1. TransportsAgree /\ RankIsByCount /\ PoolsAreShared /\ PoolsAreBounded => RankingIsOne
  BY DEF RankingIsOne
<1> QED
  BY <1>1, ReadsTransportsAgree, ReadsRankIsByCount, ReadsPoolsAreShared, ReadsPoolsAreBounded, PTL

-----------------------------------------------------------------------------
(* Pages of the newest *)

\* What a page of the newest leaves out is older than all of it, and then the page is
\* full: among any events that the page is of, n come before.
LEMMA LeftOutIsOlder ==
    ASSUME NEW S \in SUBSET Events, NEW n \in Nat,
           NEW e \in S, e \notin Elems(Page(Newest(S), 0, n))
    PROVE  /\ Len(Page(Newest(S), 0, n)) = n
           /\ \A f \in Elems(Page(Newest(S), 0, n)) : Newer(f, e) /\ At[e] <= At[f]
           /\ \A A \in SUBSET Events : Elems(Page(Newest(S), 0, n)) \subseteq A => Place(A, e) >= n
<1>1. PICK s : s = Page(Newest(S), 0, n)
  OBVIOUS
<1>c. Cardinality(S) \in Nat /\ IsFiniteSet(S)
  BY NewestIsSorted
<1>2. \A f \in S : Place(S, f) \in 0..(Cardinality(S) - 1)
  BY NewestIsSorted
<1>3. Elems(s) = {f \in S : Place(S, f) < n}
  BY <1>1, FirstOfNewest
<1>4. Place(S, e) \in Nat /\ Place(S, e) >= n /\ Cardinality(S) > n
  <2>1. ~(Place(S, e) < n) /\ Place(S, e) \in 0..(Cardinality(S) - 1)
    BY <1>1, <1>2, <1>3
  <2> QED
    BY <1>c, <2>1
<1>z. 0 \in Nat
  OBVIOUS
<1>5. /\ s \in Seq(S) /\ Len(s) \in Nat
      /\ Cardinality(S) > 0 + n => Len(s) = n
      /\ \A i \in 1..Len(s) : s[i] \in S /\ Place(S, s[i]) = 0 + i - 1
  BY <1>1, <1>z, PageOfNewest
<1>6. Len(s) = n /\ DOMAIN s = 1..n
  BY <1>4, <1>5
<1>7. ASSUME NEW f \in Elems(s) PROVE Newer(f, e) /\ At[e] <= At[f]
  <2>1. f \in S /\ Place(S, f) < n /\ Place(S, f) \in Int
    BY <1>2, <1>3
  <2>2. Place(S, f) < Place(S, e)
    BY <1>4, <2>1
  <2>3. Newer(f, e)
    BY <2>1, <2>2, NewestIsSorted
  <2>4. At[e] \in Nat /\ At[f] \in Nat
    BY <2>1, EventsAssumption
  <2> QED
    BY <2>3, <2>4 DEF Newer
<1>8. ASSUME NEW A \in SUBSET Events, Elems(s) \subseteq A
      PROVE  Place(A, e) >= n
  <2> DEFINE B == {f \in A : Newer(f, e)}
  <2>1. IsFiniteSet(B) /\ Cardinality(B) \in Nat
    <3>1. B \in SUBSET Events
      OBVIOUS
    <3> QED
      BY <3>1, FS_Subset, FS_CardinalityType, EventsAssumption
  <2>2. \A i \in 1..n : s[i] \in B
    BY <1>6, <1>7, <1>8 DEF Elems
  <2>b. B = {f \in A : Newer(f, e)}
    OBVIOUS
  <2> HIDE DEF B
  <2>3. \A i, j \in 1..n : s[i] = s[j] => i = j
    <3> SUFFICES ASSUME NEW i \in 1..n, NEW j \in 1..n, s[i] = s[j] PROVE i = j
      OBVIOUS
    <3>1. Place(S, s[i]) = 0 + i - 1 /\ Place(S, s[j]) = 0 + j - 1
      BY <1>5, <1>6
    <3> QED
      BY <3>1
  <2>4. s \in [1..n -> B]
    BY <1>5, <1>6, <2>2
  <2>5. s \in Injection(1..n, B)
    BY <2>3, <2>4, <1>6 DEF Injection, IsInjective
  <2>6. Cardinality(1..n) <= Cardinality(B) /\ Cardinality(1..n) = n
    BY <2>1, <2>5, FS_Injection, Numbered
  <2> QED
    BY <2>b, <2>6 DEF Place
<1> QED
  BY <1>1, <1>6, <1>7, <1>8

\* A first page s of the events of S.
IsTop(s, S, n) ==
    /\ s \in Seq(S) /\ Len(s) = Least(Cardinality(S), n)
    /\ \A i \in 1..Len(s) : s[i] \in S /\ Place(S, s[i]) = i - 1

\* The first page of the newest has the newest, each at its place.
LEMMA FirstPageIsTop ==
    ASSUME NEW S \in SUBSET Events, NEW n \in Nat
    PROVE  IsTop(Page(Newest(S), 0, n), S, n)
<1>c. Cardinality(S) \in Nat
  BY NewestIsSorted
<1>z. PICK k \in Nat : k = 0
  OBVIOUS
<1>0. /\ Page(Newest(S), k, n) \in Seq(S) /\ Len(Page(Newest(S), k, n)) \in Nat
      /\ \A i \in 1..Len(Page(Newest(S), k, n)) :
             /\ Page(Newest(S), k, n)[i] \in S
             /\ Place(S, Page(Newest(S), k, n)[i]) = k + i - 1
  BY PageOfNewest
<1>5. Cardinality(S) <= k => Len(Page(Newest(S), k, n)) = 0
  BY PageOfNewest
<1>6. Cardinality(S) > k /\ Cardinality(S) <= k + n => Len(Page(Newest(S), k, n)) = Cardinality(S) - k
  BY PageOfNewest
<1>7. Cardinality(S) > k + n => Len(Page(Newest(S), k, n)) = n
  BY PageOfNewest
<1>1. PICK s : s = Page(Newest(S), k, n)
  OBVIOUS
<1>2. /\ s \in Seq(S) /\ Len(s) \in Nat
      /\ Cardinality(S) <= 0 => Len(s) = 0
      /\ Cardinality(S) > 0 /\ Cardinality(S) <= 0 + n => Len(s) = Cardinality(S) - 0
      /\ Cardinality(S) > 0 + n => Len(s) = n
      /\ \A i \in 1..Len(s) : s[i] \in S /\ Place(S, s[i]) = 0 + i - 1
  BY <1>z, <1>0, <1>1, <1>5, <1>6, <1>7
<1>3. Len(s) = Least(Cardinality(S), n)
  BY <1>c, <1>2 DEF Least
<1>4. \A i \in 1..Len(s) : s[i] \in S /\ Place(S, s[i]) = i - 1
  BY <1>2
<1> QED
  BY <1>z, <1>1, <1>2, <1>3, <1>4 DEF IsTop

\* A page of A is the page of M, if what M has besides is behind n of A.
LEMMA PageOfPart ==
    ASSUME NEW M \in SUBSET Events, NEW A \in SUBSET M, NEW n \in Nat,
           \A e \in M \ A : Place(A, e) >= n
    PROVE  Page(Newest(A), 0, n) = Page(Newest(M), 0, n)
<1>1. PICK s, t : s = Page(Newest(A), 0, n) /\ t = Page(Newest(M), 0, n)
  OBVIOUS
<1>z. 0 \in Nat /\ A \in SUBSET Events
  OBVIOUS
<1>2. /\ \A e : Place(A, e) \in Nat /\ Place(M, e) \in Nat /\ Place(A, e) <= Place(M, e)
  BY PlaceGrows
<1>3. ASSUME NEW e \in A, Place(A, e) < n PROVE Place(M, e) = Place(A, e)
  <2>1. \A f \in M : Newer(f, e) => f \in A
    <3> SUFFICES ASSUME NEW f \in M \ A, Newer(f, e) PROVE FALSE
      OBVIOUS
    <3> DEFINE X == {g \in A : Newer(g, f)}
               Y == {g \in A : Newer(g, e)}
    <3>1. X \in SUBSET Y /\ Y \in SUBSET Events
      <4> SUFFICES ASSUME NEW g \in A, Newer(g, f) PROVE Newer(g, e)
        OBVIOUS
      <4>1. g \in Nat /\ f \in Nat /\ e \in Nat /\ At[g] \in Nat /\ At[f] \in Nat /\ At[e] \in Nat
        BY EventsAssumption
      <4> QED
        BY <4>1 DEF Newer
    <3>2. Place(A, f) = Cardinality(X) /\ Place(A, e) = Cardinality(Y)
      BY DEF Place
    <3> HIDE DEF X, Y
    <3>3. Cardinality(X) <= Cardinality(Y)
      BY <3>1, FS_Subset, EventsAssumption
    <3>4. Place(A, f) >= n /\ Place(A, f) \in Nat /\ Place(A, e) \in Nat
      BY <1>2
    <3> QED
      BY <1>3, <3>2, <3>3, <3>4
  <2>2. {f \in A : Newer(f, e)} = {f \in M : Newer(f, e)}
    BY <2>1
  <2> QED
    BY <2>2 DEF Place
<1>4. /\ IsFiniteSet(A) /\ Cardinality(A) \in Nat /\ IsFiniteSet(M) /\ Cardinality(M) \in Nat
      /\ \A e \in A : Place(A, e) \in 0..(Cardinality(A) - 1) /\ Newest(A)[Place(A, e) + 1] = e
      /\ \A e \in M : Place(M, e) \in 0..(Cardinality(M) - 1)
  BY <1>z, NewestIsSorted
<1>5. CASE A = M
  BY <1>5
<1>6. CASE A # M
  <2>1. PICK x \in M \ A : TRUE
    BY <1>6
  <2>2. Place(M, x) >= n /\ Cardinality(M) > n
    <3>1. Place(A, x) >= n /\ Place(A, x) \in Nat /\ Place(M, x) \in Nat /\ Place(A, x) <= Place(M, x)
      BY <1>2, <2>1
    <3>2. Place(M, x) \in 0..(Cardinality(M) - 1)
      BY <1>4, <2>1
    <3> QED
      BY <1>4, <3>1, <3>2
  <2>3. Cardinality(A) >= n
    <3> DEFINE X == {g \in A : Newer(g, x)}
    <3>1. Cardinality(X) <= Cardinality(A) /\ Cardinality(X) \in Nat
      BY <1>4, FS_Subset, FS_CardinalityType
    <3>2. Cardinality(X) >= n
      BY <2>1 DEF Place
    <3> HIDE DEF X
    <3> QED
      BY <1>4, <3>1, <3>2
  <2>4. IsTop(t, M, n) /\ IsTop(s, A, n)
    BY <1>1, <1>z, FirstPageIsTop
  <2>5. Len(t) = n /\ Len(s) = n /\ t \in Seq(M) /\ s \in Seq(A)
    BY <1>4, <2>2, <2>3, <2>4 DEF IsTop, Least
  <2>6. ASSUME NEW i \in 1..n PROVE s[i] = t[i]
    <3>1. t[i] \in M /\ Place(M, t[i]) = i - 1 /\ s[i] \in A /\ Place(A, s[i]) = i - 1
      BY <2>4, <2>5 DEF IsTop
    <3>2. t[i] \in A
      <4> SUFFICES ASSUME t[i] \notin A PROVE FALSE
        OBVIOUS
      <4>1. Place(A, t[i]) >= n
        BY <3>1
      <4>2. Place(A, t[i]) <= Place(M, t[i]) /\ Place(A, t[i]) \in Nat
        BY <1>2
      <4> QED
        BY <3>1, <4>1, <4>2
    <3>3. Place(A, t[i]) < n
      <4>1. Place(A, t[i]) <= Place(M, t[i]) /\ Place(A, t[i]) \in Nat
        BY <1>2
      <4> QED
        BY <3>1, <4>1
    <3>4. Place(A, t[i]) = i - 1
      BY <1>3, <3>1, <3>2, <3>3
    <3>5. Newest(A)[i - 1 + 1] = s[i] /\ Newest(A)[i - 1 + 1] = t[i]
      BY <1>4, <3>1, <3>2, <3>4
    <3> QED
      BY <3>5
  <2>7. s = t
    BY <2>5, <2>6
  <2> QED
    BY <1>1, <2>7
<1> QED
  BY <1>5, <1>6

\* The first page of three sets together is that of their first pages.
LEMMA MergedPages ==
    ASSUME NEW X \in SUBSET Events, NEW Y \in SUBSET Events, NEW Z \in SUBSET Events, NEW n \in Nat
    PROVE  Page(Newest(Elems(Page(Newest(X), 0, n)) \union Elems(Page(Newest(Y), 0, n))
                          \union Elems(Page(Newest(Z), 0, n))), 0, n) =
               Page(Newest(X \union Y \union Z), 0, n)
<1>1. PICK F : F = [S \in {X, Y, Z} |-> Elems(Page(Newest(S), 0, n))]
  OBVIOUS
<1>2. \A S \in {X, Y, Z} : F[S] = Elems(Page(Newest(S), 0, n)) /\ F[S] \in SUBSET S
  <2>1. \A S \in {X, Y, Z} : F[S] = Elems(Page(Newest(S), 0, n))
    BY <1>1
  <2>2. \A S \in SUBSET Events : Elems(Page(Newest(S), 0, n)) \in SUBSET S
    BY FirstOfNewest
  <2> QED
    BY <2>1, <2>2
<1> DEFINE A == F[X] \union F[Y] \union F[Z]
           M == X \union Y \union Z
<1>3. M \in SUBSET Events /\ A \in SUBSET M /\ A \in SUBSET Events
  BY <1>2
<1>4. \A S \in {X, Y, Z} : F[S] \subseteq A /\ S \in SUBSET Events
  OBVIOUS
<1>m. \A e \in M : \E S \in {X, Y, Z} : e \in S
  OBVIOUS
<1>a. A = F[X] \union F[Y] \union F[Z]
  OBVIOUS
<1> HIDE DEF A
<1>5. ASSUME NEW e \in M \ A PROVE Place(A, e) >= n
  <2>1. PICK S \in {X, Y, Z} : e \in S
    BY <1>m
  <2>2. e \notin F[S] /\ S \in SUBSET Events /\ F[S] \subseteq A /\ F[S] = Elems(Page(Newest(S), 0, n))
    BY <1>2, <1>4, <2>1
  <2> QED
    BY <1>3, <2>1, <2>2, LeftOutIsOlder
<1>6. Page(Newest(A), 0, n) = Page(Newest(M), 0, n)
  BY <1>3, <1>5, PageOfPart
<1> QED
  BY <1>2, <1>6, <1>a

\* What has no rows has no page.
LEMMA NoPage ==
    ASSUME NEW n \in Nat
    PROVE  Page(Newest({}), 0, n) = <<>>
<1>1. PICK S \in SUBSET Events : S = {}
  OBVIOUS
<1>2. IsTop(Page(Newest(S), 0, n), S, n) /\ Cardinality(S) = 0
  BY <1>1, FirstPageIsTop, FS_EmptySet
<1> QED
  BY <1>1, <1>2 DEF IsTop, Least

\* The oldest time of a page is that of one of its events.
LEMMA OldestIsOfPage ==
    ASSUME NEW s \in Seq(Events), s # <<>>
    PROVE  /\ OldestTime(s) \in Nat \ {0}
           /\ \E e \in Elems(s) : At[e] = OldestTime(s)
           /\ \A e \in Elems(s) : At[e] >= OldestTime(s)
<1>1. Len(s) \in Nat /\ DOMAIN s = 1..Len(s) /\ \A i \in 1..Len(s) : s[i] \in Events
  OBVIOUS
<1>2. Elems(s) \in SUBSET Events /\ 1 \in DOMAIN s /\ s[1] \in Elems(s)
  BY <1>1 DEF Elems
<1>3. \E x \in Elems(s) : \A e \in Elems(s) : At[e] >= At[x]
  <2>1. PICK S : S = Elems(s)
    OBVIOUS
  <2>2. S \in SUBSET Events /\ Cardinality(S) \in Nat /\ Cardinality(S) # 0
    BY <1>2, <2>1, NewestIsSorted, FS_EmptySet
  <2>3. PICK x \in S : Place(S, x) = Cardinality(S) - 1
    <3>1. Cardinality(S) \in 1..Cardinality(S)
      BY <2>2
    <3>2. Newest(S)[Cardinality(S)] \in S /\ Place(S, Newest(S)[Cardinality(S)]) = Cardinality(S) - 1
      BY <2>2, <3>1, NewestIsSorted
    <3> QED
      BY <3>2
  <2>4. ASSUME NEW e \in S PROVE At[e] >= At[x]
    <3>1. Place(S, e) \in 0..(Cardinality(S) - 1) /\ (Newer(x, e) => Place(S, x) < Place(S, e))
      BY <2>2, NewestIsSorted
    <3>2. ~Newer(x, e)
      BY <2>2, <2>3, <3>1
    <3>3. At[e] \in Nat /\ At[x] \in Nat
      BY <2>2, EventsAssumption
    <3> QED
      BY <3>2, <3>3 DEF Newer
  <2> QED
    BY <2>1, <2>4
<1>4. PICK x \in Elems(s) : \A e \in Elems(s) : At[e] >= At[x]
  BY <1>3
<1>5. PICK j \in DOMAIN s : s[j] = x
  BY DEF Elems
<1>6. At[x] \in {At[s[i]] : i \in DOMAIN s} /\ \A i \in DOMAIN s : At[x] <= At[s[i]]
  <2>1. \A i \in DOMAIN s : s[i] \in Elems(s) /\ At[s[i]] \in Nat
    BY <1>1, EventsAssumption DEF Elems
  <2>2. At[x] \in Nat
    BY <1>2, EventsAssumption
  <2> QED
    BY <1>4, <1>5, <2>1, <2>2
<1>7. PICK t : t = OldestTime(s)
  OBVIOUS
<1>8. t \in {At[s[i]] : i \in DOMAIN s} /\ \A i \in DOMAIN s : t <= At[s[i]]
  BY <1>6, <1>7 DEF OldestTime
<1>9. PICK k \in DOMAIN s : t = At[s[k]]
  BY <1>8
<1>10. t \in Nat \ {0}
  BY <1>1, <1>9, EventsAssumption
<1>11. \A e \in Elems(s) : At[e] >= t
  <2> SUFFICES ASSUME NEW i \in DOMAIN s PROVE At[s[i]] >= t
    BY DEF Elems
  <2>1. At[s[i]] \in Nat
    BY <1>1, EventsAssumption
  <2> QED
    BY <1>8, <1>10, <2>1
<1> QED
  BY <1>7, <1>9, <1>10, <1>11 DEF Elems

-----------------------------------------------------------------------------
(* Scrolling *)

\* What of S a page is of that ends before a time.
Before(S, until) == {e \in S : until > 0 => At[e] < until}

\* Who scrolls, and what the limits come to.
LEMMA Scrolls ==
    ASSUME TableTypes
    PROVE  /\ Viewer \in Users /\ Here.other \in Users /\ Here.authors \subseteq Users /\ Here.limit \in Nat
           /\ stored \in SUBSET Events
           /\ Limited(Here.limit, FeedMax, FeedDefault) \in Nat \ {0}
           /\ Limited(Here.limit, MaxLimit, DefaultLimit) \in Nat \ {0}
           /\ DmLimit(Here.limit) \in Nat \ {0}
           /\ Limited(DmLimit(Here.limit), MaxLimit, DefaultLimit) = DmLimit(Here.limit)
<1>1. Viewer \in Users /\ Here.other \in Users /\ Here.authors \subseteq Users /\ Here.limit \in Nat
  BY DeployAssumption DEF TableTypes, Here, Viewer
<1>2. stored \in SUBSET Events
  BY StoredAreEvents
<1> HIDE DEF Here
<1>3. Limited(Here.limit, FeedMax, FeedDefault) \in Nat \ {0}
  BY <1>1, FeedAssumption DEF Limited
<1>4. Limited(Here.limit, MaxLimit, DefaultLimit) \in Nat \ {0}
  BY <1>1, EventsAssumption DEF Limited
<1>5. DmLimit(Here.limit) \in 1..DmMax
  BY <1>1, FeedAssumption DEF DmLimit
<1>6. Limited(DmLimit(Here.limit), MaxLimit, DefaultLimit) = DmLimit(Here.limit)
  <2> DEFINE m == DmLimit(Here.limit)
  <2>1. m \in Nat /\ m # 0 /\ ~(m > MaxLimit)
    BY <1>5, FeedAssumption, EventsAssumption
  <2> HIDE DEF m
  <2>2. Limited(m, MaxLimit, DefaultLimit) = m
    BY <2>1 DEF Limited
  <2> QED
    BY <2>2 DEF m
<1> QED
  BY <1>1, <1>2, <1>3, <1>4, <1>5, <1>6, FeedAssumption

\* A page of a feed is of the newest of its subject.
LEMMA FeedIsNewest ==
    ASSUME TableTypes, NEW until \in Nat
    PROVE  FollowsFeed(Here.authors, until, Here.limit, 0) =
               Page(Newest(Before(Subject("feed"), until)), 0, Limited(Here.limit, FeedMax, FeedDefault))
<1> DEFINE n == Limited(Here.limit, FeedMax, FeedDefault)
<1>1. Before(Subject("feed"), until) =
          {e \in stored : /\ Author[e] \in Here.authors /\ Kind[e] \in FeedKinds
                          /\ until > 0 => At[e] < until}
  BY DEF Before, Subject
<1>2. CASE Here.authors = {}
  <2>1. Before(Subject("feed"), until) = {}
    BY <1>1, <1>2
  <2>2. FollowsFeed(Here.authors, until, Here.limit, 0) = <<>>
    BY <1>2 DEF FollowsFeed
  <2> QED
    BY <2>1, <2>2, NoPage, Scrolls
<1>3. CASE Here.authors # {}
  BY <1>1, <1>3 DEF FollowsFeed
<1> QED
  BY <1>2, <1>3

\* A query that says no more than authors, kinds, tags, what it excludes and until when.
SaysOnly(q, A, K, T, X, until) ==
    /\ q.ids = {} /\ q.authors = A /\ q.notIds = X /\ q.notAuthors = {} /\ q.kinds = K /\ q.tags = T
    /\ q.texts = Events /\ q.followers = -1 /\ q.since = 0 /\ q.until = until

\* What such a query matches.
Plainly(A, K, T, X, until) ==
    {e \in stored : /\ A # {} => Author[e] \in A
                    /\ e \notin X
                    /\ K # {} => Kind[e] \in K
                    /\ \A t \in T : HasTag(e, t)
                    /\ until > 0 => At[e] < until}

\* A query that says no more than that is answered with exactly these events.
LEMMA QueryMatches ==
    ASSUME stored \in SUBSET Events, NEW A, NEW K, NEW T, NEW X, NEW until \in Nat,
           NEW q, SaysOnly(q, A, K, T, X, until)
    PROVE  Matching(q) = Plainly(A, K, T, X, until)
<1>2. /\ q.ids = {} /\ q.authors = A /\ q.notIds = X /\ q.notAuthors = {} /\ q.kinds = K /\ q.tags = T
      /\ q.texts = Events /\ q.followers = -1 /\ q.since = 0 /\ q.until = until
  BY DEF SaysOnly
<1>3. ASSUME NEW e \in stored
      PROVE  Matches(e, q) /\ InWindow(e, q) <=>
                 /\ A # {} => Author[e] \in A
                 /\ e \notin X
                 /\ K # {} => Kind[e] \in K
                 /\ \A t \in T : HasTag(e, t)
                 /\ until > 0 => At[e] < until
  <2>1. WellFollowed(Author[e], q.followers)
    BY <1>2 DEF WellFollowed
  <2>2. InWindow(e, q) <=> (until > 0 => At[e] < until)
    BY <1>2 DEF InWindow
  <2>3. e \in Events
    OBVIOUS
  <2>4. Matches(e, q) <=> /\ A # {} => Author[e] \in A
                          /\ e \notin X
                          /\ K # {} => Kind[e] \in K
                          /\ \A t \in T : HasTag(e, t)
    BY <1>2, <2>1, <2>3 DEF Matches
  <2> QED
    BY <2>2, <2>4
<1> QED
  BY <1>3 DEF Matching, Plainly

\* M are the events that a page of own history is cut from, the subject among them.
IsOwn(M, kind, until, cursor) ==
    /\ OwnQuery(Viewer, kind, until, cursor, Here.limit) =
           Page(Newest(M), 0, Limited(Here.limit, MaxLimit, DefaultLimit))
    /\ \A e : e \in Before(Subject(kind), until) <=>
                  e \in M /\ (ETags[e] # <<>>) = (kind = "replies")

\* A page of own history is cut from the newest of what is there, the subject among it.
LEMMA OwnIsNewest ==
    ASSUME TableTypes, NEW kind \in {"authored", "replies"}, NEW until \in Nat,
           NEW cursor, cursor # {} => until > 0 /\ \A f \in cursor : ~(At[f] < until)
    PROVE  \E M \in SUBSET Events : IsOwn(M, kind, until, cursor)
<1>0. stored \in SUBSET Events
  BY StoredAreEvents
<1> DEFINE q == [AnyEvent EXCEPT !.authors = {Viewer}, !.kinds = {1, 1111}, !.until = until,
                                 !.notIds = cursor, !.limit = Here.limit]
<1>1. PICK M : M = Matching(q)
  OBVIOUS
<1>2. SaysOnly(q, {Viewer}, {1, 1111}, {}, cursor, until)
  BY DEF AnyEvent, SaysOnly
<1>q. q.offset = 0 /\ q.limit = Here.limit
  BY DEF AnyEvent
<1>o. OwnKinds[kind] = {1, 1111}
  BY DEF OwnKinds
<1>3. OwnQuery(Viewer, kind, until, cursor, Here.limit) =
          Page(Newest(M), 0, Limited(Here.limit, MaxLimit, DefaultLimit))
  BY <1>1, <1>q, <1>o DEF OwnQuery, QueryEvents
<1> HIDE DEF q
<1>4. M = Plainly({Viewer}, {1, 1111}, {}, cursor, until)
  BY <1>0, <1>1, <1>2, QueryMatches
<1>5. \A e : e \in M <=> /\ e \in stored /\ Author[e] = Viewer /\ Kind[e] \in {1, 1111}
                         /\ until > 0 => At[e] < until
  BY <1>4 DEF Plainly
<1>6. \A e : e \in Before(Subject(kind), until) <=>
                 /\ e \in stored /\ Author[e] = Viewer /\ Kind[e] \in {1, 1111}
                 /\ (ETags[e] # <<>>) = (kind = "replies")
                 /\ until > 0 => At[e] < until
  <2>1. CASE kind = "authored"
    BY <2>1 DEF Before, Subject
  <2>2. CASE kind = "replies"
    BY <2>2 DEF Before, Subject
  <2> QED
    BY <2>1, <2>2
<1>7. M \in SUBSET Events
  BY <1>0, <1>5
<1>8. \A e : e \in Before(Subject(kind), until) <=>
                 e \in M /\ (ETags[e] # <<>>) = (kind = "replies")
  BY <1>5, <1>6
<1>9. IsOwn(M, kind, until, cursor)
  BY <1>3, <1>8 DEF IsOwn
<1> QED
  BY <1>7, <1>9

\* Whom the tags of a query for messages name.
LEMMA NamesOne == \A e, u : (\A t \in To(u) : HasTag(e, t)) <=> u \in Tagged(e, "p")
<1> SUFFICES ASSUME NEW e, NEW u PROVE (\A t \in To(u) : HasTag(e, t)) <=> u \in Tagged(e, "p")
  OBVIOUS
<1>1. PICK t : t = [AnyTag EXCEPT !.key = "p", !.values = {u}]
  OBVIOUS
<1>2. t.key = "p" /\ t.values = {u} /\ t.except = {}
  BY <1>1 DEF AnyTag
<1>3. HasTag(e, t) <=> u \in Tagged(e, "p")
  BY <1>2 DEF HasTag
<1>4. To(u) = {t}
  BY <1>1 DEF To
<1> QED
  BY <1>3, <1>4

\* A query for messages has the newest of what it matches.
LEMMA DmQueryIsTop ==
    ASSUME TableTypes, NEW from, NEW to, NEW kinds, NEW until \in Nat
    PROVE  DmQuery(from, to, kinds, until, Here.limit) =
               Elems(Page(Newest(Plainly(from, kinds, to, {}, until)), 0, DmLimit(Here.limit)))
<1> DEFINE q == [AnyEvent EXCEPT !.authors = from, !.tags = to, !.kinds = kinds,
                                 !.until = until, !.limit = DmLimit(Here.limit)]
<1>1. SaysOnly(q, from, kinds, to, {}, until) /\ q.offset = 0 /\ q.limit = DmLimit(Here.limit)
  BY DEF AnyEvent, SaysOnly
<1>2. DmQuery(from, to, kinds, until, Here.limit) = Elems(QueryEvents(q))
  BY DEF DmQuery
<1> HIDE DEF q
<1>3. Matching(q) = Plainly(from, kinds, to, {}, until)
  BY <1>1, QueryMatches, StoredAreEvents
<1>4. QueryEvents(q) = Page(Newest(Plainly(from, kinds, to, {}, until)), 0, DmLimit(Here.limit))
  BY <1>1, <1>3, Scrolls DEF QueryEvents
<1> QED
  BY <1>2, <1>4

\* The three queries of a conversation.
LEMMA Conversation ==
    ASSUME NEW u, NEW v, v # None, NEW kinds, NEW D, D = kinds \intersect {4}, D # {},
           NEW W, W = kinds \ {4}, W # {}, NEW until, NEW n
    PROVE  DmConversation(u, v, kinds, until, n) =
               MergeEnvelopes(DmQuery({u}, To(v), D, until, n),
                              DmQuery({v}, To(u), D, until, n) \union DmQuery({}, To(u), W, until, n), n)
<1>1. /\ (IF v = None THEN {} ELSE To(v)) = To(v) /\ (IF v = None THEN {} ELSE {v}) = {v}
  OBVIOUS
<1>2. \A x, y : (IF D = {} THEN x ELSE y) = y /\ (IF W = {} THEN x ELSE y) = y
  OBVIOUS
<1>3. DmConversation(u, v, kinds, until, n) =
          MergeEnvelopes(
              IF D = {} THEN {} ELSE DmQuery({u}, IF v = None THEN {} ELSE To(v), D, until, n),
              (IF D = {} THEN {} ELSE DmQuery(IF v = None THEN {} ELSE {v}, To(u), D, until, n))
                  \union (IF W = {} THEN {} ELSE DmQuery({}, To(u), W, until, n)), n)
  BY DEF DmConversation
<1> QED
  BY <1>1, <1>2, <1>3

\* A page of messages, merged from queries that are each cut, is of the newest of its
\* subject (mergeDmEnvelopes).
LEMMA EnvelopesAreNewest ==
    ASSUME TableTypes, NEW kind \in {"inbox", "chat"}, NEW until \in Nat
    PROVE  Envelopes(kind, until) = Page(Newest(Before(Subject(kind), until)), 0, DmLimit(Here.limit))
<1>0. /\ stored \in SUBSET Events /\ DmLimit(Here.limit) \in Nat
      /\ Viewer \in Users /\ Here.other # None
  BY Scrolls, EventsAssumption
<1>n. PICK n \in Nat : n = DmLimit(Here.limit)
  BY <1>0
<1>1. CASE kind = "inbox"
  <2>1. PICK X, Y : /\ X = Plainly({Viewer}, DmKinds, {}, {}, until)
                    /\ Y = Plainly({}, DmKinds, To(Viewer), {}, until)
    OBVIOUS
  <2>2. X \in SUBSET Events /\ Y \in SUBSET Events
    BY <1>0, <2>1 DEF Plainly
  <2>3. /\ DmQuery({Viewer}, {}, DmKinds, until, Here.limit) = Elems(Page(Newest(X), 0, n))
        /\ DmQuery({}, To(Viewer), DmKinds, until, Here.limit) = Elems(Page(Newest(Y), 0, n))
    BY <1>n, <2>1, DmQueryIsTop
  <2>4. Envelopes(kind, until) =
            Page(Newest(Elems(Page(Newest(X), 0, n)) \union Elems(Page(Newest(Y), 0, n))), 0, n)
    BY <1>1, <1>n, <2>3 DEF Envelopes, DmEnvelopes, MergeEnvelopes
  <2>5. Page(Newest(Elems(Page(Newest(X), 0, n)) \union Elems(Page(Newest(Y), 0, n))
                       \union Elems(Page(Newest(Y), 0, n))), 0, n) = Page(Newest(X \union Y \union Y), 0, n)
    BY <2>2, MergedPages
  <2>6. /\ X \union Y \union Y = X \union Y
        /\ Elems(Page(Newest(X), 0, n)) \union Elems(Page(Newest(Y), 0, n)) \union Elems(Page(Newest(Y), 0, n)) =
               Elems(Page(Newest(X), 0, n)) \union Elems(Page(Newest(Y), 0, n))
    OBVIOUS
  <2>7. X \union Y = Before(Subject(kind), until)
    <3>1. DmKinds # {}
      BY DEF DmKinds
    <3>2. \A e : e \in X <=> /\ e \in stored /\ Author[e] = Viewer /\ Kind[e] \in DmKinds
                             /\ until > 0 => At[e] < until
      BY <2>1, <3>1 DEF Plainly
    <3>3. \A e : e \in Y <=> /\ e \in stored /\ Viewer \in Tagged(e, "p") /\ Kind[e] \in DmKinds
                             /\ until > 0 => At[e] < until
      BY <2>1, <3>1, NamesOne DEF Plainly
    <3>4. \A e : e \in Before(Subject(kind), until) <=>
                     /\ e \in stored /\ Kind[e] \in DmKinds /\ (Author[e] = Viewer \/ Viewer \in Tagged(e, "p"))
                     /\ until > 0 => At[e] < until
      BY <1>1 DEF Before, Subject
    <3> QED
      BY <3>2, <3>3, <3>4
  <2> QED
    BY <1>n, <2>4, <2>5, <2>6, <2>7
<1>2. CASE kind = "chat"
  <2>0. DmKinds \intersect {4} = {4} /\ DmKinds \ {4} = {1059}
    BY DEF DmKinds
  <2>1. PICK X, Y, Z : /\ X = Plainly({Viewer}, {4}, To(Here.other), {}, until)
                       /\ Y = Plainly({Here.other}, {4}, To(Viewer), {}, until)
                       /\ Z = Plainly({}, {1059}, To(Viewer), {}, until)
    OBVIOUS
  <2>2. X \in SUBSET Events /\ Y \in SUBSET Events /\ Z \in SUBSET Events
    BY <1>0, <2>1 DEF Plainly
  <2>3. /\ DmQuery({Viewer}, To(Here.other), {4}, until, Here.limit) = Elems(Page(Newest(X), 0, n))
        /\ DmQuery({Here.other}, To(Viewer), {4}, until, Here.limit) = Elems(Page(Newest(Y), 0, n))
        /\ DmQuery({}, To(Viewer), {1059}, until, Here.limit) = Elems(Page(Newest(Z), 0, n))
    BY <1>n, <2>1, DmQueryIsTop
  <2>4. Envelopes(kind, until) =
            Page(Newest(Elems(Page(Newest(X), 0, n)) \union (Elems(Page(Newest(Y), 0, n))
                            \union Elems(Page(Newest(Z), 0, n)))), 0, n)
    <3>1. Envelopes(kind, until) = DmConversation(Viewer, Here.other, DmKinds, until, Here.limit)
      BY <1>2 DEF Envelopes
    <3>2. {4} # {} /\ {1059} # {}
      OBVIOUS
    <3>3. DmConversation(Viewer, Here.other, DmKinds, until, Here.limit) =
              MergeEnvelopes(DmQuery({Viewer}, To(Here.other), {4}, until, Here.limit),
                             DmQuery({Here.other}, To(Viewer), {4}, until, Here.limit)
                                 \union DmQuery({}, To(Viewer), {1059}, until, Here.limit), Here.limit)
      BY <1>0, <2>0, <3>2, Conversation
    <3>4. \A S, T : MergeEnvelopes(S, T, Here.limit) = Page(Newest(S \union T), 0, n)
      BY <1>n DEF MergeEnvelopes
    <3> QED
      <4>1. PICK S, T, U : /\ S = Elems(Page(Newest(X), 0, n)) /\ T = Elems(Page(Newest(Y), 0, n))
                           /\ U = Elems(Page(Newest(Z), 0, n))
        OBVIOUS
      <4>2. Envelopes(kind, until) = MergeEnvelopes(S, T \union U, Here.limit)
        BY <2>3, <3>1, <3>3, <4>1
      <4>3. Envelopes(kind, until) = Page(Newest(S \union (T \union U)), 0, n)
        BY <3>4, <4>2
      <4> QED
        BY <4>1, <4>3
  <2>5. Page(Newest(Elems(Page(Newest(X), 0, n)) \union Elems(Page(Newest(Y), 0, n))
                       \union Elems(Page(Newest(Z), 0, n))), 0, n) = Page(Newest(X \union Y \union Z), 0, n)
    BY <2>2, MergedPages
  <2>6. Elems(Page(Newest(X), 0, n)) \union (Elems(Page(Newest(Y), 0, n)) \union Elems(Page(Newest(Z), 0, n))) =
            Elems(Page(Newest(X), 0, n)) \union Elems(Page(Newest(Y), 0, n)) \union Elems(Page(Newest(Z), 0, n))
    OBVIOUS
  <2>7. X \union Y \union Z = Before(Subject(kind), until)
    <3>2. \A e : e \in X <=> /\ e \in stored /\ Author[e] = Viewer /\ Here.other \in Tagged(e, "p") /\ Kind[e] = 4
                             /\ until > 0 => At[e] < until
      BY <2>1, NamesOne DEF Plainly
    <3>3. \A e : e \in Y <=> /\ e \in stored /\ Author[e] = Here.other /\ Viewer \in Tagged(e, "p") /\ Kind[e] = 4
                             /\ until > 0 => At[e] < until
      BY <2>1, NamesOne DEF Plainly
    <3>4. \A e : e \in Z <=> /\ e \in stored /\ Viewer \in Tagged(e, "p") /\ Kind[e] = 1059
                             /\ until > 0 => At[e] < until
      BY <2>1, NamesOne DEF Plainly
    <3>5. \A e : e \in Before(Subject(kind), until) <=>
                     /\ e \in stored
                     /\ \/ Kind[e] = 1059 /\ Viewer \in Tagged(e, "p")
                        \/ Kind[e] = 4 /\ Author[e] = Viewer /\ Here.other \in Tagged(e, "p")
                        \/ Kind[e] = 4 /\ Author[e] = Here.other /\ Viewer \in Tagged(e, "p")
                     /\ until > 0 => At[e] < until
      BY <1>2 DEF Before, Subject
    <3> QED
      BY <3>2, <3>3, <3>4, <3>5
  <2> QED
    BY <1>n, <2>4, <2>5, <2>6, <2>7
<1> QED
  BY <1>1, <1>2

\* What a page leaves to the next: of what it is a page of, what is older than its end.
Covers(p, kind, until) ==
    /\ p.next \in Nat /\ (p.cut => p.next = 0)
    /\ p.next > 0 => \A f \in p.cursor : ~(At[f] < p.next)
    /\ \A e \in Before(Subject(kind), until) :
           e \in Elems(p.events) \/ (p.next > 0 /\ At[e] <= p.next) \/ p.cut

\* A page s of n events of M ends with the oldest of its events, or leaves nothing.
LeavesOlder(s, M, n) ==
    /\ s \in Seq(Events) /\ OldestTime(s) \in Nat
    /\ Len(s) < n => M \subseteq Elems(s)
    /\ \A e \in M : e \in Elems(s) \/ (OldestTime(s) > 0 /\ At[e] <= OldestTime(s))

\* The newest n events leave out only what is no newer than the oldest of them.
LEMMA NewestLeaveOlder ==
    ASSUME NEW M \in SUBSET Events, NEW n \in Nat \ {0}
    PROVE  LeavesOlder(Page(Newest(M), 0, n), M, n)
<1>s. PICK s : s = Page(Newest(M), 0, n)
  OBVIOUS
<1>1. IsTop(s, M, n)
  BY <1>s, FirstPageIsTop
<1>2. s \in Seq(Events)
  BY <1>1 DEF IsTop
<1>3. s = <<>> => OldestTime(s) = 0
  BY DEF OldestTime
<1>4. OldestTime(s) \in Nat
  BY <1>2, <1>3, OldestIsOfPage
<1>5. ASSUME NEW e \in M, e \notin Elems(s)
      PROVE  Len(s) = n /\ OldestTime(s) > 0 /\ At[e] <= OldestTime(s)
  <2>1. Len(s) = n /\ \A f \in Elems(s) : At[e] <= At[f]
    BY <1>s, <1>5, LeftOutIsOlder
  <2>2. s # <<>>
    BY <2>1
  <2>3. OldestTime(s) \in Nat \ {0} /\ \E f \in Elems(s) : At[f] = OldestTime(s)
    BY <1>2, <2>2, OldestIsOfPage
  <2> QED
    BY <2>1, <2>3
<1>6. Len(s) < n => M \subseteq Elems(s)
  <2> SUFFICES ASSUME Len(s) < n, NEW e \in M, e \notin Elems(s) PROVE FALSE
    OBVIOUS
  <2>1. Len(s) = n
    BY <1>5
  <2> QED
    BY <2>1
<1> QED
  BY <1>s, <1>2, <1>4, <1>5, <1>6 DEF LeavesOlder

\* No page loses anything but to the time that it ends with, or says that it does.
LEMMA PagesCover ==
    ASSUME TableTypes, NEW kind \in EventScrolls, NEW until \in Nat,
           NEW cursor, cursor # {} => until > 0 /\ \A f \in cursor : ~(At[f] < until)
    PROVE  Covers(EventPage(kind, until, cursor), kind, until)
<1>0. /\ stored \in SUBSET Events
      /\ Limited(Here.limit, FeedMax, FeedDefault) \in Nat \ {0}
      /\ Limited(Here.limit, MaxLimit, DefaultLimit) \in Nat \ {0}
      /\ DmLimit(Here.limit) \in Nat \ {0}
  BY Scrolls
<1>s. Before(Subject(kind), until) \in SUBSET Events
  BY <1>0 DEF Before, Subject
<1>1. CASE kind = "feed"
  <2>1. PICK s : s = FollowsFeed(Here.authors, until, Here.limit, 0)
    OBVIOUS
  <2>2. s = Page(Newest(Before(Subject(kind), until)), 0, Limited(Here.limit, FeedMax, FeedDefault))
    BY <1>1, <2>1, FeedIsNewest
  <2>3. /\ OldestTime(s) \in Nat
        /\ \A e \in Before(Subject(kind), until) :
               e \in Elems(s) \/ (OldestTime(s) > 0 /\ At[e] <= OldestTime(s))
    BY <1>0, <1>s, <2>2, NewestLeaveOlder DEF LeavesOlder
  <2>4. EventPage(kind, until, cursor) = [events |-> s, next |-> OldestTime(s), cursor |-> {}, cut |-> FALSE]
    BY <1>1, <2>1 DEF EventPage
  <2> QED
    BY <2>3, <2>4 DEF Covers
<1>2. CASE kind \in {"authored", "replies"}
  <2>0. PICK M \in SUBSET Events : IsOwn(M, kind, until, cursor)
    BY <1>2, OwnIsNewest
  <2>1. /\ OwnQuery(Viewer, kind, until, cursor, Here.limit) =
               Page(Newest(M), 0, Limited(Here.limit, MaxLimit, DefaultLimit))
        /\ \A e : e \in Before(Subject(kind), until) <=>
                      e \in M /\ (ETags[e] # <<>>) = (kind = "replies")
    BY <2>0 DEF IsOwn
  <2>2. PICK r, s : /\ r = OwnQuery(Viewer, kind, until, cursor, Here.limit)
                    /\ s = OwnHistory(Viewer, kind, until, cursor, Here.limit)
    OBVIOUS
  <2>3. /\ r \in Seq(Events) /\ OldestTime(r) \in Nat
        /\ \A e \in M : e \in Elems(r) \/ (OldestTime(r) > 0 /\ At[e] <= OldestTime(r))
    BY <1>0, <2>1, <2>2, NewestLeaveOlder DEF LeavesOlder
  <2> DEFINE G == {e \in Elems(r) : (ETags[e] # <<>>) = (kind = "replies")}
  <2>4. s = Kept(r, G)
    BY <1>2, <2>2 DEF OwnHistory
  <2>5. s \in Seq(Events) /\ Elems(s) = G
    <3>1. s \in Seq(Events) /\ \E p : Keeps(s, r, G, p)
      BY <2>3, <2>4, KeptIsInOrder
    <3>2. PICK p : Keeps(s, r, G, p)
      BY <3>1
    <3>3. Len(s) \in Nat /\ DOMAIN s = 1..Len(s) /\ Len(r) \in Nat /\ DOMAIN r = 1..Len(r)
      BY <2>3, <3>1
    <3>4. \A e \in G : \E k \in 1..Len(r) : r[k] = e
      BY <3>3 DEF Elems
    <3> HIDE DEF G
    <3>5. \A i \in 1..Len(s) : s[i] \in G
      BY <3>2 DEF Keeps
    <3>6. \A e \in G : \E i \in 1..Len(s) : s[i] = e
      <4> SUFFICES ASSUME NEW e \in G PROVE \E i \in 1..Len(s) : s[i] = e
        OBVIOUS
      <4>1. PICK k \in 1..Len(r) : r[k] = e
        BY <3>4
      <4>2. PICK i \in 1..Len(s) : p[i] = k
        BY <3>2, <4>1 DEF Keeps
      <4>3. s[i] = r[p[i]]
        BY <3>2 DEF Keeps
      <4> QED
        BY <4>1, <4>2, <4>3
    <3>7. Elems(s) = {s[i] : i \in 1..Len(s)}
      BY <3>3 DEF Elems
    <3>8. Elems(s) \subseteq G
      BY <3>5, <3>7
    <3>9. G \subseteq Elems(s)
      BY <3>6, <3>7
    <3> QED
      BY <3>1, <3>8, <3>9
  <2>6. PICK p : p = EventPage(kind, until, cursor)
    OBVIOUS
  <2>7. p = [events |-> s, next |-> OldestTime(s), cursor |-> IF s = <<>> THEN {} ELSE {s[Len(s)]},
             cut |-> s = <<>> /\ r # <<>>]
    BY <1>2, <2>2, <2>6 DEF EventPage
  <2>8. /\ p.events = s /\ p.next = OldestTime(s) /\ p.cursor = (IF s = <<>> THEN {} ELSE {s[Len(s)]})
        /\ p.cut = (s = <<>> /\ r # <<>>)
    BY <2>7
  <2>9. CASE s = <<>>
    <3>1. OldestTime(s) = 0
      BY <2>9 DEF OldestTime
    <3>2. Elems(s) = {}
      BY <2>9 DEF Elems
    <3>3. ASSUME NEW e \in Before(Subject(kind), until) PROVE r # <<>>
      <4>1. e \in M /\ (ETags[e] # <<>>) = (kind = "replies") /\ e \notin Elems(r)
        BY <2>1, <2>5, <3>2
      <4>2. OldestTime(r) > 0
        BY <2>3, <4>1
      <4>3. r = <<>> => OldestTime(r) = 0
        BY DEF OldestTime
      <4> QED
        BY <4>2, <4>3
    <3>4. p.next = 0 /\ \A e \in Before(Subject(kind), until) : p.cut
      BY <2>8, <2>9, <3>1, <3>3
    <3>5. Covers(p, kind, until)
      BY <3>4 DEF Covers
    <3> QED
      BY <2>6, <3>5
  <2>10. CASE s # <<>>
    <3>1. /\ OldestTime(s) \in Nat \ {0} /\ \A e \in Elems(s) : At[e] >= OldestTime(s)
          /\ \E e \in Elems(s) : At[e] = OldestTime(s)
      BY <2>5, <2>10, OldestIsOfPage
    <3>2. Len(s) \in DOMAIN s /\ s[Len(s)] \in Elems(s)
      BY <2>5, <2>10 DEF Elems
    <3>6. s[Len(s)] \in Events
      BY <2>5, <3>2
    <3>3. \A f \in p.cursor : ~(At[f] < p.next)
      <4>1. At[s[Len(s)]] >= OldestTime(s) /\ At[s[Len(s)]] \in Nat
        BY <3>1, <3>2, <3>6, EventsAssumption
      <4>2. p.cursor = {s[Len(s)]} /\ p.next = OldestTime(s)
        BY <2>8, <2>10
      <4> QED
        BY <3>1, <4>1, <4>2
    <3>4. ASSUME NEW e \in Before(Subject(kind), until), e \notin Elems(s)
          PROVE  At[e] <= OldestTime(s)
      <4>1. e \in M /\ e \notin Elems(r)
        BY <2>1, <2>5, <3>4
      <4>2. PICK f \in Elems(s) : At[f] = OldestTime(s)
        BY <3>1
      <4>3. f \in Elems(r) /\ e \in Events
        BY <2>5, <4>1
      <4>4. \A g \in Elems(r) : At[e] <= At[g]
        BY <1>0, <2>1, <2>2, <4>1, LeftOutIsOlder
      <4> QED
        BY <4>2, <4>3, <4>4
    <3>7. p.events = s /\ p.next = OldestTime(s) /\ ~p.cut
      BY <2>8, <2>10
    <3>8. p.next \in Nat /\ (p.cut => p.next = 0)
      BY <3>1, <3>7
    <3>9. \A e \in Before(Subject(kind), until) : e \in Elems(p.events) \/ (p.next > 0 /\ At[e] <= p.next)
      BY <3>1, <3>4, <3>7
    <3>10. Covers(p, kind, until)
      BY <3>3, <3>8, <3>9 DEF Covers
    <3> QED
      BY <2>6, <3>10
  <2> QED
    BY <2>9, <2>10
<1>3. CASE kind \in {"inbox", "chat"}
  <2>1. PICK s : s = Envelopes(kind, until)
    OBVIOUS
  <2>2. s = Page(Newest(Before(Subject(kind), until)), 0, DmLimit(Here.limit))
    BY <1>3, <2>1, EnvelopesAreNewest
  <2>3. /\ s \in Seq(Events) /\ OldestTime(s) \in Nat
        /\ Len(s) < DmLimit(Here.limit) => Before(Subject(kind), until) \subseteq Elems(s)
        /\ \A e \in Before(Subject(kind), until) :
               e \in Elems(s) \/ (OldestTime(s) > 0 /\ At[e] <= OldestTime(s))
    BY <1>0, <1>s, <2>2, NewestLeaveOlder DEF LeavesOlder
  <2>4. PICK p : p = EventPage(kind, until, cursor)
    OBVIOUS
  <2>5. p = [events |-> s, next |-> IF Len(s) >= DmLimit(Here.limit) THEN OldestTime(s) ELSE 0,
             cursor |-> {}, cut |-> FALSE]
    BY <1>3, <2>1, <2>4 DEF EventPage
  <2>6. /\ p.events = s /\ p.cursor = {} /\ p.cut = FALSE
        /\ p.next = IF Len(s) >= DmLimit(Here.limit) THEN OldestTime(s) ELSE 0
    BY <2>5
  <2>7. Len(s) \in Nat /\ DmLimit(Here.limit) \in Nat
    BY <1>0, <2>3
  <2>8. Covers(p, kind, until)
    BY <2>3, <2>6, <2>7 DEF Covers
  <2> QED
    BY <2>4, <2>8
<1> QED
  BY <1>1, <1>2, <1>3 DEF EventScrolls

\* While a client scrolls: what it is to see is still to be shown, and of that it has
\* seen what is not older than the last page's end, but for what shares its second with
\* the end of a page.
Scrolled ==
    /\ scroll.kind \in EventScrolls /\ scroll.until \in Nat \ {0}
    /\ \A f \in scroll.cursor : ~(At[f] < scroll.until)
    /\ scroll.snap \subseteq Subject(scroll.kind)
    /\ \A e \in scroll.snap : ~(At[e] < scroll.until) => e \in scroll.seen \/ At[e] \in scroll.ends

ScrollInv ==
    /\ scroll.state = "new" => scroll = NoScroll
    /\ scroll.state = "on" /\ scroll.kind # "notices" => Scrolled
    /\ ScrollMissesOnlyTies

\* What is shown stays, whatever arrives.
LEMMA SubjectGrows ==
    ASSUME mode' = mode, stored \subseteq stored', copies \in [stored -> 0..2],
           copies' \in [stored' -> 0..2], \A e \in stored : copies'[e] >= copies[e],
           NEW kind \in EventScrolls
    PROVE  Subject(kind) \subseteq Subject(kind)'
<1>1. \A e \in stored : \A key : Tagged(e, key) \subseteq Tagged(e, key)'
  <2> SUFFICES ASSUME NEW e \in stored, NEW key PROVE Tagged(e, key) \subseteq Tagged(e, key)'
    OBVIOUS
  <2>1. copies[e] \in Nat /\ copies'[e] \in Nat /\ copies'[e] >= copies[e]
    OBVIOUS
  <2>2. copies[e] # 0 => copies'[e] # 0
    BY <2>1
  <2>3. Tagged(e, key) = IF copies[e] = 0 THEN {} ELSE TagValues(e, key)
    BY DEF Tagged
  <2>4. Tagged(e, key)' = IF copies'[e] = 0 THEN {} ELSE TagValues(e, key)
    BY DEF Tagged
  <2> QED
    BY <2>2, <2>3, <2>4
<1>2. Viewer' = Viewer /\ Here' = Here
  BY DEF Viewer, Here
<1>3. SUFFICES ASSUME NEW e \in Subject(kind) PROVE e \in Subject(kind)'
  OBVIOUS
<1>4. e \in stored /\ e \in stored'
  BY <1>3 DEF Subject
<1>5. CASE kind = "feed"
  <2>1. Author[e] \in Here.authors /\ Kind[e] \in FeedKinds
    BY <1>3, <1>5 DEF Subject
  <2> QED
    BY <1>2, <1>4, <1>5, <2>1 DEF Subject
<1>6. CASE kind = "authored"
  <2>1. Author[e] = Viewer /\ Kind[e] \in {1, 1111} /\ (ETags[e] # <<>>) = (kind = "replies")
    BY <1>3, <1>6 DEF Subject
  <2> QED
    BY <1>2, <1>4, <1>6, <2>1 DEF Subject
<1>7. CASE kind = "replies"
  <2>1. Author[e] = Viewer /\ Kind[e] \in {1, 1111} /\ (ETags[e] # <<>>) = (kind = "replies")
    BY <1>3, <1>7 DEF Subject
  <2> QED
    BY <1>2, <1>4, <1>7, <2>1 DEF Subject
<1>8. CASE kind = "inbox"
  <2>1. Kind[e] \in DmKinds /\ (Author[e] = Viewer \/ Viewer \in Tagged(e, "p"))
    BY <1>3, <1>8 DEF Subject
  <2>2. Viewer \in Tagged(e, "p") => Viewer \in Tagged(e, "p")'
    BY <1>1, <1>4
  <2> QED
    BY <1>2, <1>4, <1>8, <2>1, <2>2 DEF Subject
<1>9. CASE kind = "chat"
  <2>1. \/ Kind[e] = 1059 /\ Viewer \in Tagged(e, "p")
        \/ Kind[e] = 4 /\ Author[e] = Viewer /\ Here.other \in Tagged(e, "p")
        \/ Kind[e] = 4 /\ Author[e] = Here.other /\ Viewer \in Tagged(e, "p")
    BY <1>3, <1>9 DEF Subject
  <2>2. \A u : u \in Tagged(e, "p") => u \in Tagged(e, "p")'
    BY <1>1, <1>4
  <2> QED
    BY <1>2, <1>4, <1>9, <2>1, <2>2 DEF Subject
<1> QED
  BY <1>5, <1>6, <1>7, <1>8, <1>9 DEF EventScrolls

\* A client that has not begun has seen nothing.
LEMMA NotScrolled == NoScroll.state = "new" /\ NoScroll.until = 0 /\ NoScroll.cursor = {}
  BY DEF NoScroll

\* A page more: what it is to see that the page does not show is older than its end.
LEMMA PageScrolls ==
    ASSUME TableTypes, ScrollInv, ScrollEvents
    PROVE  ScrollInv'
<1>1. PICK kind \in Here.kinds \intersect EventScrolls :
          /\ scroll.state = "new" \/ (scroll.state = "on" /\ scroll.kind = kind)
          /\ \E page \in {EventPage(kind, scroll.until, scroll.cursor)} :
                 scroll' = [state |-> IF page.next = 0 THEN "done" ELSE "on",
                            kind |-> kind, until |-> page.next, cursor |-> page.cursor,
                            seen |-> scroll.seen \union Elems(page.events),
                            snap |-> IF scroll.state = "new" THEN Subject(kind) ELSE scroll.snap,
                            ends |-> scroll.ends \union {page.next}, cut |-> page.cut]
  BY DEF ScrollEvents
<1>2. UNCHANGED <<mode, stored, copies>>
  BY DEF ScrollEvents
<1>3. PICK page : page = EventPage(kind, scroll.until, scroll.cursor)
  OBVIOUS
<1>4. PICK base : base = IF scroll.state = "new" THEN Subject(kind) ELSE scroll.snap
  OBVIOUS
<1>5. /\ scroll'.state = (IF page.next = 0 THEN "done" ELSE "on")
      /\ scroll'.kind = kind /\ scroll'.until = page.next /\ scroll'.cursor = page.cursor
      /\ scroll'.seen = scroll.seen \union Elems(page.events) /\ scroll'.snap = base
      /\ scroll'.ends = scroll.ends \union {page.next} /\ scroll'.cut = page.cut
  BY <1>1, <1>3, <1>4
<1>k. kind # "notices" /\ kind \in EventScrolls
  BY <1>1 DEF EventScrolls
<1>6. /\ scroll.until \in Nat
      /\ scroll.cursor # {} => scroll.until > 0 /\ \A f \in scroll.cursor : ~(At[f] < scroll.until)
      /\ base \subseteq Subject(kind)
      /\ \A e \in base : scroll.until > 0 /\ ~(At[e] < scroll.until) => e \in scroll.seen \/ At[e] \in scroll.ends
  <2>1. CASE scroll.state = "new"
    <3>1. scroll.until = 0 /\ scroll.cursor = {}
      <4>1. scroll = NoScroll
        BY <2>1 DEF ScrollInv
      <4> QED
        BY <4>1, NotScrolled
    <3> QED
      BY <1>4, <2>1, <3>1
  <2>2. CASE scroll.state = "on" /\ scroll.kind = kind
    <3>1. Scrolled /\ base = scroll.snap
      BY <1>4, <1>k, <2>2 DEF ScrollInv
    <3> QED
      BY <2>2, <3>1 DEF Scrolled
  <2> QED
    BY <1>1, <2>1, <2>2
<1>7. Covers(page, kind, scroll.until)
  BY <1>3, <1>6, <1>k, PagesCover
<1>8. page.next \in Nat /\ (page.cut => page.next = 0)
      /\ (page.next > 0 => \A f \in page.cursor : ~(At[f] < page.next))
  BY <1>7 DEF Covers
<1>9. ASSUME NEW e \in base
      PROVE  \/ e \in scroll'.seen \/ At[e] \in scroll'.ends \/ page.cut
             \/ page.next > 0 /\ At[e] < page.next
  <2>0. e \in Events /\ At[e] \in Nat
    BY <1>6, StoredAreEvents, EventsAssumption DEF Subject
  <2>1. CASE scroll.until > 0 /\ ~(At[e] < scroll.until)
    BY <1>5, <1>6, <2>1
  <2>2. CASE ~(scroll.until > 0 /\ ~(At[e] < scroll.until))
    <3>1. e \in Before(Subject(kind), scroll.until)
      BY <1>6, <2>2 DEF Before
    <3>2. e \in Elems(page.events) \/ (page.next > 0 /\ At[e] <= page.next) \/ page.cut
      BY <1>7, <3>1 DEF Covers
    <3>3. At[e] = page.next => At[e] \in scroll'.ends
      BY <1>5
    <3>4. e \in Elems(page.events) => e \in scroll'.seen
      BY <1>5
    <3> QED
      BY <1>8, <2>0, <3>2, <3>3, <3>4
  <2> QED
    BY <2>1, <2>2
<1>10. CASE page.next = 0
  <2>1. scroll'.state = "done"
    BY <1>5, <1>10
  <2>2. \A e \in scroll'.snap : e \in scroll'.seen \/ At[e] \in scroll'.ends \/ scroll'.cut
    BY <1>5, <1>9, <1>10
  <2> QED
    BY <2>1, <2>2 DEF ScrollInv, ScrollMissesOnlyTies
<1>11. CASE page.next # 0
  <2>1. scroll'.state = "on" /\ ~page.cut /\ page.next > 0
    BY <1>5, <1>8, <1>11
  <2>2. \A e \in scroll'.snap : ~(At[e] < scroll'.until) => e \in scroll'.seen \/ At[e] \in scroll'.ends
    BY <1>5, <1>9, <2>1
  <2>3. Subject(kind)' = Subject(kind)
    BY <1>2 DEF Subject, Here, Viewer, Candidates, Tagged
  <2>4. Scrolled'
    BY <1>5, <1>6, <1>8, <1>k, <1>11, <2>1, <2>2, <2>3 DEF Scrolled
  <2> QED
    BY <2>1, <2>4 DEF ScrollInv, ScrollMissesOnlyTies
<1> QED
  BY <1>10, <1>11

\* Nothing else that happens takes from what the client is to see.
LEMMA ScrollStays ==
    ASSUME TableTypes, ScrollInv, [Next]_vars, scroll' = scroll
    PROVE  ScrollInv'
<1>1. /\ mode' = mode /\ stored \subseteq stored' /\ copies \in [stored -> 0..2]
      /\ copies' \in [stored' -> 0..2] /\ \A e \in stored : copies'[e] >= copies[e]
  <2>1. CASE Arrive
    BY <2>1, ArriveGrows DEF Grown, TableTypes
  <2>2. CASE UNCHANGED <<mode, stored, copies>>
    BY <2>2 DEF TableTypes
  <2> QED
    BY <2>1, <2>2, StepKinds
<1>2. \A kind \in EventScrolls : Subject(kind) \subseteq Subject(kind)'
  BY <1>1, SubjectGrows
<1>3. Scrolled => Scrolled'
  <2> SUFFICES ASSUME Scrolled PROVE Scrolled'
    OBVIOUS
  <2>1. scroll.kind \in EventScrolls /\ scroll.snap \subseteq Subject(scroll.kind)
    BY DEF Scrolled
  <2>2. PICK kind \in EventScrolls : kind = scroll.kind
    BY <2>1
  <2>3. scroll'.snap \subseteq Subject(kind)' /\ scroll'.kind = kind
    BY <1>2, <2>1, <2>2
  <2> QED
    BY <2>2, <2>3 DEF Scrolled
<1> QED
  BY <1>3 DEF ScrollInv, ScrollMissesOnlyTies, NoScroll

\* Notifications are scrolled by groups.
LEMMA NoticesScroll ==
    ASSUME ScrollNotices
    PROVE  ScrollInv'
<1>1. scroll'.kind = "notices" /\ scroll'.state \in {"on", "done"}
  BY DEF ScrollNotices
<1> QED
  BY <1>1 DEF ScrollInv, ScrollMissesOnlyTies

\* Every step keeps the invariant of scrolling.
LEMMA ScrollNext ==
    ASSUME TableTypes, ScrollInv, [Next]_vars
    PROVE  ScrollInv'
<1>1. CASE ScrollEvents
  BY <1>1, PageScrolls
<1>2. CASE ScrollNotices
  BY <1>2, NoticesScroll
<1>3. CASE scroll' = scroll
  BY <1>3, ScrollStays
<1>4. ScrollEvents \/ ScrollNotices \/ scroll' = scroll
  BY DEF Next, vars, Arrive, Rolls, Rolling, FillFeed, AskRanked
<1> QED
  BY <1>1, <1>2, <1>3, <1>4

\* At first nobody scrolls.
LEMMA ScrollInit == Init => ScrollInv
<1> SUFFICES ASSUME Init PROVE ScrollInv
  OBVIOUS
<1>1. scroll = NoScroll
  BY DEF Init
<1>2. scroll.state = "new"
  BY <1>1, NotScrolled
<1> QED
  BY <1>1, <1>2 DEF ScrollInv, ScrollMissesOnlyTies

\* A client that scrolls a feed, its own history or its messages to the end misses only
\* what shares a second with the end of a page, whatever arrives between the pages
\* (FollowsFeed, ownHistory, dmEnvelopes, dmConversation).
THEOREM ReadsScrollsMissOnlyTies == Spec => []ScrollMissesOnlyTies
<1>1. ScrollInv => ScrollMissesOnlyTies
  BY DEF ScrollInv
<1> QED
  BY <1>1, ReadTables, ScrollInit, ScrollNext, PTL DEF Spec

\* Times are numbers.
LEMMA TimesAreNumbers == TableTypes => Times \subseteq Nat
<1>1. TableTypes => mode \in Modes
  BY DEF TableTypes
<1>2. mode \in Modes => Here.events \subseteq Events
  BY DeployAssumption DEF Here
<1>3. \A e \in Events : At[e] \in Nat
  BY EventsAssumption
<1> QED
  BY <1>1, <1>2, <1>3 DEF Times

\* However a page of messages is put together, it is the newest of its subject
\* (mergeDmEnvelopes).
LEMMA MessagesAreNewest == TableTypes => DmPageIsNewest
<1> SUFFICES ASSUME TableTypes, NEW kind \in Here.kinds \intersect {"inbox", "chat"}, NEW until \in Times
             PROVE  Envelopes(kind, until) =
                        Page(Newest({e \in Subject(kind) : until > 0 => At[e] < until}), 0, DmLimit(Here.limit))
  BY DEF DmPageIsNewest
<1>1. until \in Nat
  BY TimesAreNumbers
<1>2. Before(Subject(kind), until) = {e \in Subject(kind) : until > 0 => At[e] < until}
  BY DEF Before
<1>3. Envelopes(kind, until) = Page(Newest(Before(Subject(kind), until)), 0, DmLimit(Here.limit))
  BY <1>1, EnvelopesAreNewest
<1> QED
  BY <1>2, <1>3

\* A page of a query that is not full has all that matches (eventsQuery).
LEMMA LastEventsPage == TableTypes => EventsPageIsLast
<1> SUFFICES ASSUME TableTypes, NEW n \in 0..(MaxLimit + 1), NEW until \in Times,
                    ~EventsPage([AnyEvent EXCEPT !.until = until, !.limit = n]).hasNext
             PROVE  Elems(EventsPage([AnyEvent EXCEPT !.until = until, !.limit = n]).events) =
                        Matching([AnyEvent EXCEPT !.until = until, !.limit = n])
  BY DEF EventsPageIsLast
<1>0. until \in Nat /\ stored \in SUBSET Events /\ n \in Nat
  BY TimesAreNumbers, StoredAreEvents, EventsAssumption
<1>m. PICK m : m = IF n = 0 \/ n > MaxLimit THEN MaxLimit ELSE n
  OBVIOUS
<1>1. m \in Nat \ {0} /\ Limited(m, MaxLimit, DefaultLimit) = m
  BY <1>0, <1>m, EventsAssumption DEF Limited
<1>2. PICK q, r : q = [AnyEvent EXCEPT !.until = until, !.limit = n] /\ r = [q EXCEPT !.limit = m]
  OBVIOUS
<1>3. /\ SaysOnly(q, {}, {}, {}, {}, until) /\ SaysOnly(r, {}, {}, {}, {}, until)
      /\ q.limit = n /\ r.offset = 0 /\ r.limit = m
  BY <1>2 DEF AnyEvent, SaysOnly
<1>4. PICK M : M = Matching(q)
  OBVIOUS
<1>5. M \in SUBSET Events /\ Matching(r) = M
  <2>1. Matching(q) = Plainly({}, {}, {}, {}, until) /\ Matching(r) = Plainly({}, {}, {}, {}, until)
    BY <1>0, <1>3, QueryMatches
  <2>2. Plainly({}, {}, {}, {}, until) \subseteq stored
    BY DEF Plainly
  <2> QED
    BY <1>0, <1>4, <2>1, <2>2
<1>6. PICK s : s = Page(Newest(M), 0, m)
  OBVIOUS
<1>7. QueryEvents(r) = s
  BY <1>1, <1>3, <1>5, <1>6 DEF QueryEvents
<1>8. EventsPage(q) = [events |-> s, hasNext |-> Len(s) >= m]
  BY <1>2, <1>3, <1>7, <1>m DEF EventsPage
<1>9. ~(Len(s) >= m) /\ EventsPage(q).events = s
  <2>1. ~EventsPage(q).hasNext
    BY <1>2
  <2>2. EventsPage(q).hasNext = (Len(s) >= m) /\ EventsPage(q).events = s
    BY <1>8
  <2> QED
    BY <2>1, <2>2
<1>10. LeavesOlder(s, M, m)
  BY <1>1, <1>5, <1>6, NewestLeaveOlder
<1>11. M \subseteq Elems(s)
  BY <1>1, <1>9, <1>10 DEF LeavesOlder
<1>12. Elems(s) \subseteq M
  BY <1>1, <1>5, <1>6, FirstOfNewest
<1> QED
  BY <1>2, <1>4, <1>9, <1>11, <1>12

\* Pages that are scrolled by time miss only ties: what a client is shown, the pages of
\* messages and the last page of a query.
THEOREM ReadsPagesMissOnlyTies == Spec => []PagesMissOnlyTies
<1>1. TableTypes /\ ScrollMissesOnlyTies => PagesMissOnlyTies
  BY MessagesAreNewest, LastEventsPage DEF PagesMissOnlyTies
<1> QED
  BY <1>1, ReadTables, ReadsScrollsMissOnlyTies, PTL

-----------------------------------------------------------------------------
(* Types *)

\* What a query answers with is stored.
LEMMA ResultsAreStored ==
    ASSUME stored \in SUBSET Events, NEW q, q.offset \in Nat, q.limit \in Nat
    PROVE  QueryEvents(q) \in Seq(stored) /\ Elems(QueryEvents(q)) \subseteq stored
<1> DEFINE M == Matching(q)
           n == Limited(q.limit, MaxLimit, DefaultLimit)
<1>1. M \in SUBSET Events /\ M \subseteq stored
  BY DEF Matching
<1>2. n \in Nat
  BY EventsAssumption DEF Limited
<1>3. QueryEvents(q) = Page(Newest(M), q.offset, n)
  BY DEF QueryEvents
<1> HIDE DEF M, n
<1>4. Page(Newest(M), q.offset, n) \in Seq(M)
  BY <1>1, <1>2, PageOfNewest
<1>5. \A e \in Elems(Page(Newest(M), q.offset, n)) : e \in M
  BY <1>1, <1>2, PageOfNewest
<1> QED
  BY <1>1, <1>3, <1>4, <1>5

\* The oldest time of stored events is a time.
LEMMA OldestIsTime ==
    ASSUME TableTypes, NEW s \in Seq(stored)
    PROVE  OldestTime(s) \in Times
<1>1. CASE s = <<>>
  BY <1>1 DEF OldestTime, Times
<1>2. CASE s # <<>>
  <2>1. s \in Seq(Events)
    BY StoredAreEvents
  <2>2. PICK e \in Elems(s) : At[e] = OldestTime(s)
    BY <1>2, <2>1, OldestIsOfPage
  <2>3. e \in stored
    BY DEF Elems
  <2> QED
    BY <2>2, <2>3 DEF Times, TableTypes
<1> QED
  BY <1>1, <1>2

\* A page ends with the time of one of the events that are there.
LEMMA PagesEndInTime ==
    ASSUME TableTypes, NEW kind \in EventScrolls, NEW until \in Nat, NEW cursor
    PROVE  EventPage(kind, until, cursor).next \in Times
<1>0. /\ stored \in SUBSET Events /\ Here.limit \in Nat /\ 0 \in Times
      /\ Limited(Here.limit, FeedMax, FeedDefault) \in Nat \ {0} /\ DmLimit(Here.limit) \in Nat \ {0}
  BY Scrolls DEF Times
<1>s. Before(Subject(kind), until) \in SUBSET stored /\ Before(Subject(kind), until) \in SUBSET Events
  BY <1>0 DEF Before, Subject
<1>p. \A n \in Nat : Page(Newest(Before(Subject(kind), until)), 0, n) \in Seq(stored)
  <2> SUFFICES ASSUME NEW n \in Nat PROVE Page(Newest(Before(Subject(kind), until)), 0, n) \in Seq(stored)
    OBVIOUS
  <2>1. IsTop(Page(Newest(Before(Subject(kind), until)), 0, n), Before(Subject(kind), until), n)
    BY <1>s, FirstPageIsTop
  <2>2. Page(Newest(Before(Subject(kind), until)), 0, n) \in Seq(Before(Subject(kind), until))
    BY <2>1 DEF IsTop
  <2> QED
    BY <1>s, <2>2
<1>1. CASE kind = "feed"
  <2>1. FollowsFeed(Here.authors, until, Here.limit, 0) \in Seq(stored)
    BY <1>0, <1>1, <1>p, FeedIsNewest
  <2>2. EventPage(kind, until, cursor).next = OldestTime(FollowsFeed(Here.authors, until, Here.limit, 0))
    BY <1>1 DEF EventPage
  <2> QED
    BY <2>1, <2>2, OldestIsTime
<1>2. CASE kind \in {"authored", "replies"}
  <2>1. PICK r : r = OwnQuery(Viewer, kind, until, cursor, Here.limit)
    OBVIOUS
  <2>2. r \in Seq(stored)
    <3> DEFINE q == [AnyEvent EXCEPT !.authors = {Viewer}, !.kinds = OwnKinds[kind], !.until = until,
                                     !.notIds = cursor, !.limit = Here.limit]
    <3>1. q.offset = 0 /\ q.limit = Here.limit
      BY DEF AnyEvent
    <3>2. r = QueryEvents(q)
      BY <2>1 DEF OwnQuery
    <3> HIDE DEF q
    <3> QED
      BY <1>0, <3>1, <3>2, ResultsAreStored
  <2>3. PICK G : OwnHistory(Viewer, kind, until, cursor, Here.limit) = Kept(r, G)
    BY <2>1 DEF OwnHistory
  <2>4. Kept(r, G) \in Seq(stored)
    BY <2>2, KeptIsInOrder
  <2>5. EventPage(kind, until, cursor).next = OldestTime(Kept(r, G))
    BY <1>2, <2>3 DEF EventPage
  <2> QED
    BY <2>4, <2>5, OldestIsTime
<1>3. CASE kind \in {"inbox", "chat"}
  <2>1. Envelopes(kind, until) \in Seq(stored)
    BY <1>0, <1>3, <1>p, EnvelopesAreNewest
  <2>2. OldestTime(Envelopes(kind, until)) \in Times
    BY <2>1, OldestIsTime
  <2>3. EventPage(kind, until, cursor).next =
            IF Len(Envelopes(kind, until)) >= DmLimit(Here.limit) THEN OldestTime(Envelopes(kind, until)) ELSE 0
    BY <1>3 DEF EventPage
  <2> QED
    BY <1>0, <2>2, <2>3
<1> QED
  BY <1>1, <1>2, <1>3 DEF EventScrolls

\* What notifications are made from is stored.
LEMMA NoticesAreStored ==
    ASSUME stored \in SUBSET Events, NEW q, NoticeLimit(q.limit) \in Nat
    PROVE  LegacyNotices(q) \in Seq(stored)
<1>1. PICK recent : recent = FirstRows(WantedOf(q), "p", LegacyWindow(q.limit))
  OBVIOUS
<1>2. recent \subseteq stored
  BY <1>1 DEF FirstRows, WantedOf, Candidates
<1>3. PICK rest : rest = {e \in FollowsOnce(recent) : e \in stored /\ InScope(q, e, Facts(q.viewer, e))
                                                       /\ Trusted(q, Score[Author[e]])}
  OBVIOUS
<1>4. rest \subseteq stored /\ rest \in SUBSET Events
  BY <1>3
<1>5. LegacyNotices(q) = Page(Newest(rest), 0, NoticeLimit(q.limit))
  BY <1>1, <1>3 DEF LegacyNotices
<1>6. Page(Newest(rest), 0, NoticeLimit(q.limit)) \in Seq(rest)
  BY <1>4, FirstPageIsTop DEF IsTop
<1> QED
  BY <1>4, <1>5, <1>6

\* The groups of a page are known by rows of it: by the first of each, the latest first.
LEMMA GroupsHaveRows ==
    ASSUME stored \in SUBSET Events, NEW s \in Seq(stored)
    PROVE  /\ Len(GroupOrder(s)) \in Nat /\ \A i \in 1..Len(GroupOrder(s)) : GroupOrder(s)[i] \in DOMAIN s
           /\ \A h \in Heads(s) : \E i \in 1..Len(GroupOrder(s)) : GroupOrder(s)[i] = h
           /\ \A i, j \in 1..Len(GroupOrder(s)) : i < j => At[s[GroupOrder(s)[i]]] >= At[s[GroupOrder(s)[j]]]
<1> DEFINE H == Heads(s)
           R == {x \in H \X H : At[s[x[1]]] > At[s[x[2]]] \/ (At[s[x[1]]] = At[s[x[2]]] /\ x[1] < x[2])}
           n == Cardinality(H)
<1>1. Len(s) \in Nat /\ DOMAIN s = 1..Len(s) /\ \A i \in 1..Len(s) : s[i] \in Events
  OBVIOUS
<1>2. H \subseteq DOMAIN s
  BY DEF Heads
<1>3. IsFiniteSet(H) /\ \A i \in H : i \in Int /\ At[s[i]] \in Int
  <2>1. IsFiniteSet(1..Len(s)) /\ H \in SUBSET (1..Len(s))
    BY <1>1, <1>2, Numbered
  <2>2. ASSUME NEW i \in H PROVE i \in Int /\ At[s[i]] \in Int
    <3>1. i \in 1..Len(s) /\ s[i] \in Events
      BY <1>1, <2>1
    <3>2. i \in Int
      BY <1>1, <3>1
    <3>3. PICK e \in Events : e = s[i]
      BY <3>1
    <3>4. At[e] \in Int
      BY <3>3, EventsAssumption
    <3> QED
      BY <3>2, <3>3, <3>4
  <2> QED
    BY <2>1, <2>2, FS_Subset
<1>4. \A i, j \in H : <<i, j>> \in R <=> At[s[i]] > At[s[j]] \/ (At[s[i]] = At[s[j]] /\ i < j)
  OBVIOUS
<1>5. \A i \in H : {h \in H : <<h, i>> \in R} =
                       {h \in H : At[s[h]] > At[s[i]] \/ (At[s[h]] = At[s[i]] /\ h < i)}
  BY <1>4
<1>6. \A i \in H : RankIn(R, H, i) =
                       Cardinality({h \in H : At[s[h]] > At[s[i]] \/ (At[s[h]] = At[s[i]] /\ h < i)})
  BY <1>5 DEF RankIn
<1>h. H = Heads(s)
  OBVIOUS
<1> HIDE DEF R, H
<1>7. StrictOrder(R, H)
  <2> DEFINE at(i) == At[s[i]]
  <2>1. \A i, j \in H : <<i, j>> \in R <=> at(i) > at(j) \/ (at(i) = at(j) /\ i < j)
    BY <1>4
  <2>2. \A i \in H : i \in Int /\ at(i) \in Int
    BY <1>3
  <2> HIDE DEF at
  <2>3. \A i \in H : <<i, i>> \notin R
    BY <2>1, <2>2
  <2>4. \A i, j \in H : i # j => <<i, j>> \in R \/ <<j, i>> \in R
    BY <2>1, <2>2
  <2>5. \A i, j, k \in H : <<i, j>> \in R /\ <<j, k>> \in R => <<i, k>> \in R
    BY <2>1, <2>2
  <2> QED
    BY <2>3, <2>4, <2>5 DEF StrictOrder
<1>8. PICK p : p = ByRank(R, H)
  OBVIOUS
<1>9. GroupOrder(s) = p
  BY <1>6, <1>8, <1>h DEF GroupOrder, Ordered, ByRank
<1>10. n \in Nat /\ p \in Seq(H) /\ Len(p) = n /\ \A i \in 1..n : p[i] \in H
  BY <1>3, <1>7, <1>8, SortedByRanks
<1>11. ASSUME NEW h \in H PROVE \E i \in 1..n : p[i] = h
  <2>1. RankIn(R, H, h) \in 0..(n - 1) /\ p[RankIn(R, H, h) + 1] = h
    BY <1>3, <1>7, <1>8, SortedByRanks
  <2>2. RankIn(R, H, h) + 1 \in 1..n
    BY <1>10, <2>1
  <2> QED
    BY <2>1, <2>2
<1>12. ASSUME NEW i \in 1..n, NEW j \in 1..n, i < j PROVE At[s[p[i]]] >= At[s[p[j]]]
  <2>1. /\ p[i] \in H /\ RankIn(R, H, p[i]) = i - 1
        /\ p[j] \in H /\ RankIn(R, H, p[j]) = j - 1
    BY <1>3, <1>7, <1>8, SortedByRanks
  <2>2. RankIn(R, H, p[i]) < RankIn(R, H, p[j])
    BY <1>10, <1>12, <2>1
  <2>3. <<p[i], p[j]>> \in R
    BY <1>3, <1>7, <2>1, <2>2, SortedByRanks
  <2>4. At[s[p[i]]] > At[s[p[j]]] \/ At[s[p[i]]] = At[s[p[j]]]
    BY <1>4, <2>1, <2>3
  <2>5. At[s[p[i]]] \in Int /\ At[s[p[j]]] \in Int
    BY <1>3, <2>1
  <2> QED
    BY <2>4, <2>5
<1> QED
  BY <1>2, <1>9, <1>10, <1>11, <1>12, <1>h

\* A page of groups ends with the time of one of the events that are there.
LEMMA GroupsEndInTime ==
    ASSUME TableTypes, NEW until \in Nat
    PROVE  EndCursor(GroupedPage(Request(Viewer, "RELAXED", "NONE", until, Here.limit))) \in Times
<1>1. PICK q : q = Request(Viewer, "RELAXED", "NONE", until, Here.limit)
  OBVIOUS
<1>2. q.limit \in Nat /\ stored \in SUBSET Events
  BY <1>1, Scrolls DEF Request
<1>3. PICK body, s : body = BodyRows(q) /\ s = FollowRows(q) \o BodyRows(q)
  OBVIOUS
<1>n. \A n \in Nat : NoticeLimit(n) \in Nat
  BY NoticeAssumption DEF NoticeLimit, Limited
<1>4. BodyRows(q) \in Seq(stored)
  <2> DEFINE r == [q EXCEPT !.limit = BodyWindow(q.limit), !.notReasons = {"follow"} \union q.notReasons]
  <2>1. BodyWindow(q.limit) \in Nat
    BY <1>2, NoticeAssumption DEF BodyWindow, Between
  <2>2. r.limit = BodyWindow(q.limit)
    BY <1>1 DEF Request
  <2>3. BodyRows(q) = LegacyNotices(r)
    BY DEF BodyRows, BodyRequest
  <2> HIDE DEF r
  <2> QED
    BY <1>2, <1>n, <2>1, <2>2, <2>3, NoticesAreStored
<1>5. FollowRows(q) \in Seq(stored)
  <2> DEFINE r == [q EXCEPT !.reasons = {"follow"}, !.notReasons = {}, !.limit = FollowWindow, !.scope = "NONE"]
  <2>1. r.limit = FollowWindow /\ FollowWindow \in Nat
    BY <1>1, NoticeAssumption DEF Request
  <2>2. FollowRows(q) = IF q.tab = "MENTIONS" \/ q.until # 0 THEN <<>> ELSE LegacyNotices(r)
    BY DEF FollowRows
  <2> HIDE DEF r
  <2>3. LegacyNotices(r) \in Seq(stored)
    BY <1>2, <1>n, <2>1, NoticesAreStored
  <2> QED
    BY <2>2, <2>3
<1>6. s \in Seq(stored)
  BY <1>3, <1>4, <1>5
<1>7. PICK order : order = GroupOrder(s)
  OBVIOUS
<1>8. Len(order) \in Nat /\ \A i \in 1..Len(order) : order[i] \in DOMAIN s
  BY <1>2, <1>6, <1>7, GroupsHaveRows
<1>9. PICK m : m = Least(Len(order), q.limit)
  OBVIOUS
<1>10. m \in Nat /\ m <= Len(order)
  BY <1>2, <1>8, <1>9 DEF Least
<1>11. PICK page : page = GroupedPage(q)
  OBVIOUS
<1>12. page.items = [i \in 1..m |-> Group(q, s, s[order[i]])]
  BY <1>3, <1>7, <1>9, <1>11 DEF GroupedPage, PageOfRows, PageOfGroups
<1>13. CASE m = 0
  <2>1. page.items = <<>>
    BY <1>12, <1>13
  <2> QED
    BY <1>1, <1>11, <2>1 DEF EndCursor, Times
<1>14. CASE m # 0
  <2>1. Len(page.items) = m /\ m \in 1..m
    BY <1>10, <1>12, <1>14
  <2>2. page.items[m].event = s[order[m]]
    BY <1>12, <2>1 DEF Group, Item
  <2>3. s[order[m]] \in stored
    BY <1>6, <1>8, <1>10, <2>1
  <2>4. page.items # <<>>
    BY <1>14, <2>1
  <2>5. EndCursor(page) = At[s[order[m]]]
    BY <2>1, <2>2, <2>4 DEF EndCursor
  <2> QED
    BY <1>1, <1>11, <2>3, <2>5 DEF Times, TableTypes
<1> QED
  BY <1>10, <1>13, <1>14

\* What the tables do not say: the client's page, the read-model, and what is computed
\* for whom.
ClientTypes ==
    /\ scroll.state \in {"new", "on", "done"} /\ scroll.until \in Times
    /\ \A v \in Users : DOMAIN noted[v] \subseteq Candidates(v)
    /\ DOMAIN asks = Clients
    /\ \A c \in Clients : asks[c] # None => asks[c] \in [request : Requests, waitsFor : DOMAIN flights \union {None}]
    /\ DOMAIN flights \subseteq Clients
    /\ \A c \in DOMAIN flights : flights[c].request \in Requests /\ flights[c].ids \in SUBSET Events
    /\ \A k \in DOMAIN pools : pools[k].pool.events \subseteq stored

\* Steps of the clients of ranked feeds keep the types.
LEMMA AsksKeepTypes ==
    ASSUME TableTypes, ClientTypes, PoolInv, UNCHANGED <<mode, scroll, stored, copies, noted>>,
           Ask \/ \E c \in Clients, r \in Requests : Miss(c, r)
    PROVE  ClientTypes'
<1>0. stored \in SUBSET Events /\ Requests' = Requests /\ mode \in Modes
  BY StoredAreEvents DEF Requests, Here, TableTypes
<1>1. /\ scroll'.state \in {"new", "on", "done"} /\ scroll'.until \in Times'
      /\ \A v \in Users : DOMAIN noted'[v] \subseteq Candidates(v)'
  BY DEF ClientTypes, Times, Here, Candidates, Tagged
<1>2. ASSUME NEW c \in Clients, NEW r \in Requests, Miss(c, r) PROVE ClientTypes'
  <2>1. /\ asks' = [asks EXCEPT ![c] = [request |-> r, waitsFor |-> None]]
        /\ UNCHANGED <<pools, flights>>
    BY <1>2 DEF Miss
  <2>2. DOMAIN asks' = Clients
    BY <2>1 DEF ClientTypes
  <2>3. \A d \in Clients : asks'[d] = IF d = c THEN [request |-> r, waitsFor |-> None] ELSE asks[d]
    BY <2>1 DEF ClientTypes
  <2>4. \A d \in Clients : asks'[d] # None =>
            asks'[d] \in [request : Requests', waitsFor : DOMAIN flights' \union {None}]
    BY <1>0, <2>1, <2>3 DEF ClientTypes
  <2> QED
    BY <1>0, <1>1, <2>1, <2>2, <2>4 DEF ClientTypes
<1>3. ASSUME NEW c \in Clients, DoFlight(c) PROVE ClientTypes'
  <2>1. /\ asks[c] # None /\ pools' = pools
        /\ asks[c] \in [request : Requests, waitsFor : DOMAIN flights \union {None}]
    BY <1>3 DEF DoFlight, ClientTypes
  <2>2. ASSUME NEW l \in DOMAIN flights', asks' = [asks EXCEPT ![c].waitsFor = l],
               DOMAIN flights \subseteq DOMAIN flights', DOMAIN flights' \subseteq Clients,
               \A d \in DOMAIN flights' : flights'[d].request \in Requests /\ flights'[d].ids \in SUBSET Events
        PROVE  ClientTypes'
    <3>1. DOMAIN asks' = Clients
      BY <2>2 DEF ClientTypes
    <3>2. \A d \in Clients : asks'[d] = IF d = c THEN [asks[c] EXCEPT !.waitsFor = l] ELSE asks[d]
      BY <2>2 DEF ClientTypes
    <3>3. [asks[c] EXCEPT !.waitsFor = l] \in [request : Requests, waitsFor : DOMAIN flights' \union {None}]
      BY <2>1
    <3>4. \A d \in Clients : asks'[d] # None =>
              asks'[d] \in [request : Requests', waitsFor : DOMAIN flights' \union {None}]
      <4> SUFFICES ASSUME NEW d \in Clients, asks'[d] # None
                   PROVE  asks'[d] \in [request : Requests, waitsFor : DOMAIN flights' \union {None}]
        BY <1>0
      <4>1. CASE d = c
        BY <3>2, <3>3, <4>1
      <4>2. CASE d # c
        <5>1. asks'[d] = asks[d]
          BY <3>2, <4>2
        <5>2. asks[d] \in [request : Requests, waitsFor : DOMAIN flights \union {None}]
          BY <5>1 DEF ClientTypes
        <5> QED
          BY <2>2, <5>1, <5>2
      <4> QED
        BY <4>1, <4>2
    <3> QED
      BY <1>0, <1>1, <2>1, <2>2, <3>1, <3>4 DEF ClientTypes
  <2>3. CASE \E l \in Under(PoolKey(asks[c].request)) : asks' = [asks EXCEPT ![c].waitsFor = l] /\ UNCHANGED flights
    BY <2>2, <2>3 DEF Under, ClientTypes
  <2>4. CASE /\ \E ids \in PoolIds(asks[c].request) :
                  flights' = Put(flights, {c}, LAMBDA x : [request |-> asks[c].request, ids |-> ids, asOf |-> Arrived])
             /\ asks' = [asks EXCEPT ![c].waitsFor = c]
    <3>1. PICK ids \in PoolIds(asks[c].request) :
              flights' = [x \in DOMAIN flights \union {c} |->
                              IF x \in {c} THEN [request |-> asks[c].request, ids |-> ids, asOf |-> Arrived]
                              ELSE flights[x]]
      BY <2>4 DEF Put
    <3>2. DOMAIN flights' = DOMAIN flights \union {c} /\ DOMAIN flights \subseteq Clients
      BY <3>1 DEF ClientTypes
    <3>3. ids \in SUBSET Events
      <4>1. DOMAIN RowCounts(asks[c].request) \in SUBSET Events
        BY <1>0, CountsAreNumbers
      <4>2. ids \in SUBSET DOMAIN RowCounts(asks[c].request)
        BY <3>1 DEF PoolIds, TopGroups
      <4> QED
        BY <4>1, <4>2
    <3>4. \A d \in DOMAIN flights' : flights'[d].request \in Requests /\ flights'[d].ids \in SUBSET Events
      <4>1. asks[c].request \in Requests
        BY <2>1
      <4>2. \A d \in DOMAIN flights' : d # c => d \in DOMAIN flights /\ flights'[d] = flights[d]
        BY <3>1
      <4>3. flights'[c].request = asks[c].request /\ flights'[c].ids = ids
        BY <3>1
      <4> QED
        BY <3>3, <4>1, <4>2, <4>3 DEF ClientTypes
    <3> QED
      BY <2>2, <2>4, <3>2, <3>4
  <2> QED
    BY <1>3, <2>3, <2>4 DEF DoFlight
<1>4. ASSUME NEW c \in Clients, Over(c), c \in DOMAIN flights,
             \A k \in DOMAIN pools' : pools'[k].pool.events \subseteq stored
      PROVE  ClientTypes'
  <2>1. DOMAIN flights' = DOMAIN flights \ {c} /\ \A d \in DOMAIN flights' : flights'[d] = flights[d]
    BY <1>4, OverLeaves
  <2>2. asks' = [d \in Clients |-> IF asks[d] # None /\ asks[d].waitsFor = c THEN None ELSE asks[d]]
    BY <1>4 DEF Over
  <2>3. \A d \in Clients : asks'[d] # None =>
            asks'[d] \in [request : Requests', waitsFor : DOMAIN flights' \union {None}]
    <3> SUFFICES ASSUME NEW d \in Clients, asks'[d] # None
                 PROVE  asks'[d] \in [request : Requests, waitsFor : DOMAIN flights' \union {None}]
      BY <1>0
    <3>1. asks'[d] = asks[d] /\ asks[d] # None /\ asks[d].waitsFor # c
      BY <2>2
    <3>2. asks[d] \in [request : Requests, waitsFor : DOMAIN flights \union {None}]
      BY <3>1 DEF ClientTypes
    <3> QED
      BY <2>1, <3>1, <3>2
  <2> QED
    BY <1>0, <1>1, <1>4, <2>1, <2>2, <2>3 DEF ClientTypes
<1>5. ASSUME NEW c \in Clients, FlightFails(c) PROVE ClientTypes'
  BY <1>4, <1>5 DEF FlightFails, ClientTypes
<1>6. ASSUME NEW c \in Clients, FlightEnds(c) PROVE ClientTypes'
  <2>1. PoolPut(c)
    BY <1>6, PoolsAfter
  <2>2. PoolOf(flights[c].request, flights[c].ids).events \subseteq stored
    <3> DEFINE r == flights[c].request
               ids == flights[c].ids
    <3>1. c \in DOMAIN flights /\ r \in Requests /\ ids \in SUBSET Events
      BY <2>1 DEF PoolPut, ClientTypes
    <3>2. PoolOf(r, ids).events = Elems(TargetEvents(r, ids))
      BY DEF PoolOf
    <3>3. Cardinality(ids) \in Nat
      BY <3>1, FS_Subset, FS_CardinalityType, EventsAssumption
    <3>4. r.target \in Filters
      <4>1. r \in Rankings
        BY <1>0, <3>1, RequestsAreParsed
      <4> QED
        BY <4>1 DEF Rankings
    <3> HIDE DEF r, ids
    <3> DEFINE q == [r.target EXCEPT !.ids = ids, !.limit = Cardinality(ids)]
    <3>5. q.offset \in Nat /\ q.limit = Cardinality(ids)
      BY <3>4 DEF Filters
    <3>6. TargetEvents(r, ids) = IF ids = {} THEN <<>> ELSE QueryEvents(q)
      BY DEF TargetEvents
    <3> HIDE DEF q
    <3>7. Elems(QueryEvents(q)) \subseteq stored
      BY <1>0, <3>3, <3>5, ResultsAreStored
    <3>8. Elems(<<>>) = {}
      BY DEF Elems
    <3>9. Elems(TargetEvents(r, ids)) \subseteq stored
      BY <3>6, <3>7, <3>8
    <3> QED
      BY <3>2, <3>9 DEF r, ids
  <2>3. \A k \in DOMAIN pools' : pools'[k].pool.events \subseteq stored
    <3> SUFFICES ASSUME NEW k \in DOMAIN pools' PROVE pools'[k].pool.events \subseteq stored
      OBVIOUS
    <3>1. CASE k = KeyOf(c)
      <4>1. pools'[k].pool = PoolOf(flights[c].request, flights[c].ids)
        BY <2>1, <3>1 DEF PoolPut
      <4> QED
        BY <2>2, <4>1
    <3>2. CASE k # KeyOf(c)
      BY <2>1, <3>2 DEF PoolPut, ClientTypes
    <3> QED
      BY <3>1, <3>2
  <2> QED
    BY <1>4, <1>6, <2>3 DEF FlightEnds
<1>7. ASSUME NEW k \in DOMAIN pools, Expire(k) PROVE ClientTypes'
  <2>1. UNCHANGED <<flights, asks>> /\ pools' = [pools EXCEPT ![k].fresh = FALSE]
    BY <1>7 DEF Expire
  <2>2. \A x \in DOMAIN pools' : x \in DOMAIN pools /\ pools'[x].pool = pools[x].pool
    <3>1. pools[k] = [pool |-> pools[k].pool, asOf |-> pools[k].asOf, fresh |-> pools[k].fresh]
      BY DEF PoolInv
    <3>2. \A x \in DOMAIN pools' : x \in DOMAIN pools
              /\ pools'[x] = IF x = k THEN [pools[k] EXCEPT !.fresh = FALSE] ELSE pools[x]
      BY <2>1
    <3> QED
      BY <3>1, <3>2
  <2> QED
    BY <1>0, <1>1, <2>1, <2>2 DEF ClientTypes
<1> QED
  BY <1>2, <1>3, <1>5, <1>6, <1>7 DEF Ask

\* Every step keeps the types.
LEMMA ClientsNext ==
    ASSUME TableTypes, TableTypes', ClientTypes, PoolInv, [Next]_vars
    PROVE  ClientTypes'
<1>1. CASE Arrive
  <2>1. /\ UNCHANGED <<mode, scroll, noted, pools, flights, asks>> /\ stored \subseteq stored'
        /\ \A v \in Users : noted[v] = <<>>
    BY <1>1, ArriveGrows DEF Arrive, Grown, ranked
  <2>2. \A v \in Users : DOMAIN noted'[v] = {}
    BY <2>1
  <2>3. Requests' = Requests /\ Times' = Times
    BY <2>1 DEF Requests, Times, Here
  <2> QED
    BY <2>1, <2>2, <2>3 DEF ClientTypes
<1>2. CASE FillFeed
  <2>1. noted' = Filled /\ UNCHANGED <<mode, scroll, stored, copies, pools, flights, asks>>
    BY <1>2 DEF FillFeed, ranked
  <2>2. ASSUME NEW v \in Users PROVE DOMAIN noted'[v] \subseteq Candidates(v)
    <3>1. noted'[v] = Put(noted[v], Candidates(v), LAMBDA e : Facts(v, e))
      BY <2>1 DEF Filled
    <3>2. DOMAIN noted'[v] = DOMAIN noted[v] \union Candidates(v)
      BY <3>1 DEF Put
    <3> QED
      BY <3>2 DEF ClientTypes
  <2>3. Requests' = Requests /\ Times' = Times /\ \A v : Candidates(v)' = Candidates(v)
    BY <2>1 DEF Requests, Times, Here, Candidates, Tagged
  <2> QED
    BY <2>1, <2>2, <2>3 DEF ClientTypes
<1>3. CASE ScrollEvents \/ ScrollNotices
  <2>1. UNCHANGED <<mode, stored, copies, noted, pools, flights, asks>>
    BY <1>3 DEF ScrollEvents, ScrollNotices, ranked
  <2>2. Requests' = Requests /\ Times' = Times /\ \A v : Candidates(v)' = Candidates(v)
    BY <2>1 DEF Requests, Times, Here, Candidates, Tagged
  <2>3. scroll.until \in Nat
    BY TimesAreNumbers DEF ClientTypes
  <2>4. scroll'.state \in {"new", "on", "done"} /\ scroll'.until \in Times
    <3>1. CASE ScrollEvents
      <4>1. PICK kind \in EventScrolls :
                \E page \in {EventPage(kind, scroll.until, scroll.cursor)} :
                    /\ scroll'.state = (IF page.next = 0 THEN "done" ELSE "on") /\ scroll'.until = page.next
        BY <3>1 DEF ScrollEvents
      <4>2. scroll'.until = EventPage(kind, scroll.until, scroll.cursor).next
        BY <4>1
      <4>3. scroll'.until \in Times
        BY <2>3, <4>2, PagesEndInTime
      <4> QED
        BY <4>1, <4>3
    <3>2. CASE ScrollNotices
      <4>1. /\ scroll'.state \in {"on", "done"}
            /\ scroll'.until = EndCursor(GroupedPage(Request(Viewer, "RELAXED", "NONE", scroll.until, Here.limit)))
        BY <3>2 DEF ScrollNotices
      <4> QED
        BY <2>3, <4>1, GroupsEndInTime
    <3> QED
      BY <1>3, <3>1, <3>2
  <2> QED
    BY <2>1, <2>2, <2>4 DEF ClientTypes
<1>4. CASE AskRanked
  BY <1>4, AsksKeepTypes DEF AskRanked
<1>5. CASE UNCHANGED <<mode, scroll, stored, copies, noted, pools, flights, asks>>
  <2>1. Requests' = Requests /\ Times' = Times /\ \A v : Candidates(v)' = Candidates(v)
    BY <1>5 DEF Requests, Times, Here, Candidates, Tagged
  <2> QED
    BY <1>5, <2>1 DEF ClientTypes
<1>6. \/ Arrive \/ FillFeed \/ ScrollEvents \/ ScrollNotices \/ AskRanked
      \/ UNCHANGED <<mode, scroll, stored, copies, noted, pools, flights, asks>>
  BY DEF Next, vars, Rolls, Rolling, ranked
<1> QED
  BY <1>1, <1>2, <1>3, <1>4, <1>5, <1>6

\* At first there are no clients, pools or rows of the read-model.
LEMMA ClientsInit == Init => ClientTypes
<1> SUFFICES ASSUME Init PROVE ClientTypes
  OBVIOUS
<1>1. scroll.state = "new" /\ scroll.until = 0
  BY NotScrolled DEF Init
<1>2. \A v \in Users : DOMAIN noted[v] = {}
  BY DEF Init
<1>3. DOMAIN asks = Clients /\ \A c \in Clients : asks[c] = None
  BY DEF Init
<1>4. DOMAIN flights = {} /\ DOMAIN pools = {}
  BY DEF Init
<1> QED
  BY <1>1, <1>2, <1>3, <1>4 DEF ClientTypes, Times

\* The tables, the rollup, the client's page, the read-model and the pools keep their
\* types; nobody waits for a computation that is over (basePoolCache.getOrCompute).
THEOREM ReadsTypes == Spec => []TypeOK
<1>1. Init => PoolInv /\ ClientTypes
  BY PoolsInit, ClientsInit
<1>2. TableTypes /\ TableTypes' /\ PoolInv /\ ClientTypes /\ [Next]_vars => PoolInv' /\ ClientTypes'
  BY PoolsNext, ClientsNext
<1>3. TableTypes /\ ClientTypes => TypeOK
  <2> SUFFICES ASSUME TableTypes, ClientTypes PROVE TypeOK
    OBVIOUS
  <2>1. \A n \in DOMAIN real : DOMAIN real[n] = DOMAIN NoReal
    BY DEF TableTypes, RealRow, NoReal
  <2>2. tick.stage \in {"idle", "edges", "counts", "real", "stats", "features", "save"}
    BY DEF TableTypes, Stages
  <2>3. \A c \in Clients : asks[c] # None =>
            asks[c].request \in Requests /\ asks[c].waitsFor \in DOMAIN flights \union {None}
    BY DEF ClientTypes
  <2> QED
    BY <2>1, <2>2, <2>3 DEF TypeOK, TableTypes, ClientTypes
<1> QED
  BY <1>1, <1>2, <1>3, ReadTables, PTL DEF Spec

-----------------------------------------------------------------------------
(* What actors with a score did is part of what was done *)

\* The columns of a that count actors with a score are within those of b.
Within(a, b) == a.likes <= b.likes /\ a.reposts <= b.reposts /\ a.quotes <= b.quotes /\ a.zaps <= b.zaps

\* Columns that can be compared.
Counted4(a) == a.likes \in Nat /\ a.reposts \in Nat /\ a.quotes \in Nat /\ a.zaps \in Nat

\* What holds between ticks: rows of the engagement were right once, and since then only
\* more was done; a feature row has both from one moment.
RealInv ==
    /\ \A n \in DOMAIN real : Within(real[n], Raw(n))
    /\ \A n \in DOMAIN features : Counted4(features[n].raw) /\ Within(features[n].real, features[n].raw)

\* Columns that are within each other one after the other.
LEMMA WithinWithin ==
    ASSUME NEW a, NEW b, NEW c, Counted4(a), Counted4(b), Counted4(c), Within(a, b), Within(b, c)
    PROVE  Within(a, c)
  BY DEF Within, Counted4

\* There are as many actors as events or fewer, and of those with a score fewer still.
LEMMA FewerActors ==
    ASSUME NEW S \in SUBSET Events, NEW n
    PROVE  /\ Cardinality(S) \in Nat /\ Cardinality(AuthorsOf(S)) \in Nat
           /\ Cardinality(AuthorsOf(S) \intersect Scored) \in Nat /\ Cardinality(RealActors(S, n)) \in Nat
           /\ Cardinality(AuthorsOf(S)) <= Cardinality(S)
           /\ Cardinality(AuthorsOf(S) \intersect Scored) <= Cardinality(AuthorsOf(S))
           /\ Cardinality(RealActors(S, n)) <= Cardinality(AuthorsOf(S))
<1>1. IsFiniteSet(S) /\ Cardinality(S) \in Nat
  BY FS_Subset, FS_CardinalityType, EventsAssumption
<1>2. AuthorsOf(S) \in SUBSET Users /\ Cardinality(RealActors(S, n)) \in Nat
  BY ActorsCount
<1>3. IsFiniteSet(AuthorsOf(S)) /\ Cardinality(AuthorsOf(S)) \in Nat
  BY <1>2, FS_Subset, FS_CardinalityType, EventsAssumption
<1>4. [e \in S |-> Author[e]] \in Surjection(S, AuthorsOf(S))
  BY DEF AuthorsOf, Surjection
<1>5. Cardinality(AuthorsOf(S)) <= Cardinality(S)
  BY <1>1, <1>4, FS_Surjection
<1>6. AuthorsOf(S) \intersect Scored \in SUBSET AuthorsOf(S) /\ RealActors(S, n) \in SUBSET AuthorsOf(S)
  BY DEF RealActors
<1>7. Cardinality(AuthorsOf(S) \intersect Scored) <= Cardinality(AuthorsOf(S))
      /\ IsFiniteSet(AuthorsOf(S) \intersect Scored)
  BY <1>3, <1>6, FS_Subset
<1>8. Cardinality(RealActors(S, n)) <= Cardinality(AuthorsOf(S))
  BY <1>3, <1>6, FS_Subset
<1>9. Cardinality(AuthorsOf(S) \intersect Scored) \in Nat
  BY <1>7, FS_CardinalityType
<1> QED
  BY <1>1, <1>2, <1>3, <1>5, <1>7, <1>8, <1>9

\* The events that the columns of a note are counted from.
LEMMA ActsAreEvents ==
    ASSUME stored \in SUBSET Events, NEW n
    PROVE  (\A K, key : Referrers(n, K, key) \in SUBSET Events) /\ ZapsOf(n) \in SUBSET Events
  BY DEF Referrers, ZapsOf

\* The engagement that is computed for a note is within its counts.
LEMMA RealIsWithin ==
    ASSUME TableTypes, NEW n
    PROVE  Within(Real(n), Raw(n)) /\ Counted4(Raw(n))
<1> DEFINE L == Referrers(n, {7}, "e")
           R == Referrers(n, {6, 16}, "e")
           Q == Referrers(n, {1}, "q")
           Z == ZapsOf(n)
<1>1. L \in SUBSET Events /\ R \in SUBSET Events /\ Q \in SUBSET Events /\ Z \in SUBSET Events
  BY StoredAreEvents, ActsAreEvents
<1>2. /\ Raw(n).likes = Cardinality(AuthorsOf(L)) /\ Raw(n).reposts = Cardinality(AuthorsOf(R))
      /\ Raw(n).quotes = Cardinality(Q) /\ Raw(n).zaps = Cardinality(Z)
  BY DEF Raw, Likes
<1>3. /\ Real(n).likes = Cardinality(RealActors(L, n)) /\ Real(n).reposts = Cardinality(RealActors(R, n))
      /\ Real(n).quotes = Cardinality(RealActors(Q, n))
      /\ Real(n).zaps = Cardinality(AuthorsOf(Z) \intersect Scored)
  BY DEF Real
<1> HIDE DEF L, R, Q, Z
<1>4. /\ Cardinality(AuthorsOf(L)) \in Nat /\ Cardinality(AuthorsOf(R)) \in Nat
      /\ Cardinality(Q) \in Nat /\ Cardinality(Z) \in Nat
  BY <1>1, FewerActors
<1>5. Cardinality(RealActors(L, n)) <= Cardinality(AuthorsOf(L))
  BY <1>1, FewerActors
<1>6. Cardinality(RealActors(R, n)) <= Cardinality(AuthorsOf(R))
  BY <1>1, FewerActors
<1>7. Cardinality(RealActors(Q, n)) <= Cardinality(Q)
  <2>1. /\ Cardinality(RealActors(Q, n)) \in Nat /\ Cardinality(AuthorsOf(Q)) \in Nat /\ Cardinality(Q) \in Nat
        /\ Cardinality(RealActors(Q, n)) <= Cardinality(AuthorsOf(Q))
        /\ Cardinality(AuthorsOf(Q)) <= Cardinality(Q)
    BY <1>1, FewerActors
  <2> QED
    BY <2>1
<1>8. Cardinality(AuthorsOf(Z) \intersect Scored) <= Cardinality(Z)
  <2>1. /\ Cardinality(AuthorsOf(Z) \intersect Scored) \in Nat /\ Cardinality(AuthorsOf(Z)) \in Nat
        /\ Cardinality(Z) \in Nat
        /\ Cardinality(AuthorsOf(Z) \intersect Scored) <= Cardinality(AuthorsOf(Z))
        /\ Cardinality(AuthorsOf(Z)) <= Cardinality(Z)
    BY <1>1, FewerActors
  <2> QED
    BY <2>1
<1>9. Counted4(Raw(n))
  BY <1>2, <1>4 DEF Counted4
<1> QED
  BY <1>2, <1>3, <1>5, <1>6, <1>7, <1>8, <1>9 DEF Within

\* What was done to a note stays done.
LEMMA RawGrows ==
    ASSUME TableTypes, TableTypes', stored \subseteq stored', \A e \in stored : copies'[e] >= copies[e], NEW n
    PROVE  Within(Raw(n), Raw(n)') /\ Counted4(Raw(n)')
<1>1. \A e \in stored : \A key : Tagged(e, key) \subseteq Tagged(e, key)' /\ (copies[e] > 0 => copies'[e] > 0)
  <2> SUFFICES ASSUME NEW e \in stored, NEW key
               PROVE  Tagged(e, key) \subseteq Tagged(e, key)' /\ (copies[e] > 0 => copies'[e] > 0)
    OBVIOUS
  <2>1. copies[e] \in Nat /\ copies'[e] \in Nat /\ copies'[e] >= copies[e]
    BY DEF TableTypes
  <2>2. (copies'[e] = 0 => copies[e] = 0) /\ (copies[e] > 0 => copies'[e] > 0)
    BY <2>1
  <2>3. Tagged(e, key) = IF copies[e] = 0 THEN {} ELSE TagValues(e, key)
    BY DEF Tagged
  <2>4. Tagged(e, key)' = IF copies'[e] = 0 THEN {} ELSE TagValues(e, key)
    BY DEF Tagged
  <2> QED
    BY <2>2, <2>3, <2>4
<1>2. \A K, key : Referrers(n, K, key) \subseteq Referrers(n, K, key)'
  BY <1>1 DEF Referrers
<1>3. ZapsOf(n) \subseteq ZapsOf(n)'
  BY <1>1 DEF ZapsOf, FirstETag
<1>4. (\A K, key : Referrers(n, K, key)' \in SUBSET Events) /\ ZapsOf(n)' \in SUBSET Events
  <2>1. stored' \in SUBSET Events
    BY DeployAssumption DEF TableTypes, Here
  <2> QED
    BY <2>1 DEF Referrers, ZapsOf
<1>5. \A T \in SUBSET Events : \A S \in SUBSET T :
          /\ Cardinality(S) <= Cardinality(T) /\ Cardinality(AuthorsOf(S)) <= Cardinality(AuthorsOf(T))
          /\ Cardinality(T) \in Nat /\ Cardinality(AuthorsOf(T)) \in Nat
  <2> SUFFICES ASSUME NEW T \in SUBSET Events, NEW S \in SUBSET T
               PROVE  /\ Cardinality(S) <= Cardinality(T) /\ Cardinality(AuthorsOf(S)) <= Cardinality(AuthorsOf(T))
                      /\ Cardinality(T) \in Nat /\ Cardinality(AuthorsOf(T)) \in Nat
    OBVIOUS
  <2>1. IsFiniteSet(T) /\ Cardinality(T) \in Nat
    BY FS_Subset, FS_CardinalityType, EventsAssumption
  <2>2. AuthorsOf(T) \in SUBSET Users /\ AuthorsOf(S) \in SUBSET AuthorsOf(T)
    BY EventsAssumption DEF AuthorsOf
  <2>3. IsFiniteSet(AuthorsOf(T)) /\ Cardinality(AuthorsOf(T)) \in Nat
    BY <2>2, FS_Subset, FS_CardinalityType, EventsAssumption
  <2>4. Cardinality(S) <= Cardinality(T)
    BY <2>1, FS_Subset
  <2>5. Cardinality(AuthorsOf(S)) <= Cardinality(AuthorsOf(T))
    BY <2>2, <2>3, FS_Subset
  <2> QED
    BY <2>1, <2>3, <2>4, <2>5
<1>6. PICK l, l1, r, r1, q, q1, z, z1 :
          /\ l = Referrers(n, {7}, "e") /\ l1 = Referrers(n, {7}, "e")'
          /\ r = Referrers(n, {6, 16}, "e") /\ r1 = Referrers(n, {6, 16}, "e")'
          /\ q = Referrers(n, {1}, "q") /\ q1 = Referrers(n, {1}, "q")'
          /\ z = ZapsOf(n) /\ z1 = ZapsOf(n)'
  OBVIOUS
<1>7. /\ l \in SUBSET l1 /\ r \in SUBSET r1 /\ q \in SUBSET q1 /\ z \in SUBSET z1
      /\ l1 \in SUBSET Events /\ r1 \in SUBSET Events /\ q1 \in SUBSET Events /\ z1 \in SUBSET Events
  BY <1>2, <1>3, <1>4, <1>6
<1>8. /\ Raw(n).likes = Cardinality(AuthorsOf(l)) /\ Raw(n).reposts = Cardinality(AuthorsOf(r))
      /\ Raw(n).quotes = Cardinality(q) /\ Raw(n).zaps = Cardinality(z)
  BY <1>6 DEF Raw, Likes
<1>9. /\ Raw(n)'.likes = Cardinality(AuthorsOf(l1)) /\ Raw(n)'.reposts = Cardinality(AuthorsOf(r1))
      /\ Raw(n)'.quotes = Cardinality(q1) /\ Raw(n)'.zaps = Cardinality(z1)
  BY <1>6 DEF Raw, Likes, AuthorsOf
<1>10. Within(Raw(n), Raw(n)')
  BY <1>5, <1>7, <1>8, <1>9 DEF Within
<1>11. Counted4(Raw(n)')
  BY <1>5, <1>7, <1>9 DEF Counted4
<1> QED
  BY <1>10, <1>11

\* A row's real engagement can be compared.
LEMMA RealIsCounted ==
    ASSUME TableTypes
    PROVE  \A n \in DOMAIN real : Counted4(real[n])
  BY DEF TableTypes, RealRow, Counted4

\* What the last row of a note has, or no row, is within its counts.
LEMMA RowIsWithin ==
    ASSUME TableTypes, RealInv, NEW n
    PROVE  Within(RealOf(n), Raw(n))
<1>1. CASE n \in DOMAIN real
  BY <1>1 DEF RealOf, RealInv
<1>2. CASE n \notin DOMAIN real
  <2>1. RealOf(n) = NoReal /\ Counted4(Raw(n))
    BY <1>2, RealIsWithin DEF RealOf
  <2> QED
    BY <2>1 DEF NoReal, Within, Counted4
<1> QED
  BY <1>1, <1>2

\* Every step keeps the rows within the counts.
LEMMA RealNext ==
    ASSUME TableTypes, TableTypes', RealInv, [Next]_vars
    PROVE  RealInv'
<1>0. stored \subseteq stored' /\ \A e \in stored : copies'[e] >= copies[e]
  <2>1. CASE Arrive
    BY <2>1, ArriveGrows DEF Grown
  <2>2. CASE UNCHANGED <<stored, copies>>
    <3>1. \A e \in stored : copies[e] \in Nat
      BY DEF TableTypes
    <3> QED
      BY <2>2, <3>1
  <2> QED
    BY <2>1, <2>2, StepKinds
<1>1. \A n : Within(Raw(n), Raw(n)') /\ Counted4(Raw(n)') /\ Counted4(Raw(n))
  BY <1>0, RawGrows, RealIsWithin
<1>2. \A n \in DOMAIN real : Within(real[n], Raw(n)')
  <2> SUFFICES ASSUME NEW n \in DOMAIN real PROVE Within(real[n], Raw(n)')
    OBVIOUS
  <2>1. Counted4(real[n]) /\ Within(real[n], Raw(n))
    BY RealIsCounted DEF RealInv
  <2> QED
    BY <1>1, <2>1, WithinWithin
<1>3. CASE RecomputeEngagementReal
  <2>1. features' = features
    BY <1>3 DEF RecomputeEngagementReal
  <2> DEFINE S == EngagedNotes(tick.since) \intersect stored
  <2>2. real' = [n \in DOMAIN real \union S |-> IF n \in S THEN Real(n) ELSE real[n]]
    BY <1>3 DEF RecomputeEngagementReal, Put
  <2> HIDE DEF S
  <2>3. ASSUME NEW n \in DOMAIN real' PROVE Within(real'[n], Raw(n)')
    <3>1. n \in DOMAIN real \union S
      BY <2>2
    <3>2. CASE n \in S
      <4>1. real'[n] = Real(n)
        BY <2>2, <3>1, <3>2
      <4>2. Within(Real(n), Raw(n))
        BY RealIsWithin
      <4>3. Counted4(Real(n))
        BY RealIsRow DEF RealRow, Counted4
      <4>4. Within(Real(n), Raw(n)')
        BY <1>1, <4>2, <4>3, WithinWithin
      <4> QED
        BY <4>1, <4>4
    <3>3. CASE n \notin S
      <4>1. real'[n] = real[n] /\ n \in DOMAIN real
        BY <2>2, <3>1, <3>3
      <4> QED
        BY <1>2, <4>1
    <3> QED
      BY <3>2, <3>3
  <2> QED
    BY <2>1, <2>3 DEF RealInv
<1>4. CASE RecomputeRankFeatures
  <2>1. real' = real
    BY <1>4 DEF RecomputeRankFeatures
  <2> DEFINE S == EngagedNotes(tick.since) \intersect stored
             row(n) == [raw |-> Raw(n), real |-> RealOf(n), score |-> Score[Author[n]]]
  <2>2. features' = [n \in DOMAIN features \union S |-> IF n \in S THEN row(n) ELSE features[n]]
    BY <1>4 DEF RecomputeRankFeatures, Put
  <2> HIDE DEF S
  <2>3. ASSUME NEW n \in DOMAIN features'
        PROVE  Counted4(features'[n].raw) /\ Within(features'[n].real, features'[n].raw)
    <3>1. n \in DOMAIN features \union S
      BY <2>2
    <3>2. CASE n \in S
      <4>1. features'[n] = row(n)
        BY <2>2, <3>1, <3>2
      <4>2. features'[n].raw = Raw(n) /\ features'[n].real = RealOf(n)
        BY <4>1
      <4> QED
        BY <1>1, <4>2, RowIsWithin
    <3>3. CASE n \notin S
      <4>1. features'[n] = features[n] /\ n \in DOMAIN features
        BY <2>2, <3>1, <3>3
      <4> QED
        BY <4>1 DEF RealInv
    <3> QED
      BY <3>2, <3>3
  <2> QED
    BY <1>2, <2>1, <2>3 DEF RealInv
<1>5. CASE real' = real /\ features' = features
  BY <1>2, <1>5 DEF RealInv
<1>6. RecomputeEngagementReal \/ RecomputeRankFeatures \/ (real' = real /\ features' = features)
  BY StepKinds DEF Arrive, Begin, TickEnds, Stage, RecomputeEdges, RecomputeCounts, RecomputeUserStats,
                   SaveRollupState, derived
<1> QED
  BY <1>3, <1>4, <1>5, <1>6

\* No statistics and no feature row say that more actors with a score did something than
\* did it at all, whatever arrived between the statements that wrote them
\* (buildEngagementRealSQL, buildRankFeaturesSQL, NoteStats).
THEOREM ReadsRealWithinRaw == Spec => []RealWithinRaw
<1>1. Init => RealInv
  BY DEF Init, RealInv
<1>2. TableTypes /\ RealInv => RealWithinRaw
  <2> SUFFICES ASSUME TableTypes, RealInv, NEW n \in stored,
                      NEW what \in {"likes", "reposts", "quotes", "zaps"}
               PROVE  /\ NoteStats(n).real[what] <= NoteStats(n).raw[what]
                      /\ n \in DOMAIN features => features[n].real[what] <= features[n].raw[what]
    BY DEF RealWithinRaw
  <2>1. NoteStats(n).real = RealOf(n) /\ NoteStats(n).raw = Raw(n)
    BY DEF NoteStats
  <2>2. Within(RealOf(n), Raw(n))
    BY RowIsWithin
  <2>3. RealOf(n)[what] <= Raw(n)[what]
    BY <2>2 DEF Within
  <2>4. n \in DOMAIN features => features[n].real[what] <= features[n].raw[what]
    BY DEF RealInv, Within
  <2> QED
    BY <2>1, <2>3, <2>4
<1> QED
  BY <1>1, <1>2, ReadTables, RealNext, PTL DEF Spec

-----------------------------------------------------------------------------
(* The counts of followers *)

\* After a tick's statistics, when nothing came since it began: each of the touched with a
\* contact list has the row that the lists give him.
FollowInv ==
    tick.stage \in {"features", "save"} /\ tick.snap = stored
        /\ Cardinality(Touched(tick.since)) <= MaxTargets =>
        \A u \in Touched(tick.since) :
            HasContacts(u) => stats[u] # None /\ stats[u].followers = Cardinality(FollowerSet(u))

\* A batch of the touched is all of them when they are few.
LEMMA FewAreTouched ==
    ASSUME TableTypes, Cardinality(Touched(tick.since)) <= MaxTargets,
           NEW T \in TouchedBatches(tick.since, MaxTargets)
    PROVE  T = Touched(tick.since)
<1> DEFINE A == Touched(tick.since)
<1>1. A \in SUBSET Users
  BY DEF Touched
<1>2. IsFiniteSet(A) /\ Cardinality(A) \in Nat
  BY <1>1, FS_Subset, FS_CardinalityType, EventsAssumption
<1>3. T \in SUBSET A /\ Cardinality(T) = Least(MaxTargets, Cardinality(A))
  BY DEF TouchedBatches
<1>4. Cardinality(A) <= MaxTargets
  OBVIOUS
<1> HIDE DEF A
<1>5. Least(MaxTargets, Cardinality(A)) = Cardinality(A)
  BY <1>2, <1>4, RollupAssumption DEF Least
<1>6. T = A
  BY <1>2, <1>3, <1>5, FS_Subset
<1> QED
  BY <1>6 DEF A

\* Of some events one is the latest.
LEMMA LatestExists ==
    ASSUME NEW S \in SUBSET Events, S # {}
    PROVE  \E e \in S : \A f \in S : At[e] >= At[f]
<1>1. PICK t \in {At[e] : e \in S} : \A e \in S : t >= At[e]
  BY LastTime
<1> QED
  BY <1>1

\* Whom one follows and who follows one are users.
LEMMA ContactsAreUsers ==
    ASSUME TableTypes, NEW u
    PROVE  /\ LatestContacts(u) \in SUBSET Users /\ FollowerSet(u) \in SUBSET Users
           /\ Cardinality(LatestContacts(u)) \in Nat /\ Cardinality(FollowerSet(u)) \in Nat
<1>1. stored \in SUBSET Events
  BY StoredAreEvents
<1> DEFINE S == {e \in stored : Author[e] = u /\ Kind[e] = Contacts}
<1>2. S # {} => \E e \in S : \A f \in S : At[e] >= At[f]
  BY <1>1, LatestExists
<1>3. LatestContacts(u) \in SUBSET Users
  <2>1. CASE S = {}
    BY <2>1 DEF LatestContacts
  <2>2. CASE S # {}
    <3>1. PICK e : e = CHOOSE x \in S : \A f \in S : At[x] >= At[f]
      OBVIOUS
    <3>2. e \in S
      BY <1>2, <2>2, <3>1
    <3>3. LatestContacts(u) = PTags[e]
      BY <2>2, <3>1 DEF LatestContacts
    <3> QED
      BY <1>1, <3>2, <3>3, EventsAssumption
  <2> QED
    BY <2>1, <2>2
<1>4. FollowerSet(u) \in SUBSET Users
  BY DEF FollowerSet
<1> QED
  BY <1>3, <1>4, FS_Subset, FS_CardinalityType, EventsAssumption

\* Lists say the same as long as nothing arrives.
LEMMA ListsUnmoved ==
    ASSUME stored' = stored
    PROVE  /\ \A s : Touched(s)' = Touched(s)
           /\ \A u : HasContacts(u)' = HasContacts(u) /\ LatestContacts(u)' = LatestContacts(u)
                   /\ FollowerSet(u)' = FollowerSet(u)
<1>1. \A u : HasContacts(u)' = HasContacts(u) /\ LatestContacts(u)' = LatestContacts(u)
  BY DEF HasContacts, LatestContacts
<1>2. \A u : FollowerSet(u)' = FollowerSet(u)
  BY <1>1 DEF FollowerSet
<1>3. \A s : Touched(s)' = Touched(s)
  BY DEF Touched
<1> QED
  BY <1>1, <1>2, <1>3

\* Every step keeps the rows of a tick that nothing disturbed.
LEMMA FollowNext ==
    ASSUME TableTypes, TableTypes', FollowInv, [Next]_vars
    PROVE  FollowInv'
<1>1. CASE stored' = stored /\ stats' = stats /\ tick'.snap = tick.snap /\ tick'.since = tick.since
           /\ (tick'.stage \in {"features", "save"} => tick.stage \in {"features", "save"})
  <2>1. PICK T, T1 : T = Touched(tick.since) /\ T1 = Touched(tick.since)'
    OBVIOUS
  <2>2. T1 = T
    BY <1>1, <2>1 DEF Touched
  <2>3. \A u : HasContacts(u)' = HasContacts(u) /\ FollowerSet(u)' = FollowerSet(u)
    BY <1>1, ListsUnmoved
  <2> QED
    BY <1>1, <2>1, <2>2, <2>3 DEF FollowInv
<1>2. CASE Arrive
  <2>1. stored \subseteq stored' /\ tick' = tick /\ stats' = stats /\ tick.snap \subseteq stored
    BY <1>2, ArriveGrows DEF Grown, derived, TableTypes
  <2>2. CASE stored' = stored
    BY <1>1, <2>1, <2>2
  <2>3. CASE stored' # stored
    <3>1. tick'.snap # stored'
      BY <2>1, <2>3
    <3> QED
      BY <3>1 DEF FollowInv
  <2> QED
    BY <2>2, <2>3
<1>3. CASE UNCHANGED <<mode, stored, copies>> /\ (Begin \/ Stage \/ TickEnds)
  <2>0. stored' = stored
    BY <1>3
  <2>1. CASE tick'.stage \notin {"features", "save"}
    BY <2>1 DEF FollowInv
  <2>2. CASE RecomputeUserStats
    <3>1. tick'.since = tick.since /\ tick'.snap = tick.snap
      BY <2>2 DEF RecomputeUserStats, Finishes, TableTypes
    <3>2. PICK A, A1 : A = Touched(tick.since) /\ A1 = Touched(tick.since)'
      OBVIOUS
    <3>3. A1 = A
      BY <2>0, <3>1, <3>2 DEF Touched
    <3>4. \A u : HasContacts(u)' = HasContacts(u) /\ FollowerSet(u)' = FollowerSet(u)
      BY <2>0, ListsUnmoved
    <3>5. PICK T \in TouchedBatches(tick.since, MaxTargets) : stats' = UserStats(T)
      BY <2>2 DEF RecomputeUserStats
    <3>6. ASSUME Cardinality(A) <= MaxTargets, NEW u \in A, HasContacts(u)
          PROVE  stats'[u] # None /\ stats'[u].followers = Cardinality(FollowerSet(u))
      <4>1. T = A
        BY <3>2, <3>6, FewAreTouched
      <4>2. u \in Users
        BY <3>2 DEF Touched
      <4>3. stats'[u] = [following |-> Cardinality(LatestContacts(u)), followers |-> Cardinality(FollowerSet(u))]
        BY <3>5, <3>6, <4>1, <4>2 DEF UserStats
      <4>4. stats'[u].followers = Cardinality(FollowerSet(u))
        BY <4>3
      <4>5. Cardinality(LatestContacts(u)) \in Nat /\ Cardinality(FollowerSet(u)) \in Nat
        BY ContactsAreUsers
      <4>6. stats'[u] \in [following : Nat, followers : Nat]
        BY <4>3, <4>5
      <4> QED
        BY <4>4, <4>6, RowAssumption
    <3> QED
      BY <3>2, <3>3, <3>4, <3>6 DEF FollowInv
  <2>3. CASE tick'.stage \in {"features", "save"} /\ ~RecomputeUserStats
    <3>1. stats' = stats
      BY <1>3, <2>3 DEF Begin, Stage, TickEnds, RecomputeEdges, RecomputeCounts, RecomputeEngagementReal,
                        RecomputeRankFeatures, SaveRollupState
    <3>2. CASE RecomputeRankFeatures
      <4>1. tick.stage = "features" /\ tick'.since = tick.since /\ tick'.snap = tick.snap
        BY <3>2 DEF RecomputeRankFeatures, Finishes, TableTypes
      <4> QED
        BY <1>1, <2>0, <3>1, <4>1
    <3>3. ASSUME NEW s, Finishes(s) PROVE tick'.stage = StageAfter(s)
      BY <3>3 DEF Finishes, TableTypes
    <3>4. StageAfter("edges") = "counts" /\ StageAfter("counts") = "real" /\ StageAfter("real") = "stats"
          /\ StageAfter("save") = "idle"
      BY DEF StageAfter
    <3>5. ~(Begin \/ TickEnds)
      <4>1. tick \in [stage : Stages \union {"idle"}, since : Nat, snap : SUBSET stored]
        BY DEF TableTypes
      <4>2. ~Begin
        BY <2>3 DEF Begin
      <4>3. TickEnds => tick'.stage = "idle"
        BY <4>1 DEF TickEnds
      <4> QED
        BY <2>3, <4>2, <4>3
    <3>6. ~(RecomputeEdges \/ RecomputeCounts)
      BY <2>3, <3>3, <3>4 DEF RecomputeEdges, RecomputeCounts
    <3>7. ~(RecomputeEngagementReal \/ SaveRollupState)
      BY <2>3, <3>3, <3>4 DEF RecomputeEngagementReal, SaveRollupState
    <3>8. RecomputeRankFeatures
      BY <1>3, <2>3, <3>5, <3>6, <3>7 DEF Stage
    <3> QED
      BY <3>2, <3>8
  <2> QED
    BY <2>1, <2>2, <2>3
<1>4. CASE UNCHANGED <<mode, stored, copies, derived>>
  BY <1>1, <1>4 DEF derived
<1> QED
  BY <1>2, <1>3, <1>4, StepKinds

\* When nothing arrived during a tick that took in all who were touched, the counts that the
\* rollup keeps are those of the edges that the lists give (buildUserStatsSQL,
\* BatchFollowCounts, FollowEdges).
THEOREM ReadsFollowCountsAgree == Spec => []FollowCountsAgree
<1>1. Init => FollowInv
  BY DEF Init, Idle, FollowInv
<1>2. TableTypes /\ FollowInv => FollowCountsAgree
  <2> SUFFICES ASSUME TableTypes, FollowInv, tick.stage = "save", tick.snap = stored,
                      Cardinality(Touched(tick.since)) <= MaxTargets,
                      NEW u \in Touched(tick.since), HasContacts(u)
               PROVE  FollowCounts(u) =
                          [follows |-> Cardinality({c \in Users : FollowEdges(u, Users)[c].following}),
                           followers |-> Cardinality({c \in Users : FollowEdges(u, Users)[c].followsYou})]
    BY DEF FollowCountsAgree
  <2>1. stats[u] # None /\ stats[u].followers = Cardinality(FollowerSet(u))
    BY DEF FollowInv
  <2>2. FollowCounts(u) = [follows |-> Cardinality(LatestContacts(u)), followers |-> Cardinality(FollowerSet(u))]
    BY <2>1 DEF FollowCounts
  <2>3. \A c \in Users : FollowEdges(u, Users)[c].following = (c \in LatestContacts(u))
                        /\ FollowEdges(u, Users)[c].followsYou = (u \in LatestContacts(c))
    BY DEF FollowEdges
  <2>4. LatestContacts(u) \in SUBSET Users
    BY ContactsAreUsers
  <2>5. {c \in Users : FollowEdges(u, Users)[c].following} = LatestContacts(u)
    BY <2>3, <2>4
  <2>6. {c \in Users : FollowEdges(u, Users)[c].followsYou} = FollowerSet(u)
    BY <2>3 DEF FollowerSet
  <2> QED
    BY <2>2, <2>5, <2>6
<1> QED
  BY <1>1, <1>2, ReadTables, FollowNext, PTL DEF Spec

-----------------------------------------------------------------------------
(* The lists of a user *)

\* Some numbers have a least one.
LEMMA LeastNumber ==
    ASSUME NEW S, IsFiniteSet(S), S # {}, \A n \in S : n \in Int
    PROVE  \E n \in S : \A m \in S : n <= m
<1> DEFINE R == {x \in S \X S : x[1] < x[2]}
<1>2. \A e, f \in S : <<e, f>> \in R <=> e < f
  OBVIOUS
<1>3. Cardinality(S) \in Nat /\ Cardinality(S) # 0
  BY FS_CardinalityType, FS_EmptySet
<1> HIDE DEF R
<1>4. /\ \A e \in S : <<e, e>> \notin R
      /\ \A e, f \in S : e # f => <<e, f>> \in R \/ <<f, e>> \in R
      /\ \A e, f, g \in S : <<e, f>> \in R /\ <<f, g>> \in R => <<e, g>> \in R
  BY <1>2
<1>5. \A i \in 1..Cardinality(S) : \E e \in S : RankIn(R, S, e) = i - 1
  BY <1>4, RanksArePlaces
<1>6. PICK e \in S : RankIn(R, S, e) = 0
  BY <1>3, <1>5
<1> DEFINE B == {f \in S : <<f, e>> \in R}
<1>7. B \in SUBSET S /\ Cardinality(B) = 0
  BY <1>6 DEF RankIn
<1> HIDE DEF B
<1>8. B = {}
  BY <1>7, FS_Subset, FS_EmptySet
<1>9. \A f \in S : ~(f < e)
  BY <1>2, <1>8 DEF B
<1> QED
  BY <1>9

\* Some events have a smallest id.
LEMMA SmallestId ==
    ASSUME NEW S \in SUBSET Events, S # {}
    PROVE  \E e \in S : \A f \in S : e <= f
<1>1. IsFiniteSet(Events) /\ Events \subseteq Nat
  BY EventsAssumption
<1>2. IsFiniteSet(S)
  BY <1>1, FS_Subset
<1>3. \A e \in S : e \in Int
  BY <1>1
<1> QED
  BY <1>2, <1>3, LeastNumber

\* The newest of some events, of which there may be several in one second.
Latest(S) == {e \in S : \A f \in S : At[e] >= At[f]}

\* latestEventByKind takes the one with the smallest id of the newest, if it is among what
\* the query gave.
LEMMA LatestIsTaken ==
    ASSUME NEW S \in SUBSET Events, S # {}, NEW K \in SUBSET S, Latest(S) \subseteq K,
           NEW x, x = CHOOSE e \in K : \A f \in K \ {e} : Replaces(e, f)
    PROVE  x \in Latest(S) /\ \A e \in Latest(S) : x <= e
<1>1. Latest(S) \in SUBSET Events /\ Latest(S) # {}
  BY LatestExists DEF Latest
<1>2. PICK m \in Latest(S) : \A f \in Latest(S) : m <= f
  BY <1>1, SmallestId
<1>3. \A e \in S : e \in Nat /\ At[e] \in Nat
  BY EventsAssumption
<1>4. m \in K /\ m \in S /\ \A f \in S : At[m] >= At[f]
  BY <1>2 DEF Latest
<1>5. ASSUME NEW f \in K \ {m} PROVE Replaces(m, f)
  <2>1. f \in S /\ At[m] >= At[f]
    BY <1>4
  <2>2. CASE At[m] > At[f]
    BY <2>2 DEF Replaces
  <2>3. CASE At[m] = At[f]
    <3>1. f \in Latest(S)
      BY <1>4, <2>1, <2>3 DEF Latest
    <3>2. m <= f /\ m # f
      BY <1>2, <3>1
    <3> QED
      BY <1>3, <1>4, <2>1, <2>3, <3>2 DEF Replaces
  <2> QED
    BY <1>3, <1>4, <2>1, <2>2, <2>3
<1>6. x \in K /\ \A f \in K \ {x} : Replaces(x, f)
  BY <1>4, <1>5
<1>7. x = m
  <2> SUFFICES ASSUME x # m PROVE FALSE
    OBVIOUS
  <2>1. Replaces(x, m) /\ Replaces(m, x)
    BY <1>4, <1>5, <1>6
  <2>2. x \in Nat /\ m \in Nat /\ At[x] \in Nat /\ At[m] \in Nat
    BY <1>3, <1>4, <1>6
  <2> QED
    BY <2>1, <2>2 DEF Replaces
<1> QED
  BY <1>2, <1>7

\* The one query for the lists of a user has those of the newest that the default limit
\* leaves.
LEMMA ListsAreNewest ==
    ASSUME stored \in SUBSET Events, NEW u
    PROVE  LET M == {e \in stored : Author[e] = u /\ Kind[e] \in Lists}
           IN  Elems(OwnLists(u)) = {e \in M : Place(M, e) < DefaultLimit}
<1> DEFINE q == [AnyEvent EXCEPT !.authors = {u}, !.kinds = Lists]
<1>1. PICK M : M = {e \in stored : Author[e] = u /\ Kind[e] \in Lists}
  OBVIOUS
<1>2. SaysOnly(q, {u}, Lists, {}, {}, 0) /\ q.offset = 0 /\ q.limit = 0
  BY DEF AnyEvent, SaysOnly
<1>3. OwnLists(u) = QueryEvents(q)
  BY DEF OwnLists
<1> HIDE DEF q
<1>z. PICK k \in Nat : k = 0
  OBVIOUS
<1>4. Matching(q) = Plainly({u}, Lists, {}, {}, k)
  BY <1>2, <1>z, QueryMatches
<1>5. Plainly({u}, Lists, {}, {}, k) = M
  BY <1>1, <1>z DEF Plainly, Lists
<1>6. QueryEvents(q) = Page(Newest(M), 0, DefaultLimit)
  BY <1>2, <1>4, <1>5 DEF QueryEvents, Limited
<1>7. M \in SUBSET Events /\ DefaultLimit \in Nat
  BY <1>1, EventsAssumption
<1>8. Elems(OwnLists(u)) = {e \in M : Place(M, e) < DefaultLimit}
  BY <1>3, <1>6, <1>7, FirstOfNewest
<1> QED
  BY <1>1, <1>8

\* The query for the one newest event of a kind gives one of the newest.
LEMMA OneIsNewest ==
    ASSUME stored \in SUBSET Events, NEW u, NEW k,
           NEW S, S = {e \in stored : Author[e] = u /\ Kind[e] = k}
    PROVE  Elems(LatestByAuthor({u}, {k}, 1, MaxLimit)[u]) \subseteq Latest(S)
<1> DEFINE q == [AnyEvent EXCEPT !.authors = {u}, !.kinds = {k}]
<1>1. SaysOnly(q, {u}, {k}, {}, {}, 0)
  BY DEF AnyEvent, SaysOnly
<1>2. LatestByAuthor({u}, {k}, 1, MaxLimit)[u] = Page(Newest(Matching(q)), 0, Limited(1, MaxLimit, 1))
  BY DEF LatestByAuthor
<1> HIDE DEF q
<1>z. PICK z \in Nat : z = 0
  OBVIOUS
<1>3. Matching(q) = Plainly({u}, {k}, {}, {}, z)
  BY <1>1, <1>z, QueryMatches
<1>4. Plainly({u}, {k}, {}, {}, z) = S
  BY <1>z DEF Plainly
<1>5. Limited(1, MaxLimit, 1) = 1
  BY EventsAssumption DEF Limited
<1>o. PICK o \in Nat : o = 1
  OBVIOUS
<1>6. S \in SUBSET Events
  OBVIOUS
<1>7. Elems(Page(Newest(S), 0, o)) = {e \in S : Place(S, e) < o}
  BY <1>6, FirstOfNewest
<1>8. ASSUME NEW e \in S, Place(S, e) < 1 PROVE e \in Latest(S)
  <2>1. Place(S, e) \in Nat /\ \A f \in S : Place(S, f) \in Nat /\ (Newer(f, e) <=> Place(S, f) < Place(S, e))
    <3>1. /\ Cardinality(S) \in Nat /\ \A f \in S : Place(S, f) \in 0..(Cardinality(S) - 1)
          /\ \A f, g \in S : Newer(f, g) <=> Place(S, f) < Place(S, g)
      BY <1>6, NewestIsSorted
    <3> QED
      BY <3>1
  <2>2. \A f \in S : ~Newer(f, e)
    BY <1>8, <2>1
  <2>3. \A f \in S : At[f] \in Nat
    BY <1>6, EventsAssumption
  <2> QED
    BY <1>8, <2>2, <2>3 DEF Newer, Latest
<1> QED
  BY <1>2, <1>3, <1>4, <1>5, <1>7, <1>8, <1>o

\* What the bundle is to have of a kind: x, the one with the smallest id of the newest of S.
HasNewest(x, u, k, S) ==
    /\ x \in Latest(S) /\ \A e \in Latest(S) : x <= e
    /\ (k = Contacts /\ Cardinality(Latest(S)) = 1) => PTags[x] = LatestContacts(u)
    /\ Elems(LatestByAuthor({u}, {k}, 1, MaxLimit)[u]) \subseteq Latest(S)

\* It has that when the one query for all kinds leaves out none of them.
LEMMA GraphHasNewest ==
    ASSUME TableTypes, NEW u \in Users, NEW k \in Lists,
           NEW S, S = {e \in stored : Author[e] = u /\ Kind[e] = k},
           NEW M, M = {f \in stored : Author[f] = u /\ Kind[f] \in Lists},
           S # {} \/ SocialGraph(u)[k] # None,
           \A e \in Latest(S) : ~(Place(M, e) >= DefaultLimit)
    PROVE  HasNewest(SocialGraph(u)[k], u, k, S)
<1>0. stored \in SUBSET Events
  BY StoredAreEvents
<1>x. PICK x : x = SocialGraph(u)[k]
  OBVIOUS
<1>2. S \in SUBSET Events /\ M \in SUBSET Events /\ S \in SUBSET M
  BY <1>0
<1>3. Elems(OwnLists(u)) = {e \in M : Place(M, e) < DefaultLimit}
  BY <1>0, ListsAreNewest
<1> DEFINE K == {e \in Elems(OwnLists(u)) : Kind[e] = k}
<1>4. K \in SUBSET S /\ x = IF K = {} THEN None ELSE CHOOSE e \in K : \A f \in K \ {e} : Replaces(e, f)
  BY <1>3, <1>x DEF SocialGraph, LatestByKind
<1>5. Latest(S) \subseteq K
  <2> SUFFICES ASSUME NEW e \in Latest(S) PROVE e \in K
    OBVIOUS
  <2>1. e \in S /\ e \in M /\ Kind[e] = k
    BY <1>2 DEF Latest
  <2>2. Place(M, e) \in Nat
    BY <1>2, PlaceGrows
  <2>3. Place(M, e) < DefaultLimit
    BY <2>2, EventsAssumption
  <2> QED
    BY <1>3, <2>1, <2>3
<1> HIDE DEF K
<1>6. S # {}
  BY <1>4, <1>x
<1>7. Latest(S) # {}
  BY <1>2, <1>6, LatestExists DEF Latest
<1>8. x = CHOOSE e \in K : \A f \in K \ {e} : Replaces(e, f)
  BY <1>4, <1>5, <1>7
<1>9. x \in Latest(S) /\ \A e \in Latest(S) : x <= e
  BY <1>2, <1>4, <1>5, <1>6, <1>8, LatestIsTaken
<1>10. ASSUME k = Contacts, Cardinality(Latest(S)) = 1 PROVE PTags[x] = LatestContacts(u)
  <2>1. PICK c : c = CHOOSE e \in S : \A f \in S : At[e] >= At[f]
    OBVIOUS
  <2>2. c \in Latest(S)
    BY <1>2, <1>6, <2>1, LatestExists DEF Latest
  <2>3. LatestContacts(u) = PTags[c]
    BY <1>6, <1>10, <2>1 DEF LatestContacts
  <2>4. IsFiniteSet(Latest(S))
    BY <1>2, FS_Subset, EventsAssumption DEF Latest
  <2>5. PICK y : Latest(S) = {y}
    BY <1>10, <2>4, FS_Singleton
  <2> QED
    BY <1>9, <2>2, <2>3, <2>5
<1>11. Elems(LatestByAuthor({u}, {k}, 1, MaxLimit)[u]) \subseteq Latest(S)
  BY <1>0, OneIsNewest
<1> QED
  BY <1>9, <1>10, <1>11, <1>x DEF HasNewest

\* The bundle of a user's lists has the newest of a kind, with the smallest id, unless the
\* default limit of the one query keeps one of them out; his contacts are those that the
\* feeds go by (latestEventByKind, user_contacts_latest).
THEOREM ReadsSocialGraphAgrees == Spec => []SocialGraphAgrees
<1>1. TableTypes => SocialGraphAgrees
  <2> SUFFICES ASSUME TableTypes, NEW u \in Users, NEW k \in Lists
               PROVE  LET S == {e \in stored : Author[e] = u /\ Kind[e] = k}
                          got == SocialGraph(u)[k]
                          newest == {e \in S : \A f \in S : At[e] >= At[f]}
                          newer(e) == {f \in stored : Author[f] = u /\ Kind[f] \in Lists /\ Newer(f, e)}
                      IN  \/ S = {} /\ got = None
                          \/ \E e \in newest : Cardinality(newer(e)) >= DefaultLimit
                          \/ /\ got \in newest /\ \A e \in newest : got <= e
                             /\ (k = Contacts /\ Cardinality(newest) = 1) => PTags[got] = LatestContacts(u)
                             /\ Elems(LatestByAuthor({u}, {k}, 1, MaxLimit)[u]) \subseteq newest
    BY DEF SocialGraphAgrees
  <2> DEFINE S == {e \in stored : Author[e] = u /\ Kind[e] = k}
             M == {f \in stored : Author[f] = u /\ Kind[f] \in Lists}
             newest == {e \in S : \A f \in S : At[e] >= At[f]}
             newer(e) == {f \in stored : Author[f] = u /\ Kind[f] \in Lists /\ Newer(f, e)}
  <2>1. newest = Latest(S)
    BY DEF Latest
  <2>2. \A e : Cardinality(newer(e)) = Place(M, e)
    <3>1. \A e : newer(e) = {f \in M : Newer(f, e)}
      OBVIOUS
    <3> HIDE DEF newer, M
    <3> QED
      BY <3>1 DEF Place
  <2>3. ASSUME S # {} \/ SocialGraph(u)[k] # None, \A e \in Latest(S) : ~(Place(M, e) >= DefaultLimit)
        PROVE  HasNewest(SocialGraph(u)[k], u, k, S)
    BY <2>3, GraphHasNewest
  <2> HIDE DEF S, M, newest, newer
  <2>4. \/ S = {} /\ SocialGraph(u)[k] = None
        \/ \E e \in newest : Cardinality(newer(e)) >= DefaultLimit
        \/ /\ SocialGraph(u)[k] \in newest /\ \A e \in newest : SocialGraph(u)[k] <= e
           /\ (k = Contacts /\ Cardinality(newest) = 1) => PTags[SocialGraph(u)[k]] = LatestContacts(u)
           /\ Elems(LatestByAuthor({u}, {k}, 1, MaxLimit)[u]) \subseteq newest
    BY <2>1, <2>2, <2>3 DEF HasNewest
  <2> QED
    BY <2>4 DEF S, newest, newer
<1> QED
  BY <1>1, ReadTables, PTL

-----------------------------------------------------------------------------
(* The counts of what refers to an event *)

\* A page that is as long as a query may be has all, when there are no more.
LEMMA AllOnPage ==
    ASSUME NEW S \in SUBSET Events, Cardinality(S) <= MaxLimit
    PROVE  /\ Elems(Page(Newest(S), 0, MaxLimit)) = S
           /\ Len(Page(Newest(S), 0, MaxLimit)) = Cardinality(S)
<1>1. MaxLimit \in Nat /\ Cardinality(S) \in Nat
  BY EventsAssumption, NewestIsSorted
<1>2. \A e \in S : Place(S, e) \in 0..(Cardinality(S) - 1)
  BY NewestIsSorted
<1>3. Elems(Page(Newest(S), 0, MaxLimit)) = {e \in S : Place(S, e) < MaxLimit}
  BY <1>1, FirstOfNewest
<1>4. \A e \in S : Place(S, e) < MaxLimit
  BY <1>1, <1>2
<1>5. IsTop(Page(Newest(S), 0, MaxLimit), S, MaxLimit)
  BY <1>1, FirstPageIsTop
<1>6. Len(Page(Newest(S), 0, MaxLimit)) = Least(Cardinality(S), MaxLimit)
  BY <1>5 DEF IsTop
<1>7. Elems(Page(Newest(S), 0, MaxLimit)) = S
  BY <1>3, <1>4
<1>8. Least(Cardinality(S), MaxLimit) = Cardinality(S)
  BY <1>1 DEF Least
<1> QED
  BY <1>6, <1>7, <1>8

\* The greatest limit is kept.
LEMMA MostIsAllowed == MaxLimit \in Nat \ {0} /\ \A d : Limited(MaxLimit, MaxLimit, d) = MaxLimit
  BY EventsAssumption DEF Limited

\* The aggregate counts all that refer to an event, and who they are of.
LEMMA AllAreCounted ==
    ASSUME stored \in SUBSET Events, NEW q, NEW key, NEW x, Cardinality(Referring(q, key, x)) <= MaxLimit
    PROVE  /\ ByTargetCounts(q, key, x, MaxLimit).count = Cardinality(Referring(q, key, x))
           /\ {u \in Users : ByTargetCounts(q, key, x, MaxLimit).byAuthor[u] > 0} = AuthorsOf(Referring(q, key, x))
<1>1. PICK R : R = Referring(q, key, x)
  OBVIOUS
<1>2. R \in SUBSET Events
  BY <1>1 DEF Referring, Matching
<1>3. Elems(Page(Newest(R), 0, Limited(MaxLimit, MaxLimit, DefaultLimit))) = R
  BY <1>1, <1>2, AllOnPage, MostIsAllowed
<1>4. ByTargetCounts(q, key, x, MaxLimit) =
          [count |-> Cardinality(R), byAuthor |-> [u \in Users |-> Cardinality({e \in R : Author[e] = u})]]
  BY <1>1, <1>3 DEF ByTargetCounts
<1>5. ASSUME NEW u \in Users
      PROVE  Cardinality({e \in R : Author[e] = u}) > 0 <=> u \in AuthorsOf(R)
  <2> DEFINE A == {e \in R : Author[e] = u}
  <2>1. A \in SUBSET Events
    BY <1>2
  <2>2. IsFiniteSet(A) /\ Cardinality(A) \in Nat
    BY <2>1, FS_Subset, FS_CardinalityType, EventsAssumption
  <2>3. Cardinality(A) = 0 <=> A = {}
    BY <2>2, FS_EmptySet
  <2>4. A # {} <=> u \in AuthorsOf(R)
    BY DEF AuthorsOf
  <2> HIDE DEF A
  <2>5. Cardinality(A) > 0 <=> u \in AuthorsOf(R)
    BY <2>2, <2>3, <2>4
  <2> QED
    BY <2>5 DEF A
<1>6. AuthorsOf(R) \in SUBSET Users
  BY <1>2, ActorsCount
<1>7. \A u \in Users : [v \in Users |-> Cardinality({e \in R : Author[e] = v})][u] > 0 <=> u \in AuthorsOf(R)
  BY <1>5
<1>8. PICK f : f = [v \in Users |-> Cardinality({e \in R : Author[e] = v})]
  OBVIOUS
<1>9. {u \in Users : f[u] > 0} = AuthorsOf(R)
  BY <1>6, <1>7, <1>8
<1>10. ByTargetCounts(q, key, x, MaxLimit).count = Cardinality(R) /\ ByTargetCounts(q, key, x, MaxLimit).byAuthor = f
  BY <1>4, <1>8
<1> QED
  BY <1>1, <1>9, <1>10

\* A query for kinds of well followed authors.
AsksKinds(q, K, g) == q = [AnyEvent EXCEPT !.kinds = K, !.followers = g]

\* Whose events of a kind have a tag.
LEMMA KindReferring ==
    ASSUME NEW K, K # {}, NEW g, NEW key, NEW x, NEW q, AsksKinds(q, K, g)
    PROVE  \A e : e \in Referring(q, key, x) <=>
                      e \in Referrers(x, K, key) /\ e \in Events /\ WellFollowed(Author[e], g)
<1>1. /\ q.ids = {} /\ q.authors = {} /\ q.notIds = {} /\ q.notAuthors = {} /\ q.kinds = K
      /\ q.tags = {} /\ q.texts = Events /\ q.followers = g /\ q.since = 0 /\ q.until = 0
  BY DEF AnyEvent, AsksKinds
<1>2. \A e : Matches(e, q) /\ InWindow(e, q) <=> Kind[e] \in K /\ e \in Events /\ WellFollowed(Author[e], g)
  BY <1>1 DEF Matches, InWindow
<1> QED
  BY <1>2 DEF Referring, Matching, Referrers

\* Likes of an event, in each of the ways.
LEMMA LikesAreReferring ==
    ASSUME stored \in SUBSET Events, NEW x
    PROVE  Referring([AnyEvent EXCEPT !.kinds = {7}], "e", x) = Referrers(x, {7}, "e")
<1>1. PICK q : q = [AnyEvent EXCEPT !.kinds = {7}]
  OBVIOUS
<1>2. /\ q.ids = {} /\ q.authors = {} /\ q.notIds = {} /\ q.notAuthors = {} /\ q.kinds = {7}
      /\ q.tags = {} /\ q.texts = Events /\ q.followers = -1 /\ q.since = 0 /\ q.until = 0
  BY <1>1 DEF AnyEvent
<1>3. \A e : Matches(e, q) /\ InWindow(e, q) <=> Kind[e] \in {7} /\ e \in Events
  BY <1>2 DEF Matches, InWindow, WellFollowed
<1>4. Referring(q, "e", x) = Referrers(x, {7}, "e")
  BY <1>3 DEF Referring, Matching, Referrers
<1> QED
  BY <1>1, <1>4

\* The counts of likes agree.
LEMMA CountsAreOne == TableTypes => CountsAgree
<1> SUFFICES ASSUME TableTypes, NEW x \in stored,
                    Cardinality(Referring([AnyEvent EXCEPT !.kinds = {7}], "e", x)) <= MaxLimit
             PROVE  LET q == [AnyEvent EXCEPT !.kinds = {7}]
                        t == [AnyEvent EXCEPT !.ids = {x}]
                        all == ByTargetCounts(q, "e", x, MaxLimit)
                    IN  /\ UniqueReferences(q, "e", t, x) = all.count
                        /\ Len(ReferencedBy(q, x, MaxLimit)) = all.count
                        /\ all.count = Cardinality({u \in Users : all.byAuthor[u] > 0}) =>
                               all.count = NoteStats(x).raw.likes
                        /\ {u \in Users : all.byAuthor[u] > 0} = Likes(x)
  BY DEF CountsAgree
<1>1. PICK q : q = [AnyEvent EXCEPT !.kinds = {7}]
  OBVIOUS
<1>2. PICK t : t = [AnyEvent EXCEPT !.ids = {x}]
  OBVIOUS
<1>3. PICK R : R = Referring(q, "e", x)
  OBVIOUS
<1>e. stored \in SUBSET Events
  BY StoredAreEvents
<1>4. R = Referrers(x, {7}, "e") /\ R \in SUBSET Events /\ Cardinality(R) <= MaxLimit
  BY <1>1, <1>3, <1>e, LikesAreReferring, ActsAreEvents
<1>5. PICK all : all = ByTargetCounts(q, "e", x, MaxLimit)
  OBVIOUS
<1>6. all.count = Cardinality(R) /\ {u \in Users : all.byAuthor[u] > 0} = AuthorsOf(R)
  BY <1>3, <1>4, <1>5, <1>e, AllAreCounted
<1>7. UniqueReferences(q, "e", t, x) = Cardinality(R)
  <2>1. /\ t.ids = {x} /\ t.authors = {} /\ t.notIds = {} /\ t.notAuthors = {} /\ t.kinds = {}
        /\ t.tags = {} /\ t.texts = Events /\ t.followers = -1 /\ t.since = 0 /\ t.until = 0
    BY <1>2 DEF AnyEvent
  <2>2. Matching(t) = {x}
    BY <1>e, <2>1 DEF Matching, Matches, InWindow, WellFollowed
  <2>3. \A e : e \in {r[1] : r \in {s \in ReferenceRows(q, "e", t) : s[2] = x}} <=> e \in R
    <3>1. \A e : e \in R <=> e \in Matching(q) /\ x \in Tagged(e, "e")
      BY <1>3 DEF Referring
    <3>2. ASSUME NEW e \in R PROVE <<e, x>> \in {s \in ReferenceRows(q, "e", t) : s[2] = x}
      BY <2>2, <3>1 DEF ReferenceRows
    <3>3. ASSUME NEW r \in {s \in ReferenceRows(q, "e", t) : s[2] = x} PROVE r[1] \in R
      BY <2>2, <3>1 DEF ReferenceRows
    <3>4. ASSUME NEW e \in R PROVE \E r \in {s \in ReferenceRows(q, "e", t) : s[2] = x} : r[1] = e
      <4>1. <<e, x>>[1] = e
        OBVIOUS
      <4> QED
        BY <3>2, <4>1
    <3> HIDE DEF ReferenceRows
    <3> QED
      BY <3>3, <3>4
  <2>4. {r[1] : r \in {s \in ReferenceRows(q, "e", t) : s[2] = x}} = R
    BY <2>3
  <2> QED
    BY <2>4 DEF UniqueReferences
<1>8. Len(ReferencedBy(q, x, MaxLimit)) = Cardinality(R)
  <2>1. PICK w : w = [q EXCEPT !.limit = MaxLimit, !.tags = {[AnyTag EXCEPT !.values = {x}]}]
    OBVIOUS
  <2>2. PICK g : g = [AnyTag EXCEPT !.values = {x}]
    OBVIOUS
  <2>3. g.key = "e" /\ g.values = {x} /\ g.except = {}
    BY <2>2 DEF AnyTag
  <2>4. /\ w.ids = {} /\ w.authors = {} /\ w.notIds = {} /\ w.notAuthors = {} /\ w.kinds = {7}
        /\ w.tags = {g} /\ w.texts = Events /\ w.followers = -1 /\ w.since = 0 /\ w.until = 0
        /\ w.limit = MaxLimit /\ w.offset = 0
    BY <1>1, <2>1, <2>2 DEF AnyEvent
  <2>5. \A e : HasTag(e, g) <=> x \in Tagged(e, "e")
    BY <2>3 DEF HasTag
  <2>6. \A e : (\A h \in w.tags : HasTag(e, h)) <=> x \in Tagged(e, "e")
    BY <2>4, <2>5
  <2>7. Matching(w) = R
    BY <1>4, <1>e, <2>4, <2>6 DEF Matching, Matches, InWindow, WellFollowed, Referrers
  <2>8. QueryEvents(w) = Page(Newest(R), 0, MaxLimit)
    BY <2>4, <2>7, MostIsAllowed DEF QueryEvents
  <2>9. Len(QueryEvents(w)) = Cardinality(R)
    BY <1>4, <2>8, AllOnPage
  <2> QED
    BY <2>1, <2>9 DEF ReferencedBy
<1>9. AuthorsOf(R) = Likes(x)
  BY <1>4 DEF Likes
<1>10. NoteStats(x).raw.likes = Cardinality(Likes(x))
  BY DEF NoteStats, Raw
<1>11. UniqueReferences(q, "e", t, x) = all.count /\ Len(ReferencedBy(q, x, MaxLimit)) = all.count
  BY <1>6, <1>7, <1>8
<1>12. all.count = Cardinality({u \in Users : all.byAuthor[u] > 0}) => all.count = NoteStats(x).raw.likes
  BY <1>6, <1>9, <1>10
<1>13. {u \in Users : all.byAuthor[u] > 0} = Likes(x)
  BY <1>6, <1>9
<1> QED
  BY <1>1, <1>2, <1>5, <1>11, <1>12, <1>13

\* The counts of one thing that different tables and queries give are the same,
\* as long as no more refer to it than one query looks at (aggregateEventsByTagTargets,
\* AggregateEventReferencesToTargets, NoteStats).
THEOREM ReadsCountsAgree == Spec => []CountsAgree
  BY CountsAreOne, ReadTables, PTL

-----------------------------------------------------------------------------
(* Features and scores of the moment *)

\* The notes of S that were engaged with last; L[n] is when.
NotesByTime(S, L) ==
    Elems(Page(ByRank({x \in S \X S : L[x[1]] > L[x[2]] \/ (L[x[1]] = L[x[2]] /\ x[1] > x[2])}, S), 0, MaxTargets))

EngagedByTime ==
    \A since : EngagedNotes(since) = NotesByTime(Engaged(since), [n \in Engaged(since) |-> LastEngaged(n, since)])

\* The notes that a tick looks at are told by who is engaged with and when.
LEMMA LookedAtByTime == EngagedByTime
<1> SUFFICES ASSUME NEW since
             PROVE  EngagedNotes(since) = NotesByTime(Engaged(since), [n \in Engaged(since) |-> LastEngaged(n, since)])
  BY DEF EngagedByTime
<1> DEFINE S == Engaged(since)
           L == [n \in S |-> LastEngaged(n, since)]
           R == {x \in S \X S : L[x[1]] > L[x[2]] \/ (L[x[1]] = L[x[2]] /\ x[1] > x[2])}
           later(m, n) == \/ LastEngaged(m, since) > LastEngaged(n, since)
                          \/ LastEngaged(m, since) = LastEngaged(n, since) /\ m > n
<1>1. EngagedNotes(since) = Elems(Page(Ordered(S, later), 0, MaxTargets))
  BY DEF EngagedNotes
<1>2. \A m, n \in S : <<m, n>> \in R <=> later(m, n)
  OBVIOUS
<1>3. NotesByTime(S, L) = Elems(Page(ByRank(R, S), 0, MaxTargets))
  BY DEF NotesByTime
<1> HIDE DEF later, R, L, S
<1>4. \A n \in S : {m \in S : later(m, n)} = {m \in S : <<m, n>> \in R}
  BY <1>2
<1>5. \A n \in S : Cardinality({m \in S : later(m, n)}) = RankIn(R, S, n)
  BY <1>4 DEF RankIn
<1>6. Ordered(S, later) = ByRank(R, S)
  BY <1>5 DEF Ordered, ByRank
<1> QED
  BY <1>1, <1>3, <1>6 DEF L, S

\* So it is after a step.
LEMMA LookedAtNext == EngagedByTime'
  BY LookedAtByTime, PTL

\* Tags that are there again change nothing: neither who refers to a note nor which notes a
\* tick looks at.
LEMMA EngagedStay ==
    ASSUME TableTypes, stored' = stored,
           \A e \in stored : copies'[e] \in Nat /\ (copies'[e] = 0 <=> copies[e] = 0)
    PROVE  /\ \A n, K, key : Referrers(n, K, key)' = Referrers(n, K, key)
           /\ \A since : EngagedNotes(since)' = EngagedNotes(since)
<1>1. ASSUME NEW e \in stored, NEW key PROVE Tagged(e, key)' = Tagged(e, key)
  <2>1. PICK V : V = TagValues(e, key)
    OBVIOUS
  <2>2. TagValues(e, key)' = V
    BY <2>1 DEF TagValues
  <2>3. copies'[e] = 0 <=> copies[e] = 0
    OBVIOUS
  <2>4. Tagged(e, key) = IF copies[e] = 0 THEN {} ELSE V
    BY <2>1 DEF Tagged
  <2>5. Tagged(e, key)' = IF copies'[e] = 0 THEN {} ELSE V
    BY <2>2 DEF Tagged
  <2> QED
    BY <2>3, <2>4, <2>5
<1>2. ASSUME NEW n, NEW K, NEW key PROVE Referrers(n, K, key)' = Referrers(n, K, key)
  BY <1>1 DEF Referrers
<1>3. \A e \in stored : copies'[e] > 0 <=> copies[e] > 0
  BY DEF TableTypes
<1>4. ASSUME NEW n PROVE ZapsOf(n)' = ZapsOf(n)
  BY <1>3 DEF ZapsOf, FirstETag
<1>5. ASSUME NEW n, NEW since PROVE Engaging(n, since)' = Engaging(n, since)
  BY <1>2, <1>4 DEF Engaging
<1>6. ASSUME NEW n, NEW since PROVE LastEngaged(n, since)' = LastEngaged(n, since)
  BY <1>5 DEF LastEngaged
<1>7. ASSUME NEW since PROVE Engaged(since)' = Engaged(since)
  BY <1>1, <1>5 DEF Engaged
<1>8. ASSUME NEW since PROVE EngagedNotes(since)' = EngagedNotes(since)
  <2>1. PICK S : S = Engaged(since)
    OBVIOUS
  <2>2. PICK L : L = [n \in S |-> LastEngaged(n, since)]
    OBVIOUS
  <2>3. EngagedNotes(since) = NotesByTime(S, L)
    BY <2>1, <2>2, LookedAtByTime DEF EngagedByTime
  <2>4. Engaged(since)' = S /\ [n \in S |-> LastEngaged(n, since)'] = L
    BY <1>6, <1>7, <2>1, <2>2
  <2>5. EngagedNotes(since)' = NotesByTime(Engaged(since), [n \in Engaged(since) |-> LastEngaged(n, since)])'
    BY LookedAtNext DEF EngagedByTime
  <2>6. EngagedNotes(since)' = NotesByTime(S, L)
    BY <2>4, <2>5
  <2> QED
    BY <2>3, <2>6
<1> QED
  BY <1>2, <1>8

\* A row has who liked and reposted a note as it is now.
RowIsNow(row, n) ==
    /\ row.likes = Cardinality(RealActors(Referrers(n, {7}, "e"), n))
    /\ row.reposts = Cardinality(RealActors(Referrers(n, {6, 16}, "e"), n))

\* After a stage of a tick, when nothing came since the tick began: the notes that it looks
\* at have rows of the moment.
RowsAreNow ==
    tick.stage \in {"stats", "features", "save"} /\ tick.snap = stored =>
        \A n \in EngagedNotes(tick.since) \intersect stored : n \in DOMAIN real /\ RowIsNow(real[n], n)
FeaturesAreNow ==
    tick.stage = "save" /\ tick.snap = stored =>
        \A n \in EngagedNotes(tick.since) \intersect stored :
            n \in DOMAIN features /\ RowIsNow(features[n].real, n) /\ features[n].score = Score[Author[n]]
NowInv == RowsAreNow /\ FeaturesAreNow

\* Rows stay of the moment when no event arrives that was not there.
LEMMA NowStays ==
    ASSUME TableTypes, NowInv, stored' = stored, tick'.since = tick.since, tick'.snap = tick.snap,
           \A e \in stored : copies'[e] \in Nat /\ copies'[e] >= copies[e]
    PROVE  /\ real' = real /\ (tick'.stage \in {"stats", "features", "save"} => tick.stage \in {"stats", "features", "save"})
                  => RowsAreNow'
           /\ features' = features /\ (tick'.stage = "save" => tick.stage = "save") => FeaturesAreNow'
           /\ tick.snap = stored =>
                  /\ (EngagedNotes(tick.since))' = EngagedNotes(tick.since)
                  /\ \A row, n : RowIsNow(row, n)' <=> RowIsNow(row, n)
<1>0. PICK s : s = tick.since
  OBVIOUS
<1>1. ASSUME tick.snap = stored
      PROVE  /\ EngagedNotes(s)' = EngagedNotes(s)
             /\ \A row, n : RowIsNow(row, n)' <=> RowIsNow(row, n)
  <2>1. \A e \in stored : copies[e] > 0 /\ copies[e] \in Int
    BY <1>1 DEF TableTypes
  <2>2. \A e \in stored : copies'[e] \in Nat /\ (copies'[e] = 0 <=> copies[e] = 0)
    BY <2>1
  <2>3. /\ \A n, K, key : Referrers(n, K, key)' = Referrers(n, K, key)
        /\ EngagedNotes(s)' = EngagedNotes(s)
    BY <2>2, EngagedStay
  <2>4. ASSUME NEW row, NEW n PROVE RowIsNow(row, n)' <=> RowIsNow(row, n)
    <3>1. PICK A, B : A = Referrers(n, {7}, "e") /\ B = Referrers(n, {6, 16}, "e")
      OBVIOUS
    <3>2. Referrers(n, {7}, "e")' = A /\ Referrers(n, {6, 16}, "e")' = B
      BY <2>3, <3>1
    <3> QED
      BY <3>1, <3>2 DEF RowIsNow, RealActors, AuthorsOf
  <2> QED
    BY <2>3, <2>4
<1>2. (EngagedNotes(tick.since))' = EngagedNotes(s)'
  BY <1>0
<1>3. tick.snap = stored => /\ (EngagedNotes(tick.since))' = EngagedNotes(tick.since)
                            /\ \A row, n : RowIsNow(row, n)' <=> RowIsNow(row, n)
  BY <1>0, <1>1, <1>2
<1>4. ASSUME real' = real, tick'.stage \in {"stats", "features", "save"} => tick.stage \in {"stats", "features", "save"}
      PROVE  RowsAreNow'
  <2> SUFFICES ASSUME tick'.stage \in {"stats", "features", "save"}, tick'.snap = stored',
                      NEW n \in (EngagedNotes(tick.since))' \intersect stored'
               PROVE  n \in DOMAIN real' /\ RowIsNow(real[n], n)'
    BY DEF RowsAreNow
  <2>1. n \in EngagedNotes(tick.since) \intersect stored /\ tick.snap = stored
    BY <1>3
  <2>2. PICK row : row = real[n]
    OBVIOUS
  <2>3. n \in DOMAIN real /\ RowIsNow(row, n)
    BY <1>4, <2>1, <2>2 DEF NowInv, RowsAreNow
  <2>4. RowIsNow(row, n)'
    BY <1>3, <2>1, <2>3
  <2>5. real'[n] = row
    BY <1>4, <2>2
  <2> QED
    BY <1>4, <2>3, <2>4, <2>5
<1>5. ASSUME features' = features, tick'.stage = "save" => tick.stage = "save"
      PROVE  FeaturesAreNow'
  <2> SUFFICES ASSUME tick'.stage = "save", tick'.snap = stored',
                      NEW n \in (EngagedNotes(tick.since))' \intersect stored'
               PROVE  n \in DOMAIN features' /\ RowIsNow(features[n].real, n)' /\ features'[n].score = Score[Author[n]]
    BY DEF FeaturesAreNow
  <2>1. n \in EngagedNotes(tick.since) \intersect stored /\ tick.snap = stored
    BY <1>3
  <2>2. PICK row : row = features[n].real
    OBVIOUS
  <2>3. n \in DOMAIN features /\ RowIsNow(row, n) /\ features[n].score = Score[Author[n]]
    BY <1>5, <2>1, <2>2 DEF NowInv, FeaturesAreNow
  <2>4. RowIsNow(row, n)'
    BY <1>3, <2>1, <2>3
  <2>5. features'[n].real = row
    BY <1>5, <2>2
  <2> QED
    BY <1>5, <2>3, <2>4, <2>5
<1> QED
  BY <1>3, <1>4, <1>5

\* Every step keeps the rows of the moment.
LEMMA NowNext ==
    ASSUME TableTypes, TableTypes', NowInv, [Next]_vars
    PROVE  NowInv'
<1>c. stored' = stored /\ copies' = copies => \A e \in stored : copies'[e] \in Nat /\ copies'[e] >= copies[e]
  BY DEF TableTypes
<1>1. CASE Arrive
  <2>1. /\ stored \subseteq stored' /\ \A e \in stored : copies'[e] >= copies[e]
        /\ tick' = tick /\ real' = real /\ features' = features
    BY <1>1, ArriveGrows DEF Grown, derived
  <2>2. tick.snap \subseteq stored /\ \A e \in stored' : copies'[e] \in Nat
    BY DEF TableTypes
  <2>3. CASE stored' = stored
    BY <2>1, <2>2, <2>3, NowStays DEF NowInv
  <2>4. CASE stored' # stored
    <3>1. tick'.snap # stored'
      BY <2>1, <2>2, <2>4
    <3> QED
      BY <3>1 DEF NowInv, RowsAreNow, FeaturesAreNow
  <2> QED
    BY <2>3, <2>4
<1>2. CASE UNCHANGED <<mode, stored, copies, derived>>
  BY <1>2, <1>c, NowStays DEF NowInv, derived
<1>3. CASE UNCHANGED <<mode, stored, copies>> /\ (Begin \/ Stage \/ TickEnds)
  <2>0. stored' = stored /\ copies' = copies
    BY <1>3
  <2>s. ASSUME NEW s \in Stages, Finishes(s)
        PROVE  /\ tick.stage = s /\ tick'.stage = StageAfter(s)
               /\ (s # "save" => tick'.since = tick.since /\ tick'.snap = tick.snap)
    BY <2>s DEF Finishes, TableTypes
  <2>a. /\ StageAfter("edges") = "counts" /\ StageAfter("counts") = "real" /\ StageAfter("real") = "stats"
        /\ StageAfter("stats") = "features" /\ StageAfter("features") = "save" /\ StageAfter("save") = "idle"
    BY DEF StageAfter
  <2>1. CASE tick'.stage \notin {"stats", "features", "save"}
    BY <2>1 DEF NowInv, RowsAreNow, FeaturesAreNow
  <2>2. CASE RecomputeEngagementReal
    <3>1. /\ tick.stage = "real" /\ tick'.stage = "stats" /\ tick'.since = tick.since /\ tick'.snap = tick.snap
          /\ real' = Put(real, EngagedNotes(tick.since) \intersect stored, Real)
      BY <2>2, <2>s, <2>a DEF RecomputeEngagementReal, Stages
    <3>2. tick.snap = stored => /\ (EngagedNotes(tick.since))' = EngagedNotes(tick.since)
                                /\ \A row, n : RowIsNow(row, n)' <=> RowIsNow(row, n)
      BY <1>c, <2>0, <3>1, NowStays
    <3>3. ASSUME tick'.snap = stored', NEW n \in (EngagedNotes(tick.since))' \intersect stored'
          PROVE  n \in DOMAIN real' /\ RowIsNow(real[n], n)'
      <4>1. tick.snap = stored /\ n \in EngagedNotes(tick.since) \intersect stored
        BY <2>0, <3>1, <3>2, <3>3
      <4>2. PICK row : row = Real(n)
        OBVIOUS
      <4>3. n \in DOMAIN real' /\ real'[n] = row
        BY <3>1, <4>1, <4>2 DEF Put
      <4>4. RowIsNow(row, n)
        BY <4>2 DEF Real, RowIsNow
      <4>5. RowIsNow(row, n)'
        BY <3>2, <4>1, <4>4
      <4> QED
        BY <4>3, <4>5
    <3>4. RowsAreNow'
      BY <3>3 DEF RowsAreNow
    <3> QED
      BY <3>1, <3>4 DEF NowInv, FeaturesAreNow
  <2>3. CASE RecomputeUserStats
    <3>1. /\ tick.stage = "stats" /\ tick'.stage = "features" /\ tick'.since = tick.since /\ tick'.snap = tick.snap
          /\ real' = real
      BY <2>3, <2>s, <2>a DEF RecomputeUserStats, Stages
    <3>2. RowsAreNow'
      BY <1>c, <2>0, <3>1, NowStays
    <3> QED
      BY <3>1, <3>2 DEF NowInv, FeaturesAreNow
  <2>4. CASE RecomputeRankFeatures
    <3>1. /\ tick.stage = "features" /\ tick'.stage = "save" /\ tick'.since = tick.since /\ tick'.snap = tick.snap
          /\ real' = real
      BY <2>4, <2>s, <2>a DEF RecomputeRankFeatures, Stages
    <3>2. RowsAreNow'
      BY <1>c, <2>0, <3>1, NowStays
    <3>3. tick.snap = stored => /\ (EngagedNotes(tick.since))' = EngagedNotes(tick.since)
                                /\ \A row, n : RowIsNow(row, n)' <=> RowIsNow(row, n)
      BY <1>c, <2>0, <3>1, NowStays
    <3>4. ASSUME tick'.snap = stored', NEW n \in (EngagedNotes(tick.since))' \intersect stored'
          PROVE  n \in DOMAIN features' /\ RowIsNow(features[n].real, n)' /\ features'[n].score = Score[Author[n]]
      <4>1. tick.snap = stored /\ n \in EngagedNotes(tick.since) \intersect stored
        BY <2>0, <3>1, <3>3, <3>4
      <4>2. PICK row : row = real[n]
        OBVIOUS
      <4>3. n \in DOMAIN real /\ RowIsNow(row, n)
        BY <3>1, <4>1, <4>2 DEF NowInv, RowsAreNow
      <4>4. n \in DOMAIN features' /\ features'[n] = [raw |-> Raw(n), real |-> RealOf(n), score |-> Score[Author[n]]]
        BY <2>4, <4>1 DEF RecomputeRankFeatures, Put
      <4>5. RealOf(n) = row
        BY <4>2, <4>3 DEF RealOf
      <4>6. features'[n].real = row /\ features'[n].score = Score[Author[n]]
        BY <4>4, <4>5
      <4>7. RowIsNow(row, n)'
        BY <3>3, <4>1, <4>3
      <4> QED
        BY <4>4, <4>6, <4>7
    <3>5. FeaturesAreNow'
      BY <3>4 DEF FeaturesAreNow
    <3> QED
      BY <3>2, <3>5 DEF NowInv
  <2>5. CASE Begin \/ TickEnds
    <3>1. tick \in [stage : Stages \union {"idle"}, since : Nat, snap : SUBSET stored]
      BY DEF TableTypes
    <3>2. CASE Begin
      <4>1. tick'.stage = "edges"
        BY <3>2 DEF Begin
      <4> QED
        BY <2>1, <4>1
    <3>3. CASE TickEnds
      <4>1. tick'.stage = "idle"
        BY <3>1, <3>3 DEF TickEnds
      <4> QED
        BY <2>1, <4>1
    <3> QED
      BY <2>5, <3>2, <3>3
  <2>6. CASE RecomputeEdges \/ RecomputeCounts \/ SaveRollupState
    <3>1. tick'.stage \in {"counts", "real", "idle"}
      BY <2>6, <2>s, <2>a DEF RecomputeEdges, RecomputeCounts, SaveRollupState, Stages
    <3> QED
      BY <2>1, <3>1
  <2> QED
    BY <1>3, <2>2, <2>3, <2>4, <2>5, <2>6 DEF Stage
<1> QED
  BY <1>1, <1>2, <1>3, StepKinds

\* A page of a sequence is finite.
LEMMA CutIsFinite ==
    ASSUME NEW n \in Nat, NEW s, s = [i \in 1..n |-> s[i]], NEW k \in Nat, NEW m \in Nat
    PROVE  IsFiniteSet(Elems(Page(s, k, m)))
<1> DEFINE T == {s[i] : i \in 1..n}
<1>1. s \in [1..n -> T]
  OBVIOUS
<1> HIDE DEF T
<1>2. s \in Seq(T)
  BY <1>1
<1>3. PICK p : p = Page(s, k, m)
  OBVIOUS
<1>4. IsCut(s, k, m, T)
  BY <1>2, PageOfSeq
<1>5. p \in Seq(T)
  BY <1>3, <1>4 DEF IsCut
<1>6. Len(p) \in Nat /\ DOMAIN p = 1..Len(p) /\ p \in [1..Len(p) -> T]
  BY <1>5
<1>7. p \in Surjection(1..Len(p), Elems(p))
  BY <1>6 DEF Surjection, Elems
<1>8. IsFiniteSet(1..Len(p))
  BY <1>6, Numbered
<1> QED
  BY <1>3, <1>7, <1>8, FS_Surjection

\* The candidates that features give are so many.
LEMMA FeatureIdsAreFinite ==
    ASSUME TableTypes, NEW r, NEW since
    PROVE  IsFiniteSet(FeatureIds(r, since))
<1> DEFINE S == {e \in DOMAIN features : At[e] >= since /\ (r.target.kinds # {} => Kind[e] \in r.target.kinds)
                                            /\ e \notin r.target.notIds /\ Author[e] \notin r.target.notAuthors}
           above(e, f) == \/ FeatureScore(r, e) > FeatureScore(r, f)
                          \/ FeatureScore(r, e) = FeatureScore(r, f) /\ Newer(e, f)
<1>1. FeatureIds(r, since) = Elems(Page(Ordered(S, above), 0, PoolDepth))
  BY DEF FeatureIds
<1>2. S \in SUBSET Events
  <2>1. DOMAIN features \subseteq stored /\ stored \in SUBSET Events
    BY StoredAreEvents DEF TableTypes
  <2> QED
    BY <2>1
<1> HIDE DEF S, above
<1>3. Cardinality(S) \in Nat
  BY <1>2, FS_Subset, FS_CardinalityType, EventsAssumption
<1>4. PICK s : s = Ordered(S, above)
  OBVIOUS
<1>5. s = [i \in 1..Cardinality(S) |-> s[i]]
  <2> DEFINE at(i) == CHOOSE e \in S : Cardinality({f \in S : above(f, e)}) = i - 1
  <2>1. s = [i \in 1..Cardinality(S) |-> at(i)]
    BY <1>4 DEF Ordered
  <2> HIDE DEF at
  <2> QED
    BY <2>1
<1>6. PICK k \in Nat : k = 0
  OBVIOUS
<1>7. PoolDepth \in Nat
  BY RankedAssumption
<1>8. IsFiniteSet(Elems(Page(s, k, PoolDepth)))
  BY <1>3, <1>5, <1>7, CutIsFinite
<1> QED
  BY <1>1, <1>4, <1>6, <1>8

\* Events for a request are stored.
LEMMA TargetsAreStored ==
    ASSUME TableTypes, NEW r \in Rankings, NEW ids, IsFiniteSet(ids)
    PROVE  Elems(TargetEvents(r, ids)) \subseteq stored
<1>1. CASE ids = {}
  BY <1>1 DEF TargetEvents, Elems
<1>2. CASE ids # {}
  <2>1. PICK q : q = [r.target EXCEPT !.ids = ids, !.limit = Cardinality(ids)]
    OBVIOUS
  <2>2. Cardinality(ids) \in Nat
    BY FS_CardinalityType
  <2>3. r.target \in Filters
    BY DEF Rankings
  <2>4. q.limit = Cardinality(ids) /\ q.offset = r.target.offset /\ r.target.offset \in Nat
    BY <2>1, <2>3 DEF Filters
  <2>5. Elems(QueryEvents(q)) \subseteq stored
    BY <2>2, <2>4, StoredAreEvents, ResultsAreStored
  <2> QED
    BY <1>2, <2>1, <2>5 DEF TargetEvents
<1> QED
  BY <1>1, <1>2

\* Actors with a score, when they are those that a request takes, are who its term counts;
\* nobody among them is the author.
LEMMA TermCountsActors ==
    ASSUME TableTypes, NEW n, NEW K, K # {}, NEW g, {u \in Users : WellFollowed(u, g)} = Scored,
           Author[n] \notin AuthorsOf(Referrers(n, K, "e")),
           Cardinality(Referrers(n, K, "e")) <= MaxLimit
    PROVE  LikesOf(n, K, g) = Cardinality(RealActors(Referrers(n, K, "e"), n))
<1>1. PICK q : q = [AnyEvent EXCEPT !.kinds = K, !.followers = g]
  OBVIOUS
<1>2. PICK L : L = Referrers(n, K, "e")
  OBVIOUS
<1>3. PICK R : R = Referring(q, "e", n)
  OBVIOUS
<1>4. stored \in SUBSET Events /\ L \in SUBSET Events
  BY <1>2, StoredAreEvents, ActsAreEvents
<1>i. AsksKinds(q, K, g)
  BY <1>1 DEF AsksKinds
<1>j. \A e : e \in Referring(q, "e", n) <=>
                 e \in Referrers(n, K, "e") /\ e \in Events /\ WellFollowed(Author[e], g)
  BY <1>i, KindReferring
<1>k. \A e : e \in R <=> e \in L /\ e \in Events /\ WellFollowed(Author[e], g)
  BY <1>2, <1>3, <1>j
<1>5. R = {e \in L : e \in Events /\ WellFollowed(Author[e], g)}
  BY <1>k
<1>6. Cardinality(R) <= MaxLimit
  <2>1. R \in SUBSET L
    BY <1>5
  <2>2. IsFiniteSet(L) /\ Cardinality(L) \in Nat /\ Cardinality(L) <= MaxLimit /\ MaxLimit \in Nat
    BY <1>2, <1>4, FS_Subset, FS_CardinalityType, EventsAssumption
  <2>3. Cardinality(R) <= Cardinality(L) /\ IsFiniteSet(R)
    BY <2>1, <2>2, FS_Subset
  <2>4. Cardinality(R) \in Nat
    BY <2>3, FS_CardinalityType
  <2> QED
    BY <2>2, <2>3, <2>4
<1>7. {u \in Users : ByTargetCounts(q, "e", n, MaxLimit).byAuthor[u] > 0} = AuthorsOf(R)
  BY <1>3, <1>4, <1>6, AllAreCounted
<1>8. AuthorsOf(R) = RealActors(L, n)
  <2>1. \A e \in L : Author[e] \in Users
    BY <1>4, EventsAssumption
  <2>2. \A u \in Users : WellFollowed(u, g) <=> u \in Scored
    OBVIOUS
  <2>3. \A e \in L : e \in R <=> Author[e] \in Scored
    BY <1>4, <1>5, <2>1, <2>2
  <2>4. R \subseteq L
    BY <1>5
  <2> QED
    BY <1>2, <2>3, <2>4 DEF AuthorsOf, RealActors
<1>9. LikesOf(n, K, g) = Cardinality({u \in Users : ByTargetCounts(q, "e", n, MaxLimit).byAuthor[u] > 0})
  BY <1>1 DEF LikesOf
<1> QED
  BY <1>2, <1>7, <1>8, <1>9

\* Rows of the moment give the scores of the moment.
LEMMA NowScores ==
    ASSUME TableTypes, NowInv, tick.stage = "save", tick.snap = stored, NEW r,
           {u \in Users : WellFollowed(u, r.gate)} = Scored,
           NEW n \in EngagedNotes(tick.since) \intersect stored,
           Author[n] \notin AuthorsOf(Referrers(n, {6, 7, 16}, "e")),
           Cardinality(Referrers(n, {7}, "e")) <= MaxLimit, Cardinality(Referrers(n, {6, 16}, "e")) <= MaxLimit
    PROVE  FeatureScore(r, n) = BaseScore(r, n)
<1>1. /\ features[n].real.likes = Cardinality(RealActors(Referrers(n, {7}, "e"), n))
      /\ features[n].real.reposts = Cardinality(RealActors(Referrers(n, {6, 16}, "e"), n))
      /\ features[n].score = Score[Author[n]]
  BY DEF NowInv, FeaturesAreNow, RowIsNow
<1>2. Author[n] \notin AuthorsOf(Referrers(n, {7}, "e")) /\ Author[n] \notin AuthorsOf(Referrers(n, {6, 16}, "e"))
  BY DEF AuthorsOf, Referrers
<1>3. LikesOf(n, {7}, r.gate) = features[n].real.likes
  BY <1>1, <1>2, TermCountsActors
<1>4. LikesOf(n, {6, 16}, r.gate) = features[n].real.reposts
  BY <1>1, <1>2, TermCountsActors
<1>5. AuthorScore(Author[n], r.gate) = IF WellFollowed(Author[n], r.gate) THEN features[n].score ELSE 0
  BY <1>1 DEF AuthorScore
<1> QED
  BY <1>3, <1>4, <1>5 DEF FeatureScore, BaseScore

\* What is read from the features right after a tick is what the moment gives.
LEMMA FeaturesAreOfNow == TableTypes /\ NowInv => FeaturesAgree
<1> SUFFICES ASSUME TableTypes, NowInv, tick.stage = "save", tick.snap = stored, NEW r \in Requests,
                    {u \in Users : WellFollowed(u, r.gate)} = Scored,
                    NEW S, S = Elems(TargetEvents(r, FeatureIds(r, tick.since))),
                    S \subseteq EngagedNotes(tick.since),
                    \A n \in S : /\ Author[n] \notin AuthorsOf(Referrers(n, {6, 7, 16}, "e"))
                                 /\ Cardinality(Referrers(n, {7}, "e")) <= MaxLimit
                                 /\ Cardinality(Referrers(n, {6, 16}, "e")) <= MaxLimit
             PROVE  FeaturePage(r, tick.since) = Finalize(r, S, [n \in S |-> BaseScore(r, n)])
  BY DEF FeaturesAgree
<1>1. r \in Rankings
  BY RequestsAreParsed DEF TableTypes
<1>2. S \subseteq stored
  BY <1>1, FeatureIdsAreFinite, TargetsAreStored
<1>3. \A n \in S : FeatureScore(r, n) = BaseScore(r, n)
  BY <1>2, NowScores
<1>4. [n \in S |-> FeatureScore(r, n)] = [n \in S |-> BaseScore(r, n)]
  BY <1>3
<1>5. FeaturePage(r, tick.since) = Finalize(r, S, [n \in S |-> FeatureScore(r, n)])
  BY DEF FeaturePage
<1> QED
  BY <1>4, <1>5

\* Ticks keep rows of the moment.
LEMMA NowHolds == Spec => []NowInv
<1>1. Init => NowInv
  BY DEF Init, Idle, NowInv, RowsAreNow, FeaturesAreNow
<1> QED
  BY <1>1, ReadTables, NowNext, PTL DEF Spec

\* Right after a tick that nothing came during, the page that is read from the
\* features is the one that scores of the moment give the same candidates, for every request
\* that they may serve (rankedEventViewsFromFeatures, weightedRankBaseScores).
THEOREM ReadsFeaturesAgree == Spec => []FeaturesAgree
  BY FeaturesAreOfNow, NowHolds, ReadTables, PTL

-----------------------------------------------------------------------------
(* Events by the targets of their tags *)

\* Of the tag rows of fewer events there are fewer.
LEMMA FewerCopies ==
    ASSUME TableTypes, NEW B \in SUBSET stored, NEW A \in SUBSET B, NEW key
    PROVE  /\ CopiesIn(A, key) \in Nat /\ CopiesIn(B, key) \in Nat
           /\ CopiesIn(A, key) <= CopiesIn(B, key)
<1> DEFINE rowsOf(S) == UNION {{e} \X (1..RowsOf(e, key)) : e \in S}
<1>1. rowsOf(A) \in SUBSET rowsOf(B)
  OBVIOUS
<1>2. rowsOf(B) \in SUBSET (Events \X (1..2))
  <2>1. \A e \in B : e \in Events /\ copies[e] \in 0..2
    BY StoredAreEvents DEF TableTypes
  <2>2. ASSUME NEW e \in B, NEW x \in {e} \X (1..RowsOf(e, key)) PROVE x \in Events \X (1..2)
    BY <2>1 DEF RowsOf
  <2> QED
    BY <2>2
<1>3. IsFiniteSet(Events \X (1..2))
  <2>1. PICK two \in Nat : two = 2
    OBVIOUS
  <2>2. IsFiniteSet(1..two)
    BY Numbered
  <2> QED
    BY <2>1, <2>2, FS_Product, EventsAssumption
<1>4. CopiesIn(A, key) = Cardinality(rowsOf(A)) /\ CopiesIn(B, key) = Cardinality(rowsOf(B))
  BY DEF CopiesIn
<1> HIDE DEF rowsOf
<1>5. IsFiniteSet(rowsOf(B))
  BY <1>2, <1>3, FS_Subset
<1>6. IsFiniteSet(rowsOf(A)) /\ Cardinality(rowsOf(A)) <= Cardinality(rowsOf(B))
  BY <1>1, <1>5, FS_Subset
<1> QED
  BY <1>4, <1>5, <1>6, FS_CardinalityType

\* When no tag row is there twice, there are as many rows as events.
LEMMA OneCopyEach ==
    ASSUME NEW A \in SUBSET Events, NEW key, \A e \in A : RowsOf(e, key) = 1
    PROVE  CopiesIn(A, key) = Cardinality(A)
<1> DEFINE all == UNION {{e} \X (1..RowsOf(e, key)) : e \in A}
           f == [e \in A |-> <<e, 1>>]
<1>1. \A x : x \in all <=> \E e \in A : x = <<e, 1>>
  <2>1. ASSUME NEW e \in A, NEW x PROVE x \in {e} \X (1..RowsOf(e, key)) <=> x = <<e, 1>>
    <3>1. 1..RowsOf(e, key) = {1}
      OBVIOUS
    <3> QED
      BY <3>1
  <2> QED
    BY <2>1
<1>2. f \in [A -> all] /\ \A x \in all : \E e \in A : f[e] = x
  BY <1>1
<1>3. \A e, g \in A : f[e] = f[g] => e = g
  OBVIOUS
<1>4. CopiesIn(A, key) = Cardinality(all)
  BY DEF CopiesIn
<1> HIDE DEF all, f
<1>5. f \in Surjection(A, all) /\ f \in Injection(A, all)
  BY <1>2, <1>3 DEF Surjection, Injection, IsInjective
<1>6. IsFiniteSet(A)
  BY FS_Subset, EventsAssumption
<1>7. Cardinality(all) = Cardinality(A)
  BY <1>5, <1>6, FS_Surjection
<1> QED
  BY <1>4, <1>7

\* F are some of R with all that is newer, so that everything has the same place in both.
IsFront(F, R) == F \in SUBSET R /\ \A e \in F, f \in R : Newer(f, e) => f \in F

LEMMA FrontPlaces ==
    ASSUME NEW F, NEW R, IsFront(F, R), NEW e \in F
    PROVE  Place(F, e) = Place(R, e)
<1>1. {f \in F : Newer(f, e)} = {f \in R : Newer(f, e)}
  BY DEF IsFront
<1> QED
  BY <1>1 DEF Place

\* Newer than what is newer.
LEMMA NewerYet ==
    ASSUME NEW e \in Events, NEW f \in Events, NEW g \in Events, Newer(g, f), Newer(f, e)
    PROVE  Newer(g, e)
<1>1. e \in Nat /\ f \in Nat /\ g \in Nat /\ At[e] \in Nat /\ At[f] \in Nat /\ At[g] \in Nat
  BY EventsAssumption
<1> QED
  BY <1>1 DEF Newer

\* The events with one of the first rows are the newest.
LEMMA FirstRowsAreFront ==
    ASSUME TableTypes, NEW R \in SUBSET stored, NEW key, NEW n \in Nat
    PROVE  IsFront(FirstRows(R, key, n), R)
<1>0. R \in SUBSET Events
  BY StoredAreEvents
<1>1. FirstRows(R, key, n) \in SUBSET R
  BY DEF FirstRows
<1>2. ASSUME NEW e \in FirstRows(R, key, n), NEW f \in R, Newer(f, e)
      PROVE  f \in FirstRows(R, key, n)
  <2> DEFINE A == {g \in R : Newer(g, f)}
             B == {g \in R : Newer(g, e)}
  <2>1. e \in R /\ CopiesIn(B, key) < n
    BY <1>2 DEF FirstRows
  <2>2. A \in SUBSET B /\ B \in SUBSET stored
    BY <1>0, <1>2, <2>1, NewerYet
  <2> HIDE DEF A, B
  <2>3. CopiesIn(A, key) \in Nat /\ CopiesIn(B, key) \in Nat /\ CopiesIn(A, key) <= CopiesIn(B, key)
    BY <2>2, FewerCopies
  <2>4. CopiesIn(A, key) < n
    BY <2>1, <2>3
  <2> QED
    BY <2>4 DEF FirstRows, A
<1> QED
  BY <1>1, <1>2 DEF IsFront

\* s is how t begins.
Begins(s, t) == Len(s) <= Len(t) /\ s = SubSeq(t, 1, Len(s))

\* How long a page of c events is.
PageLen(c, k, n) == IF c <= k THEN 0 ELSE IF c <= k + n THEN c - k ELSE n

\* More events are a longer page or one as long; one that is full is of that many.
LEMMA LongerPages ==
    ASSUME NEW c \in Nat, NEW d \in Nat, c <= d, NEW k \in Nat, NEW n \in Nat
    PROVE  /\ PageLen(c, k, n) \in Nat /\ PageLen(d, k, n) \in Nat
           /\ PageLen(c, k, n) <= PageLen(d, k, n) /\ PageLen(d, k, n) <= n
           /\ (PageLen(d, k, n) > 0 => c >= k + PageLen(d, k, n)) => PageLen(c, k, n) = PageLen(d, k, n)
  BY DEF PageLen

\* A page of the newest, as its places say.
IsPageOf(p, S, k, n) ==
    /\ p \in Seq(S) /\ Len(p) = PageLen(Cardinality(S), k, n)
    /\ \A i \in 1..Len(p) : p[i] \in S /\ Place(S, p[i]) = k + i - 1

LEMMA NewestPage ==
    ASSUME NEW S \in SUBSET Events, NEW k \in Nat, NEW n \in Nat
    PROVE  IsPageOf(Page(Newest(S), k, n), S, k, n)
<1>1. PICK p : p = Page(Newest(S), k, n)
  OBVIOUS
<1>2. p \in Seq(S) /\ \A i \in 1..Len(p) : p[i] \in S /\ Place(S, p[i]) = k + i - 1
  BY <1>1, PageOfNewest
<1>3. Cardinality(S) <= k => Len(p) = 0
  BY <1>1, PageOfNewest
<1>4. Cardinality(S) > k /\ Cardinality(S) <= k + n => Len(p) = Cardinality(S) - k
  BY <1>1, PageOfNewest
<1>5. Cardinality(S) > k + n => Len(p) = n
  BY <1>1, PageOfNewest
<1>6. Cardinality(S) \in Nat
  BY NewestIsSorted
<1>7. Len(p) = PageLen(Cardinality(S), k, n)
  BY <1>3, <1>4, <1>5, <1>6 DEF PageLen
<1> QED
  BY <1>1, <1>2, <1>7 DEF IsPageOf

\* A page of the front is how the page of all begins; it is the whole page if the front has
\* all that the page is about.
LEMMA FrontPage ==
    ASSUME NEW R \in SUBSET Events, NEW F, IsFront(F, R), NEW k \in Nat, NEW n \in Nat
    PROVE  /\ Begins(Page(Newest(F), k, n), Page(Newest(R), k, n))
           /\ (\A e \in R : Place(R, e) < k + n => e \in F) => Page(Newest(F), k, n) = Page(Newest(R), k, n)
<1>1. PICK s, t : s = Page(Newest(F), k, n) /\ t = Page(Newest(R), k, n)
  OBVIOUS
<1>2. F \in SUBSET R /\ F \in SUBSET Events
  BY DEF IsFront
<1>3. IsPageOf(s, F, k, n) /\ IsPageOf(t, R, k, n)
  BY <1>1, <1>2, NewestPage
<1>4. /\ IsFiniteSet(R) /\ Cardinality(R) \in Nat /\ Cardinality(F) \in Nat
      /\ \A e \in R : Newest(R)[Place(R, e) + 1] = e
      /\ \A e \in F : Place(F, e) \in 0..(Cardinality(F) - 1)
  BY <1>2, NewestIsSorted
<1>5. Cardinality(F) <= Cardinality(R)
  BY <1>2, <1>4, FS_Subset
<1>6. /\ Len(s) \in Nat /\ Len(t) \in Nat /\ s \in Seq(F) /\ t \in Seq(R)
      /\ DOMAIN s = 1..Len(s) /\ DOMAIN t = 1..Len(t)
  BY <1>3 DEF IsPageOf
<1>l. PICK c, d : c = Cardinality(F) /\ d = Cardinality(R)
  OBVIOUS
<1>m. /\ Len(s) = PageLen(c, k, n) /\ Len(t) = PageLen(d, k, n)
      /\ c \in Nat /\ d \in Nat /\ c <= d
  BY <1>3, <1>4, <1>5, <1>l DEF IsPageOf
<1>7. Len(s) <= Len(t) /\ Len(t) <= n
  BY <1>m, LongerPages
<1>8. ASSUME NEW i \in 1..Len(s) PROVE s[i] = t[i]
  <2>1. i \in 1..Len(t)
    BY <1>6, <1>7
  <2>2. s[i] \in F /\ Place(F, s[i]) = k + i - 1 /\ t[i] \in R /\ Place(R, t[i]) = k + i - 1
    BY <1>3, <2>1 DEF IsPageOf
  <2>3. Place(R, s[i]) = k + i - 1
    BY <2>2, FrontPlaces
  <2> QED
    BY <1>2, <1>4, <2>2, <2>3
<1>9. SubSeq(t, 1, Len(s)) = s
  <2>1. \A i \in 1..Len(s) : t[i] \in R
    <3>1. \A i \in 1..Len(t) : t[i] \in R
      BY <1>6
    <3> QED
      BY <1>6, <1>7, <3>1
  <2>2. PICK u : u = SubSeq(t, 1, Len(s))
    OBVIOUS
  <2>3. /\ u \in Seq(R) /\ Len(u) = (IF 1 <= Len(s) THEN Len(s) - 1 + 1 ELSE 0)
        /\ \A i \in 1..(Len(s) - 1 + 1) : u[i] = t[1 + i - 1]
    BY <1>6, <2>1, <2>2, SubSeqProperties
  <2>4. Len(u) = Len(s)
    BY <1>6, <2>3
  <2>5. \A i \in 1..Len(s) : u[i] = s[i]
    BY <1>6, <1>8, <2>3
  <2>6. u = s
    BY <1>6, <2>3, <2>4, <2>5
  <2> QED
    BY <2>2, <2>6
<1>10. ASSUME \A e \in R : Place(R, e) < k + n => e \in F PROVE s = t
  <2>1. ASSUME Len(t) > 0 PROVE Cardinality(F) >= k + Len(t)
    <3>1. PICK i : i = Len(t)
      OBVIOUS
    <3>2. i \in 1..Len(t)
      BY <1>6, <2>1, <3>1
    <3>3. t[i] \in R /\ Place(R, t[i]) = k + i - 1
      BY <1>3, <3>2 DEF IsPageOf
    <3>4. Place(R, t[i]) < k + n
      BY <1>6, <1>7, <3>1, <3>3
    <3>5. t[i] \in F
      BY <1>10, <3>3, <3>4
    <3>6. Place(F, t[i]) = k + i - 1 /\ Place(F, t[i]) \in 0..(Cardinality(F) - 1)
      BY <1>4, <3>3, <3>5, FrontPlaces
    <3> QED
      BY <1>4, <1>6, <3>1, <3>6
  <2>2. PageLen(d, k, n) > 0 => c >= k + PageLen(d, k, n)
    BY <1>l, <1>m, <2>1
  <2>3. Len(s) = Len(t)
    BY <1>m, <2>2, LongerPages
  <2> QED
    BY <1>6, <1>8, <2>3
<1>11. Begins(s, t)
  BY <1>7, <1>9 DEF Begins
<1> QED
  BY <1>1, <1>10, <1>11

\* When all of a sequence is kept it stays as it is.
LEMMA KeptAll ==
    ASSUME NEW T, NEW s \in Seq(T), NEW S, \A i \in 1..Len(s) : s[i] \in S
    PROVE  Kept(s, S) = s
<1> DEFINE I == {i \in DOMAIN s : s[i] \in S}
           before(i, j) == i < j
           places == Ordered(I, before)
<1>1. PICK n \in Nat : n = Len(s)
  OBVIOUS
<1>2. DOMAIN s = 1..n /\ s \in [1..n -> T]
  BY <1>1
<1>3. I = 1..n
  BY <1>1, <1>2
<1>4. Kept(s, S) = [k \in DOMAIN places |-> s[places[k]]]
  BY DEF Kept, Picked
<1>5. places = [k \in 1..Cardinality(I) |-> CHOOSE i \in I : Cardinality({j \in I : before(j, i)}) = k - 1]
  BY DEF Ordered
<1>6. \A i \in 1..n : Cardinality({j \in 1..n : before(j, i)}) = i - 1
  <2> SUFFICES ASSUME NEW i \in 1..n PROVE Cardinality({j \in 1..n : j < i}) = i - 1
    OBVIOUS
  <2>1. PICK m \in Nat : m = i - 1
    BY <1>1
  <2>2. {j \in 1..n : j < i} = 1..m
    BY <1>1, <2>1
  <2> QED
    BY <2>1, <2>2, Numbered
<1>7. Cardinality(1..n) = n
  BY Numbered
<1> HIDE DEF I, before
<1>8. places = [k \in 1..n |-> CHOOSE i \in 1..n : Cardinality({j \in 1..n : before(j, i)}) = k - 1]
  BY <1>3, <1>5, <1>7
<1> HIDE DEF places
<1>9. ASSUME NEW k \in 1..n PROVE places[k] = k
  <2>1. places[k] = CHOOSE i \in 1..n : Cardinality({j \in 1..n : before(j, i)}) = k - 1
    BY <1>8
  <2>2. \A i \in 1..n : Cardinality({j \in 1..n : before(j, i)}) = k - 1 <=> i = k
    BY <1>1, <1>6
  <2> QED
    BY <2>1, <2>2
<1>10. DOMAIN places = 1..n
  BY <1>8
<1>11. Kept(s, S) = [k \in 1..n |-> s[k]]
  BY <1>4, <1>9, <1>10
<1> QED
  BY <1>2, <1>11

\* A query for events by their ids gives all of them, when they are stored and no more than
\* one query fetches.
LEMMA FoundById ==
    ASSUME stored \in SUBSET Events, NEW S \in SUBSET stored, Cardinality(S) <= MaxLimit
    PROVE  S \subseteq EventsByIds(S)
<1>1. CASE S = {}
  BY <1>1
<1>2. CASE S # {}
  <2>0. IsFiniteSet(S) /\ Cardinality(S) \in Nat /\ S \in SUBSET Events
    BY FS_Subset, FS_CardinalityType, EventsAssumption
  <2>1. Cardinality(S) # 0
    BY <1>2, <2>0, FS_EmptySet
  <2>2. PICK q : q = [AnyEvent EXCEPT !.ids = S, !.limit = Cardinality(S)]
    OBVIOUS
  <2>3. /\ q.ids = S /\ q.authors = {} /\ q.notIds = {} /\ q.notAuthors = {} /\ q.kinds = {}
        /\ q.tags = {} /\ q.texts = Events /\ q.followers = -1 /\ q.since = 0 /\ q.until = 0
        /\ q.limit = Cardinality(S) /\ q.offset = 0
    BY <2>2 DEF AnyEvent
  <2>4. Matching(q) = S
    BY <1>2, <2>3 DEF Matching, Matches, InWindow, WellFollowed
  <2>5. Limited(q.limit, MaxLimit, DefaultLimit) = Cardinality(S)
    BY <2>0, <2>1, <2>3, MostIsAllowed DEF Limited
  <2>6. QueryEvents(q) = Page(Newest(S), 0, Cardinality(S))
    BY <2>3, <2>4, <2>5 DEF QueryEvents
  <2>7. Elems(QueryEvents(q)) = {e \in S : Place(S, e) < Cardinality(S)}
    BY <2>0, <2>6, FirstOfNewest
  <2>8. \A e \in S : Place(S, e) \in 0..(Cardinality(S) - 1)
    BY <2>0, NewestIsSorted
  <2>9. S \subseteq Elems(QueryEvents(q))
    BY <2>0, <2>7, <2>8
  <2> QED
    BY <2>2, <2>9 DEF EventsByIds
<1> QED
  BY <1>1, <1>2

\* What is on a page of the newest of S is of S.
LEMMA PageIsOf ==
    ASSUME NEW S \in SUBSET Events, NEW k \in Nat, NEW n \in Nat
    PROVE  /\ Page(Newest(S), k, n) \in Seq(S)
           /\ \A i \in 1..Len(Page(Newest(S), k, n)) : Page(Newest(S), k, n)[i] \in S
           /\ Elems(Newest(S)) = S
<1>1. IsPageOf(Page(Newest(S), k, n), S, k, n)
  BY NewestPage
<1>2. /\ Newest(S) \in Seq(S) /\ Len(Newest(S)) = Cardinality(S) /\ Cardinality(S) \in Nat
      /\ \A e \in S : Place(S, e) \in 0..(Cardinality(S) - 1) /\ Newest(S)[Place(S, e) + 1] = e
  BY NewestIsSorted
<1>3. Elems(Newest(S)) = S
  <2>1. PICK s : s = Newest(S)
    OBVIOUS
  <2>2. DOMAIN s = 1..Cardinality(S) /\ \A i \in DOMAIN s : s[i] \in S
    BY <1>2, <2>1
  <2>3. \A e \in S : Place(S, e) + 1 \in DOMAIN s /\ s[Place(S, e) + 1] = e
    BY <1>2, <2>1, <2>2
  <2>4. Elems(s) = S
    BY <2>2, <2>3 DEF Elems
  <2> QED
    BY <2>1, <2>4
<1> QED
  BY <1>1, <1>3 DEF IsPageOf

\* A query for kinds alone, from an offset on, and a filter for a tag alone.
OfKinds(q, K, k) == q = [AnyEvent EXCEPT !.kinds = K, !.offset = k]
OfKey(t, key) == t = [AnyTag EXCEPT !.key = key]

\* What the tag rows of a target are filtered by is what the query asks for, when it asks for
\* kinds alone.
LEMMA RowsAreReferring ==
    ASSUME stored \in SUBSET Events, NEW K, NEW k, NEW key, NEW x, NEW q, OfKinds(q, K, k)
    PROVE  /\ ReferringRows(q, key, x) = Referring(q, key, x)
           /\ Referring(q, key, x) \in SUBSET stored /\ q.offset = k
<1>1. /\ q.ids = {} /\ q.authors = {} /\ q.notIds = {} /\ q.notAuthors = {} /\ q.kinds = K
      /\ q.tags = {} /\ q.texts = Events /\ q.followers = -1 /\ q.since = 0 /\ q.until = 0 /\ q.offset = k
  BY DEF AnyEvent, OfKinds
<1>2. PICK t : t = TagFilters(q)
  OBVIOUS
<1>3. /\ t.ids = {} /\ t.authors = {} /\ t.notIds = {} /\ t.notAuthors = {} /\ t.kinds = K
      /\ t.tags = {} /\ t.texts = Events /\ t.followers = -1
  BY <1>1, <1>2 DEF AnyEvent, TagFilters
<1>4. \A e : Matches(e, t) <=> Matches(e, q)
  BY <1>1, <1>3 DEF Matches
<1>5. ReferringRows(q, key, x) = Referring(q, key, x)
  BY <1>2, <1>4 DEF ReferringRows, Referring, Matching
<1> QED
  BY <1>1, <1>5 DEF Referring, Matching

\* The page of a target: of its events that have one of the first rows.
TargetPage(q, key, x, k, per) == Page(Newest(FirstRows(Referring(q, key, x), key, per + k)), k, per)

GivesPages(q, t, T, key, k, per) ==
    /\ FromTags(q, t, T, per, 1000) = [x \in T |-> TargetPage(q, key, x, k, per)]
    /\ FromJoin(q, t, T, per, 1000) = [x \in T |-> TargetPage(q, key, x, k, per)]
FewFound(q, T, key, per) ==
    Cardinality(UNION {Elems(TargetIds(q, key, x, per, 1000)) : x \in T}) <= MaxLimit

\* The scan and the join both give each target its page.
LEMMA BothGivePages ==
    ASSUME TableTypes, NEW key, NEW K, NEW k \in Nat, NEW per \in 1..MaxLimit, per + k <= 1000, NEW T,
           NEW q, OfKinds(q, K, k), NEW t, OfKey(t, key),
           FewFound(q, T, key, per)
    PROVE  GivesPages(q, t, T, key, k, per)
<1>1. stored \in SUBSET Events /\ MaxLimit \in Nat /\ per \in Nat
  BY StoredAreEvents, EventsAssumption
<1>2. t.key = key /\ t.values = {}
  BY DEF AnyTag, OfKey
<1>3. Targets(T, t) = T
  BY <1>2 DEF Targets
<1>4. Limited(per, MaxLimit, DefaultLimit) = per
  BY <1>1 DEF Limited
<1>5. /\ \A x : ReferringRows(q, key, x) = Referring(q, key, x) /\ Referring(q, key, x) \in SUBSET stored
      /\ q.offset = k
  <2>1. ASSUME NEW x
        PROVE  /\ ReferringRows(q, key, x) = Referring(q, key, x)
               /\ Referring(q, key, x) \in SUBSET stored /\ q.offset = k
    BY <1>1, RowsAreReferring
  <2> QED
    BY <2>1
<1>6. RowLimit(per, q.offset, 1000) = per + k
  BY <1>1, <1>5 DEF RowLimit
<1>7. PICK F : F = [x \in T |-> FirstRows(Referring(q, key, x), key, per + k)]
  OBVIOUS
<1>8. \A x \in T : F[x] = FirstRows(Referring(q, key, x), key, per + k)
  BY <1>7
<1>9. \A x \in T : F[x] \in SUBSET stored /\ F[x] \in SUBSET Events
  <2> SUFFICES ASSUME NEW x \in T PROVE F[x] \in SUBSET stored /\ F[x] \in SUBSET Events
    OBVIOUS
  <2>1. F[x] \subseteq Referring(q, key, x)
    BY <1>8 DEF FirstRows
  <2> QED
    BY <1>1, <1>5, <2>1
<1>10. \A x \in T : TargetIds(q, key, x, per, 1000) = Newest(F[x])
  BY <1>5, <1>6, <1>8 DEF TargetIds
<1>11. PICK found : found = UNION {Elems(TargetIds(q, key, x, per, 1000)) : x \in T}
  OBVIOUS
<1>12. \A x \in T : Elems(TargetIds(q, key, x, per, 1000)) = F[x]
  <2> SUFFICES ASSUME NEW x \in T PROVE Elems(TargetIds(q, key, x, per, 1000)) = F[x]
    OBVIOUS
  <2>1. PICK G : G = F[x]
    OBVIOUS
  <2>2. Elems(Newest(G)) = G
    BY <1>1, <1>9, <2>1, PageIsOf
  <2> QED
    BY <1>10, <2>1, <2>2
<1>13. found \in SUBSET stored /\ \A x \in T : F[x] \subseteq found
  BY <1>9, <1>11, <1>12
<1>14. found \subseteq EventsByIds(found)
  <2>1. Cardinality(found) <= MaxLimit
    BY <1>11 DEF FewFound
  <2> QED
    BY <1>1, <1>13, <2>1, FoundById
<1>15. ASSUME NEW x \in T
       PROVE  Kept(Page(TargetIds(q, key, x, per, 1000), k, per), EventsByIds(found)) = TargetPage(q, key, x, k, per)
  <2>1. PICK p : p = Page(Newest(F[x]), k, per)
    OBVIOUS
  <2>2. p \in Seq(F[x]) /\ \A i \in 1..Len(p) : p[i] \in F[x]
    BY <1>1, <1>9, <2>1, PageIsOf
  <2>3. \A i \in 1..Len(p) : p[i] \in EventsByIds(found)
    BY <1>13, <1>14, <2>2
  <2>4. Kept(p, EventsByIds(found)) = p
    BY <2>2, <2>3, KeptAll
  <2>5. p = TargetPage(q, key, x, k, per)
    BY <1>8, <2>1 DEF TargetPage
  <2>6. Page(TargetIds(q, key, x, per, 1000), k, per) = p
    BY <1>10, <2>1
  <2> QED
    BY <2>4, <2>5, <2>6
<1>16. FromTags(q, t, T, per, 1000) =
           [x \in T |-> Kept(Page(TargetIds(q, key, x, per, 1000), k, per), EventsByIds(found))]
  <2>1. FromTags(q, t, T, per, 1000) =
            [x \in T |-> IF x \in T
                         THEN Kept(Page(TargetIds(q, t.key, x, per, 1000), q.offset, per),
                                   EventsByIds(UNION {Elems(TargetIds(q, t.key, y, per, 1000)) : y \in T}))
                         ELSE <<>>]
    BY <1>3, <1>4 DEF FromTags
  <2>2. UNION {Elems(TargetIds(q, t.key, y, per, 1000)) : y \in T} = found
    BY <1>2, <1>11
  <2>3. FromTags(q, t, T, per, 1000) =
            [x \in T |-> IF x \in T
                         THEN Kept(Page(TargetIds(q, t.key, x, per, 1000), q.offset, per), EventsByIds(found))
                         ELSE <<>>]
    BY <2>1, <2>2
  <2> QED
    BY <1>2, <1>5, <2>3
<1>17. FromJoin(q, t, T, per, 1000) = [x \in T |-> TargetPage(q, key, x, k, per)]
  BY <1>2, <1>3, <1>4, <1>5, <1>6 DEF FromJoin, TargetPage
<1>18. FromTags(q, t, T, per, 1000) = [x \in T |-> TargetPage(q, key, x, k, per)]
  BY <1>15, <1>16
<1> QED
  BY <1>17, <1>18 DEF GivesPages

\* The page of a target is how the page of the newest that refer to it begins, and all of it
\* when no tag row is there twice.
LEMMA TargetPageBegins ==
    ASSUME TableTypes, NEW key \in {"e", "p"}, NEW q, NEW x, NEW k \in Nat, NEW per \in Nat
    PROVE  /\ Begins(TargetPage(q, key, x, k, per), Page(Newest(Referring(q, key, x)), k, per))
           /\ (\A e \in stored : copies[e] <= 1) =>
                  TargetPage(q, key, x, k, per) = Page(Newest(Referring(q, key, x)), k, per)
<1>1. PICK R : R = Referring(q, key, x)
  OBVIOUS
<1>2. PICK F : F = FirstRows(R, key, per + k)
  OBVIOUS
<1>3. R \in SUBSET stored /\ R \in SUBSET Events
  BY <1>1, StoredAreEvents DEF Referring, Matching
<1>4. IsFront(F, R)
  BY <1>2, <1>3, FirstRowsAreFront
<1>5. TargetPage(q, key, x, k, per) = Page(Newest(F), k, per)
  BY <1>1, <1>2 DEF TargetPage
<1>6. Begins(Page(Newest(F), k, per), Page(Newest(R), k, per))
  BY <1>3, <1>4, FrontPage
<1>7. ASSUME \A e \in stored : copies[e] <= 1, NEW e \in R, Place(R, e) < k + per PROVE e \in F
  <2>1. \A f \in R : copies[f] \in 0..2 /\ copies[f] <= 1 /\ copies[f] # 0
    BY <1>1, <1>3, <1>7 DEF TableTypes, Referring, Tagged
  <2>2. \A f \in R : RowsOf(f, key) = 1
    BY <2>1 DEF RowsOf
  <2>3. PICK A : A = {f \in R : Newer(f, e)}
    OBVIOUS
  <2>4. A \in SUBSET Events /\ \A f \in A : RowsOf(f, key) = 1
    BY <1>3, <2>2, <2>3
  <2>5. CopiesIn(A, key) = Cardinality(A)
    BY <2>4, OneCopyEach
  <2>6. Cardinality(A) = Place(R, e)
    BY <2>3 DEF Place
  <2>7. CopiesIn(A, key) < per + k
    BY <1>7, <2>5, <2>6
  <2> QED
    BY <1>2, <2>3, <2>7 DEF FirstRows
<1>8. (\A e \in stored : copies[e] <= 1) => Page(Newest(F), k, per) = Page(Newest(R), k, per)
  BY <1>3, <1>4, <1>7, FrontPage
<1> QED
  BY <1>1, <1>5, <1>6, <1>8

\* What is answered for targets are pages.
LEMMA TargetsArePages == TableTypes => ByTargetsIsPage
<1> SUFFICES ASSUME TableTypes, NEW key \in {"e", "p"}, NEW kinds \in {{}, {7}},
                    NEW per \in 1..Least(2, MaxLimit), NEW k \in 0..1
             PROVE  LET q == [AnyEvent EXCEPT !.kinds = kinds, !.offset = k]
                        T == IF key = "e" THEN Here.events ELSE Users
                        t == [AnyTag EXCEPT !.key = key]
                        got == FromTags(q, t, T, per, 1000)
                        ids == UNION {Elems(TargetIds(q, key, x, per, 1000)) : x \in T}
                    IN  Cardinality(ids) <= MaxLimit =>
                        /\ got = FromJoin(q, t, T, per, 1000)
                        /\ \A x \in T :
                              LET true == Page(Newest(Referring(q, key, x)), k, per)
                              IN  /\ Len(got[x]) <= Len(true) /\ got[x] = SubSeq(true, 1, Len(got[x]))
                                  /\ (\A e \in stored : copies[e] <= 1) => got[x] = true
  BY DEF ByTargetsIsPage
<1>1. PICK q : q = [AnyEvent EXCEPT !.kinds = kinds, !.offset = k]
  OBVIOUS
<1>2. PICK T : T = IF key = "e" THEN Here.events ELSE Users
  OBVIOUS
<1>3. PICK t : t = [AnyTag EXCEPT !.key = key]
  OBVIOUS
<1>4. PICK got : got = FromTags(q, t, T, per, 1000)
  OBVIOUS
<1>5. PICK ids : ids = UNION {Elems(TargetIds(q, key, x, per, 1000)) : x \in T}
  OBVIOUS
<1>6. per \in 1..MaxLimit /\ per \in Nat /\ k \in Nat /\ per + k <= 1000
  <2>1. MaxLimit \in Nat /\ Least(2, MaxLimit) \in Nat /\ Least(2, MaxLimit) <= MaxLimit /\ Least(2, MaxLimit) <= 2
    BY MostIsAllowed DEF Least
  <2> QED
    BY <2>1
<1>7. ASSUME Cardinality(ids) <= MaxLimit
      PROVE  /\ got = [x \in T |-> TargetPage(q, key, x, k, per)]
             /\ FromJoin(q, t, T, per, 1000) = [x \in T |-> TargetPage(q, key, x, k, per)]
  <2>1. OfKinds(q, kinds, k) /\ OfKey(t, key)
    BY <1>1, <1>3 DEF OfKinds, OfKey
  <2>2. FewFound(q, T, key, per)
    BY <1>5, <1>7 DEF FewFound
  <2>3. GivesPages(q, t, T, key, k, per)
    BY <1>6, <2>1, <2>2, BothGivePages
  <2> QED
    BY <1>4, <2>3 DEF GivesPages
<1>8. ASSUME Cardinality(ids) <= MaxLimit, NEW x \in T
      PROVE  LET true == Page(Newest(Referring(q, key, x)), k, per)
             IN  /\ Len(got[x]) <= Len(true) /\ got[x] = SubSeq(true, 1, Len(got[x]))
                 /\ (\A e \in stored : copies[e] <= 1) => got[x] = true
  <2>1. got[x] = TargetPage(q, key, x, k, per)
    BY <1>7, <1>8
  <2>2. PICK p : p = TargetPage(q, key, x, k, per)
    OBVIOUS
  <2>3. PICK true : true = Page(Newest(Referring(q, key, x)), k, per)
    OBVIOUS
  <2>4. Begins(p, true) /\ ((\A e \in stored : copies[e] <= 1) => p = true)
    BY <1>6, <2>2, <2>3, TargetPageBegins
  <2>5. Len(p) <= Len(true) /\ p = SubSeq(true, 1, Len(p))
    BY <2>4 DEF Begins
  <2> QED
    BY <2>1, <2>2, <2>3, <2>4, <2>5
<1>9. Cardinality(ids) <= MaxLimit => got = FromJoin(q, t, T, per, 1000)
  BY <1>7
<1> QED
  BY <1>1, <1>2, <1>3, <1>4, <1>5, <1>8, <1>9

\* What QueryEventsByTagTargets answers for a target is how the page of the newest
\* that refer to it begins, and all of that page when no tag row is there twice; the scan of
\* the tags and the join give the same (queryEventsByTagTargetsFromTags).
THEOREM ReadsByTargetsIsPage == Spec => []ByTargetsIsPage
  BY TargetsArePages, ReadTables, PTL

\* Two ways to one answer give one answer: the rollup and the lists, the features and
\* the scores of the moment, the tags and their join, one aggregate and another, as long as
\* no limit is reached; and what actors with a score did is part of what was done.
THEOREM ReadsWaysAgree == Spec => []WaysAgree
  BY ReadsFollowCountsAgree, ReadsSocialGraphAgrees, ReadsFeaturesAgree, ReadsByTargetsIsPage,
     ReadsCountsAgree, ReadsRealWithinRaw, PTL DEF WaysAgree
=============================================================================
