-------------------------- MODULE ReadsWalksProofs --------------------------
(***************************************************************************)
(* Proofs about the reads that walk, for any events, limits and requests:  *)
(* threads, chains, roots and references; and about who scrolls through    *)
(* groups of notifications.                                                *)
(*                                                                         *)
(* What the code walks step by step, a thread, a chain, roots, references, *)
(* is a recursive function here.  There is one that takes each step from   *)
(* the one before (IsWalk), so what a step keeps holds at the end, or else *)
(* there was a first step that broke it (UpTo): what was found so far      *)
(* (ThreadInv), how far up a root is (RootInv), that a chain goes further  *)
(* down (GoesDown), which sources were fetched (RoundInv).  No walk comes  *)
(* back, for an event is further down than what it refers to (Height).     *)
(* Who scrolls through groups is followed by GroupInv.                     *)
(***************************************************************************)
EXTENDS ReadsProofs

-----------------------------------------------------------------------------
(* What is walked step by step *)

\* What holds at first and after each step holds up to the last: else there was a first
\* step after which it does not.
LEMMA UpTo ==
    ASSUME NEW N \in Nat, NEW S, 0 \in S, \A n \in 0..(N - 1) : n \in S => n + 1 \in S
    PROVE  \A n \in 0..N : n \in S
<1> DEFINE T == {n \in 0..N : n \notin S}
<1>1. SUFFICES ASSUME T # {} PROVE FALSE
  OBVIOUS
<1>2. IsFiniteSet(0..N) /\ T \in SUBSET (0..N)
  BY FS_Interval
<1>3. IsFiniteSet(T) /\ \A n \in T : n \in Int
  BY <1>2, FS_Subset
<1>4. \A n : n \in T <=> n \in 0..N /\ n \notin S
  OBVIOUS
<1> HIDE DEF T
<1>5. PICK n \in T : \A m \in T : n <= m
  BY <1>1, <1>3, LeastNumber
<1>6. n \in 0..N /\ n # 0
  BY <1>4
<1>7. n - 1 \in 0..(N - 1) /\ n - 1 \in 0..N /\ ~(n <= n - 1) /\ (n - 1) + 1 = n
  BY <1>6
<1>8. n - 1 \in S
  BY <1>4, <1>5, <1>7
<1> QED
  BY <1>4, <1>7, <1>8

\* w is a walk in D that begins with a and goes on with the steps of G.
IsWalk(w, N, D, a, G) ==
    /\ w \in [0..N -> D]
    /\ w[0] = a
    /\ \A d \in 1..N : w[d] = G[<<d, w[d - 1]>>]

\* There is one walk.
LEMMA WalkExists ==
    ASSUME NEW N \in Nat, NEW D, NEW a \in D, NEW G \in [(1..N) \X D -> D]
    PROVE  \E w : IsWalk(w, N, D, a, G)
<1> DEFINE Has(n) == \E w \in [0..n -> D] : w[0] = a /\ \A d \in 1..n : w[d] = G[<<d, w[d - 1]>>]
           S == {n \in 0..N : Has(n)}
<1>1. \A n : n \in S <=> n \in 0..N /\ Has(n)
  OBVIOUS
<1>2. Has(0)
  <2> DEFINE w == [d \in 0..0 |-> a]
  <2>1. w \in [0..0 -> D] /\ w[0] = a /\ \A d \in 1..0 : w[d] = G[<<d, w[d - 1]>>]
    OBVIOUS
  <2> QED
    BY <2>1
<1>3. ASSUME NEW n \in 0..(N - 1), Has(n)
      PROVE  Has(n + 1)
  <2>1. PICK w \in [0..n -> D] : w[0] = a /\ \A d \in 1..n : w[d] = G[<<d, w[d - 1]>>]
    BY <1>3
  <2> DEFINE v == [d \in 0..(n + 1) |-> IF d = n + 1 THEN G[<<n + 1, w[n]>>] ELSE w[d]]
  <2>2. n + 1 \in 1..N /\ w[n] \in D /\ n \in 0..n
    BY <2>1
  <2>3. G[<<n + 1, w[n]>>] \in D
    BY <2>2
  <2>4. \A d \in 0..n : v[d] = w[d] /\ w[d] \in D /\ d # n + 1
    BY <2>1
  <2>5. v[n + 1] = G[<<n + 1, w[n]>>]
    OBVIOUS
  <2>6. v \in [0..(n + 1) -> D]
    BY <2>1, <2>3
  <2> HIDE DEF v
  <2>7. v[0] = a
    BY <2>1, <2>4
  <2>8. \A d \in 1..n : v[d] = G[<<d, v[d - 1]>>]
    <3> TAKE d \in 1..n
    <3>1. d \in 0..n /\ d - 1 \in 0..n
      OBVIOUS
    <3> QED
      BY <2>1, <2>4, <3>1
  <2>9. v[n + 1] = G[<<n + 1, v[(n + 1) - 1]>>]
    <3>1. (n + 1) - 1 = n
      OBVIOUS
    <3> QED
      BY <2>2, <2>4, <2>5, <3>1
  <2>10. \A d \in 1..(n + 1) : v[d] = G[<<d, v[d - 1]>>]
    <3> TAKE d \in 1..(n + 1)
    <3>1. d \in 1..n \/ d = n + 1
      OBVIOUS
    <3> QED
      BY <2>8, <2>9, <3>1
  <2> QED
    BY <2>6, <2>7, <2>10
<1> HIDE DEF Has, S
<1>4. \A n \in 0..(N - 1) : n \in S => n + 1 \in S
  <2> TAKE n \in 0..(N - 1)
  <2>1. n + 1 \in 0..N
    OBVIOUS
  <2> QED
    BY <1>1, <1>3, <2>1
<1>5. 0 \in S
  BY <1>1, <1>2
<1>6. Has(N)
  <2>1. \A n \in 0..N : n \in S
    BY <1>4, <1>5, UpTo
  <2> QED
    BY <1>1, <2>1
<1> QED
  BY <1>6 DEF Has, IsWalk

\* Two walks are the same.
LEMMA WalkIsOne ==
    ASSUME NEW N \in Nat, NEW D, NEW a, NEW G, NEW v, NEW w,
           IsWalk(v, N, D, a, G), IsWalk(w, N, D, a, G)
    PROVE  v = w
<1> DEFINE S == {n \in 0..N : v[n] = w[n]}
<1>1. 0 \in S
  BY DEF IsWalk
<1>2. \A n \in 0..(N - 1) : n \in S => n + 1 \in S
  <2> SUFFICES ASSUME NEW n \in 0..(N - 1), v[n] = w[n] PROVE v[n + 1] = w[n + 1] /\ n + 1 \in 0..N
    OBVIOUS
  <2>1. n + 1 \in 1..N /\ (n + 1) - 1 = n
    OBVIOUS
  <2>2. v[n + 1] = G[<<n + 1, v[n]>>] /\ w[n + 1] = G[<<n + 1, w[n]>>]
    BY <2>1 DEF IsWalk
  <2> QED
    BY <2>1, <2>2
<1> HIDE DEF S
<1>3. \A n \in 0..N : n \in S
  BY <1>1, <1>2, UpTo
<1>4. \A n \in 0..N : v[n] = w[n]
  BY <1>3 DEF S
<1> QED
  BY <1>4 DEF IsWalk

\* What goes on as the steps of G do, while it is in D, is in D.
LEMMA RecursionIsWalk ==
    ASSUME NEW N \in Nat, NEW D, NEW a \in D, NEW G \in [(1..N) \X D -> D], NEW f,
           f = [d \in 0..N |-> f[d]], f[0] = a,
           \A d \in 1..N : f[d - 1] \in D => f[d] = G[<<d, f[d - 1]>>]
    PROVE  IsWalk(f, N, D, a, G)
<1> DEFINE S == {n \in 0..N : f[n] \in D}
<1>1. 0 \in S
  OBVIOUS
<1>2. \A n \in 0..(N - 1) : n \in S => n + 1 \in S
  <2> SUFFICES ASSUME NEW n \in 0..(N - 1), f[n] \in D PROVE n + 1 \in 0..N /\ f[n + 1] \in D
    OBVIOUS
  <2>1. n + 1 \in 1..N /\ n + 1 \in 0..N /\ (n + 1) - 1 = n
    OBVIOUS
  <2>2. f[n + 1] = G[<<n + 1, f[n]>>]
    BY <2>1
  <2> QED
    BY <2>1, <2>2
<1> HIDE DEF S
<1>3. \A n \in 0..N : n \in S
  BY <1>1, <1>2, UpTo
<1>4. \A n \in 0..N : f[n] \in D
  BY <1>3 DEF S
<1>5. \A d \in 1..N : f[d] = G[<<d, f[d - 1]>>]
  <2> TAKE d \in 1..N
  <2>1. d - 1 \in 0..N
    OBVIOUS
  <2> QED
    BY <1>4, <2>1
<1> QED
  BY <1>4, <1>5 DEF IsWalk

-----------------------------------------------------------------------------
(* Roots *)

\* A query for events by their ids gives those of them that are stored, and all when they are
\* no more than one query fetches.
LEMMA FetchedById ==
    ASSUME stored \in SUBSET Events, NEW S \in SUBSET Events
    PROVE  /\ EventsByIds(S) \subseteq S \intersect stored
           /\ Cardinality(S) <= MaxLimit => EventsByIds(S) = S \intersect stored
<1>1. CASE S = {}
  BY <1>1 DEF EventsByIds
<1>2. CASE S # {}
  <2> DEFINE G == S \intersect stored
             n == Limited(Cardinality(S), MaxLimit, DefaultLimit)
  <2>0. IsFiniteSet(S) /\ Cardinality(S) \in Nat /\ G \in SUBSET Events
    BY FS_Subset, FS_CardinalityType, EventsAssumption
  <2>1. Cardinality(S) # 0 /\ Cardinality(G) <= Cardinality(S) /\ Cardinality(G) \in Nat
    BY <1>2, <2>0, FS_EmptySet, FS_Subset, FS_CardinalityType
  <2>2. PICK q : q = [AnyEvent EXCEPT !.ids = S, !.limit = Cardinality(S)]
    OBVIOUS
  <2>3. /\ q.ids = S /\ q.authors = {} /\ q.notIds = {} /\ q.notAuthors = {} /\ q.kinds = {}
        /\ q.tags = {} /\ q.texts = Events /\ q.followers = -1 /\ q.since = 0 /\ q.until = 0
        /\ q.limit = Cardinality(S) /\ q.offset = 0
    BY <2>2 DEF AnyEvent
  <2>4. Matching(q) = G
    BY <1>2, <2>3 DEF Matching, Matches, InWindow, WellFollowed
  <2>5. EventsByIds(S) = Elems(Page(Newest(G), 0, n))
    BY <1>2, <2>2, <2>3, <2>4 DEF EventsByIds, QueryEvents
  <2>6. n \in Nat /\ (Cardinality(S) <= MaxLimit => n = Cardinality(S))
    BY <2>0, <2>1, EventsAssumption DEF Limited
  <2> HIDE DEF n, G
  <2>7. EventsByIds(S) = {e \in G : Place(G, e) < n}
    BY <2>0, <2>5, <2>6, FirstOfNewest
  <2>8. \A e \in G : Place(G, e) \in 0..(Cardinality(G) - 1)
    BY <2>0, NewestIsSorted
  <2>9. Cardinality(S) <= MaxLimit => \A e \in G : Place(G, e) < n
    BY <2>0, <2>1, <2>6, <2>8
  <2> QED
    BY <2>7, <2>9 DEF G
<1> QED
  BY <1>1, <1>2

\* A root is an event that was there before.
LEMMA RootIsEvent ==
    ASSUME NEW e \in Events, RootTag(e) # None
    PROVE  RootTag(e) \in Events /\ Height[RootTag(e)] < Height[e]
<1> DEFINE marked == {i \in DOMAIN ETags[e] : ETags[e][i].marker = "root"}
           other == {i \in DOMAIN ETags[e] : ETags[e][i].marker \in {"", "reply"}}
<1>1. ETags[e] \in Seq([to : Events, marker : STRING])
  BY EventsAssumption
<1>2. Len(ETags[e]) \in Nat /\ DOMAIN ETags[e] = 1..Len(ETags[e])
  BY <1>1
<1>3. marked \in SUBSET (1..Len(ETags[e])) /\ other \in SUBSET (1..Len(ETags[e]))
  BY <1>2
<1>4. /\ RootTag(e) = IF marked # {} THEN ETags[e][MinOf(marked)].to
                      ELSE IF other # {} THEN ETags[e][MinOf(other)].to ELSE None
  BY DEF RootTag, MinOf
<1>5. \E i \in DOMAIN ETags[e] : RootTag(e) = ETags[e][i].to
  <2> HIDE DEF marked, other
  <2>1. marked # {} => MinOf(marked) \in 1..Len(ETags[e])
    BY <1>2, <1>3, Extremes
  <2>2. other # {} => MinOf(other) \in 1..Len(ETags[e])
    BY <1>2, <1>3, Extremes
  <2> QED
    BY <1>2, <1>4, <2>1, <2>2
<1> QED
  BY <1>5, TagsAreEvents, ReferenceAssumption

\* The root of a root is the same or was there before.
LEMMA RootOfRootIsEvent ==
    ASSUME stored \in SUBSET Events, NEW r \in Events
    PROVE  /\ RootOfRoot(r) \in Events
           /\ RootOfRoot(r) # r => Height[RootOfRoot(r)] < Height[r]
BY RootIsEvent DEF RootOfRoot

\* The chain of roots of an event, step by step.
LEMMA RootsUpIsWalk ==
    ASSUME stored \in SUBSET Events, NEW e \in Events, RootTag(e) # None
    PROVE  /\ RootsUp(e) \in [0..RootHops -> Events]
           /\ RootsUp(e)[0] = RootTag(e)
           /\ \A d \in 1..RootHops : RootsUp(e)[d] = RootOfRoot(RootsUp(e)[d - 1])
<1> DEFINE up[d \in 0..RootHops] == IF d = 0 THEN RootTag(e) ELSE RootOfRoot(up[d - 1])
           Is(f) == f = [d \in 0..RootHops |-> IF d = 0 THEN RootTag(e) ELSE RootOfRoot(f[d - 1])]
           G == [x \in (1..RootHops) \X Events |-> RootOfRoot(x[2])]
<1>1. RootHops \in Nat
  BY FeedAssumption
<1>2. RootTag(e) \in Events
  BY RootIsEvent
<1>3. G \in [(1..RootHops) \X Events -> Events]
  BY RootOfRootIsEvent
<1>4. \A d \in 1..RootHops, r \in Events : G[<<d, r>>] = RootOfRoot(r)
  OBVIOUS
<1> HIDE DEF G
<1>5. PICK w : IsWalk(w, RootHops, Events, RootTag(e), G)
  BY <1>1, <1>2, <1>3, WalkExists
<1>6. w \in [0..RootHops -> Events] /\ w[0] = RootTag(e)
  BY <1>5 DEF IsWalk
<1>7. \A d \in 1..RootHops : w[d] = RootOfRoot(w[d - 1])
  <2> TAKE d \in 1..RootHops
  <2>1. d - 1 \in 0..RootHops
    BY <1>1
  <2>2. w[d - 1] \in Events
    BY <1>6, <2>1
  <2> QED
    BY <1>4, <1>5, <2>2 DEF IsWalk
<1>8. Is(w)
  <2>1. \A d \in 0..RootHops : w[d] = IF d = 0 THEN RootTag(e) ELSE RootOfRoot(w[d - 1])
    <3> TAKE d \in 0..RootHops
    <3>1. d = 0 \/ d \in 1..RootHops
      BY <1>1
    <3> QED
      BY <1>6, <1>7, <3>1
  <2> QED
    BY <1>6, <2>1
<1>9. up = CHOOSE f : Is(f)
  OBVIOUS
<1>10. RootsUp(e) = up
  BY DEF RootsUp
<1> HIDE DEF up
<1>11. Is(up)
  <2> HIDE DEF Is
  <2> QED
    BY <1>8, <1>9
<1>12. up = [d \in 0..RootHops |-> up[d]] /\ up[0] = RootTag(e)
  BY <1>1, <1>11
<1>13. \A d \in 1..RootHops : up[d] = RootOfRoot(up[d - 1])
  BY <1>1, <1>11
<1>14. \A d \in 1..RootHops : up[d - 1] \in Events => up[d] = G[<<d, up[d - 1]>>]
  BY <1>4, <1>13
<1>15. IsWalk(up, RootHops, Events, RootTag(e), G)
  BY <1>1, <1>2, <1>3, <1>12, <1>14, RecursionIsWalk
<1> QED
  BY <1>10, <1>12, <1>13, <1>15 DEF IsWalk

\* What the walk to the roots of the events of S keeps.
RootWalks(S) == [root : [S -> Events], path : [S -> SUBSET Events], fetched : SUBSET stored, pending : SUBSET Events]

\* An event moves on when its root was fetched and has a root that was not met before.
MovesOn(e, w, fetched) ==
    /\ w.root[e] \in fetched /\ RootTag(w.root[e]) # None
    /\ RootTag(w.root[e]) \notin {e} \union w.path[e]

\* A round from w to v: all stay, or what is pending is fetched and those move that can.
IsRound(S, w, v) ==
    /\ v \in RootWalks(S)
    /\ w.pending \subseteq w.fetched =>
          v.root = w.root /\ v.path = w.path /\ v.fetched = w.fetched /\ v.pending = {}
    /\ ~(w.pending \subseteq w.fetched) =>
          /\ v.fetched = w.fetched \union EventsByIds(w.pending \ w.fetched)
          /\ \A e \in S : MovesOn(e, w, v.fetched) =>
                              v.root[e] = RootTag(w.root[e]) /\ v.path[e] = w.path[e] \union {v.root[e]}
          /\ \A e \in S : ~MovesOn(e, w, v.fetched) => v.root[e] = w.root[e] /\ v.path[e] = w.path[e]
          /\ \A x : x \in v.pending <=> \E e \in S : MovesOn(e, w, v.fetched) /\ x = v.root[e]

\* A round of queries follows the roots that it fetched.
LEMMA RootRound ==
    ASSUME stored \in SUBSET Events, NEW S \in SUBSET Events, NEW w \in RootWalks(S)
    PROVE  IsRound(S, w, FetchRoots(w, S))
<1>0. PICK v : v = FetchRoots(w, S)
  OBVIOUS
<1>w. /\ w.root \in [S -> Events] /\ w.path \in [S -> SUBSET Events]
      /\ w.fetched \in SUBSET stored /\ w.pending \in SUBSET Events
      /\ w = [root |-> w.root, path |-> w.path, fetched |-> w.fetched, pending |-> w.pending]
  BY DEF RootWalks
<1>1. CASE w.pending \subseteq w.fetched
  <2>1. v = [w EXCEPT !.pending = {}]
    BY <1>0, <1>1 DEF FetchRoots
  <2>2. v = [root |-> w.root, path |-> w.path, fetched |-> w.fetched, pending |-> {}]
    BY <1>w, <2>1
  <2>3. v \in RootWalks(S)
    BY <1>w, <2>2 DEF RootWalks
  <2> QED
    <3>1. v.root = w.root /\ v.path = w.path /\ v.fetched = w.fetched /\ v.pending = {}
      BY <2>2
    <3> QED
      BY <1>0, <1>1, <2>3, <3>1 DEF IsRound
<1>2. CASE ~(w.pending \subseteq w.fetched)
  <2>1. PICK F : F = w.fetched \union EventsByIds(w.pending \ w.fetched)
    OBVIOUS
  <2>2. F \in SUBSET stored
    BY <1>w, <2>1, FetchedById
  <2>3. PICK u : u = [w EXCEPT !.fetched = F]
    OBVIOUS
  <2>4. u = [root |-> w.root, path |-> w.path, fetched |-> F, pending |-> w.pending]
    BY <1>w, <2>3
  <2>5. PICK next : next = [e \in S |-> IF w.root[e] \in F THEN RootTag(w.root[e]) ELSE None]
    OBVIOUS
  <2>6. PICK M : M = {e \in S : next[e] # None /\ next[e] \notin {e} \union w.path[e]}
    OBVIOUS
  <2>7. v = [root |-> [e \in S |-> IF e \in M THEN next[e] ELSE w.root[e]],
             path |-> [e \in S |-> w.path[e] \union IF e \in M THEN {next[e]} ELSE {}],
             fetched |-> F,
             pending |-> {next[e] : e \in M}]
    <3>1. v = FollowRoots(u, S)
      BY <1>0, <1>2, <2>1, <2>3 DEF FetchRoots
    <3>2. FollowRoots(u, S) = RootMoves(u, next)
      BY <2>4, <2>5 DEF FollowRoots
    <3>3. DOMAIN next = S /\ u.root = w.root /\ u.path = w.path /\ u.fetched = F
      BY <2>4, <2>5
    <3>4. RootMoves(u, next) = MoveRoots(u, next, M)
      BY <2>6, <3>3 DEF RootMoves
    <3> QED
      BY <3>1, <3>2, <3>3, <3>4 DEF MoveRoots
  <2>8. \A e \in S : (e \in M <=> MovesOn(e, w, F)) /\ (e \in M => next[e] = RootTag(w.root[e]))
    BY <2>5, <2>6 DEF MovesOn
  <2>9. \A e \in M : e \in S /\ next[e] \in Events
    <3> SUFFICES ASSUME NEW e \in M PROVE e \in S /\ next[e] \in Events
      OBVIOUS
    <3>1. e \in S /\ next[e] # None /\ next[e] = RootTag(w.root[e]) /\ w.root[e] \in Events
      BY <1>w, <2>6, <2>8
    <3> QED
      BY <3>1, RootIsEvent
  <2>10. v.fetched = F /\ \A e \in S : /\ v.root[e] = IF e \in M THEN next[e] ELSE w.root[e]
                                       /\ v.path[e] = w.path[e] \union IF e \in M THEN {next[e]} ELSE {}
    BY <2>7
  <2>11. \A x : x \in v.pending <=> \E e \in S : MovesOn(e, w, v.fetched) /\ x = v.root[e]
    <3>1. \A e : e \in M <=> e \in S /\ MovesOn(e, w, v.fetched)
      BY <2>6, <2>8, <2>10
    <3>2. v.pending = {next[e] : e \in M} /\ \A e \in M : v.root[e] = next[e]
      BY <2>7, <2>9
    <3> QED
      BY <3>1, <3>2
  <2>12. v \in RootWalks(S)
    BY <1>w, <2>2, <2>7, <2>9 DEF RootWalks
  <2> QED
    <3>1. v.fetched = w.fetched \union EventsByIds(w.pending \ w.fetched)
      BY <2>1, <2>10
    <3>2. \A e \in S : MovesOn(e, w, v.fetched) => v.root[e] = RootTag(w.root[e]) /\ v.path[e] = w.path[e] \union {v.root[e]}
      BY <2>8, <2>10
    <3>3. \A e \in S : ~MovesOn(e, w, v.fetched) => v.root[e] = w.root[e] /\ v.path[e] = w.path[e]
      BY <2>8, <2>10
    <3> QED
      <4>1. IsRound(S, w, v)
        BY <1>2, <2>11, <2>12, <3>1, <3>2, <3>3, ZenonT(40) DEF IsRound
      <4> QED
        BY <1>0, <4>1
<1> QED
  BY <1>0, <1>1, <1>2

\* The events of a page that have a root.
Rooted(page) == {e \in page : RootTag(e) # None}

\* The walk to the roots of a page, round by round.
LEMMA RootWalkIsWalk ==
    ASSUME stored \in SUBSET Events, NEW page \in SUBSET Events, NEW S, S = Rooted(page)
    PROVE  \E w : /\ w \in [0..RootHops -> RootWalks(S)]
                  /\ w[0] = FirstRoots(S)
                  /\ \A d \in 1..RootHops : w[d] = FetchRoots(w[d - 1], S)
                  /\ RootWalk(page) = w[RootHops]
<1> DEFINE walk[d \in 0..RootHops] == IF d = 0 THEN FirstRoots(S) ELSE FetchRoots(walk[d - 1], S)
           Is(f) == f = [d \in 0..RootHops |-> IF d = 0 THEN FirstRoots(S) ELSE FetchRoots(f[d - 1], S)]
           D == RootWalks(S)
           G == [x \in (1..RootHops) \X D |-> FetchRoots(x[2], S)]
<1>1. RootHops \in Nat /\ S \in SUBSET Events
  BY FeedAssumption DEF Rooted
<1>2. FirstRoots(S) \in D
  <2>1. \A e \in S : RootTag(e) \in Events
    BY <1>1, RootIsEvent DEF Rooted
  <2> QED
    BY <1>1, <2>1 DEF FirstRoots, RootWalks
<1>d. \A u \in D : FetchRoots(u, S) \in D
  <2> TAKE u \in D
  <2>1. IsRound(S, u, FetchRoots(u, S))
    BY <1>1, RootRound
  <2> QED
    BY <2>1 DEF IsRound
<1> HIDE DEF D
<1>3. G \in [(1..RootHops) \X D -> D]
  BY <1>d
<1>4. \A d \in 1..RootHops, u \in D : G[<<d, u>>] = FetchRoots(u, S)
  OBVIOUS
<1> HIDE DEF G
<1>5. PICK w : IsWalk(w, RootHops, D, FirstRoots(S), G)
  BY <1>1, <1>2, <1>3, WalkExists
<1>6. w \in [0..RootHops -> D] /\ w[0] = FirstRoots(S)
  BY <1>5 DEF IsWalk
<1>7. \A d \in 1..RootHops : w[d] = FetchRoots(w[d - 1], S)
  <2> TAKE d \in 1..RootHops
  <2>1. d - 1 \in 0..RootHops
    BY <1>1
  <2>2. w[d - 1] \in D
    BY <1>6, <2>1
  <2> QED
    BY <1>4, <1>5, <2>2 DEF IsWalk
<1>8. Is(w)
  <2>1. \A d \in 0..RootHops : w[d] = IF d = 0 THEN FirstRoots(S) ELSE FetchRoots(w[d - 1], S)
    <3> TAKE d \in 0..RootHops
    <3>1. d = 0 \/ d \in 1..RootHops
      BY <1>1
    <3> QED
      BY <1>6, <1>7, <3>1
  <2> QED
    BY <1>6, <2>1
<1>9. walk = CHOOSE f : Is(f)
  OBVIOUS
<1>10. RootWalk(page) = walk[RootHops]
  BY DEF RootWalk, Rooted
<1> HIDE DEF walk
<1>11. Is(walk)
  <2> HIDE DEF Is
  <2> QED
    BY <1>8, <1>9
<1>12. walk = [d \in 0..RootHops |-> walk[d]] /\ walk[0] = FirstRoots(S)
  BY <1>1, <1>11
<1>13. \A d \in 1..RootHops : walk[d] = FetchRoots(walk[d - 1], S)
  <2> TAKE d \in 1..RootHops
  <2>1. d \in 0..RootHops /\ d # 0
    BY <1>1
  <2> QED
    BY <1>11, <2>1
<1>14. \A d \in 1..RootHops : walk[d - 1] \in D => walk[d] = G[<<d, walk[d - 1]>>]
  BY <1>4, <1>13
<1>15. IsWalk(walk, RootHops, D, FirstRoots(S), G)
  BY <1>1, <1>2, <1>3, <1>12, <1>14, RecursionIsWalk
<1>16. walk \in [0..RootHops -> D]
  BY <1>15 DEF IsWalk
<1> QED
  BY <1>10, <1>12, <1>13, <1>16 DEF D

\* After d rounds each root is up its chain, no further than d, and older than what was met;
\* and when one query fetches the roots of all, nobody lags but for whom all stopped, and
\* what is stored of the roots was fetched or is pending.
RootInv(S, w, d) ==
    /\ w \in RootWalks(S)
    /\ \A e \in S : /\ \E k \in 0..d : w.root[e] = RootsUp(e)[k]
                    /\ Height[w.root[e]] < Height[e]
                    /\ \A x \in w.path[e] : Height[w.root[e]] <= Height[x]
    /\ w.pending \subseteq {w.root[e] : e \in S}
    /\ Cardinality(S) <= MaxLimit =>
          /\ w.pending = {} \/ \A e \in S : w.root[e] = RootsUp(e)[d]
          /\ \A e \in S : w.root[e] \in stored => w.root[e] \in w.pending \union w.fetched

\* Before the first round.
LEMMA RootInvFirst ==
    ASSUME stored \in SUBSET Events, NEW S \in SUBSET Events, \A e \in S : RootTag(e) # None
    PROVE  RootInv(S, FirstRoots(S), 0)
<1>1. \A e \in S : RootTag(e) \in Events /\ Height[RootTag(e)] < Height[e] /\ RootsUp(e)[0] = RootTag(e)
  BY RootIsEvent, RootsUpIsWalk
<1>2. \A e \in Events : Height[e] \in Nat
  BY ReferenceAssumption
<1>3. PICK w : w = FirstRoots(S)
  OBVIOUS
<1>4. /\ w.root = [e \in S |-> RootTag(e)] /\ w.path = [e \in S |-> {RootTag(e)}] /\ w.fetched = {}
      /\ w.pending = {RootTag(e) : e \in S}
      /\ w = [root |-> w.root, path |-> w.path, fetched |-> w.fetched, pending |-> w.pending]
  BY <1>3 DEF FirstRoots
<1>5. w.root \in [S -> Events] /\ w.path \in [S -> SUBSET Events] /\ w.pending \in SUBSET Events
  BY <1>1, <1>4
<1>6. w \in RootWalks(S)
  BY <1>4, <1>5 DEF RootWalks
<1>7. \A e \in S : w.root[e] = RootsUp(e)[0] /\ w.root[e] = RootTag(e) /\ w.path[e] = {RootTag(e)}
  BY <1>1, <1>4
<1>8. \A e \in S : /\ Height[w.root[e]] < Height[e]
                   /\ \A x \in w.path[e] : Height[w.root[e]] <= Height[x]
  BY <1>1, <1>2, <1>7
<1>9. w.pending = {w.root[e] : e \in S}
  BY <1>4, <1>7
<1>10. 0 \in 0..0
  OBVIOUS
<1> QED
  BY <1>3, <1>6, <1>7, <1>8, <1>9, <1>10 DEF RootInv

\* What is the root of e can move on whenever it was fetched and has a root.
LEMMA NothingIsMetAgain ==
    ASSUME stored \in SUBSET Events, NEW S \in SUBSET Events, NEW w, NEW d, RootInv(S, w, d), NEW e \in S, NEW F
    PROVE  /\ w.root[e] \in Events
           /\ MovesOn(e, w, F) <=> w.root[e] \in F /\ RootTag(w.root[e]) # None
           /\ F \subseteq stored /\ MovesOn(e, w, F) =>
                 RootTag(w.root[e]) = RootOfRoot(w.root[e]) /\ Height[RootTag(w.root[e])] < Height[w.root[e]]
<1>1. /\ w.root[e] \in Events /\ w.path[e] \in SUBSET Events
      /\ Height[w.root[e]] < Height[e] /\ \A x \in w.path[e] : Height[w.root[e]] <= Height[x]
  BY DEF RootInv, RootWalks
<1>2. \A x \in Events : Height[x] \in Nat
  BY ReferenceAssumption
<1>3. RootTag(w.root[e]) # None => RootTag(w.root[e]) \in Events /\ Height[RootTag(w.root[e])] < Height[w.root[e]]
  BY <1>1, RootIsEvent
<1>4. RootTag(w.root[e]) # None => RootTag(w.root[e]) \notin {e} \union w.path[e]
  BY <1>1, <1>2, <1>3
<1>5. MovesOn(e, w, F) <=> w.root[e] \in F /\ RootTag(w.root[e]) # None
  BY <1>4 DEF MovesOn
<1> QED
  BY <1>1, <1>3, <1>5 DEF RootOfRoot

\* A round keeps that; and a root that it leaves at its place was fetched, if it is stored.
LEMMA RootInvNext ==
    ASSUME stored \in SUBSET Events, NEW S \in SUBSET Events, \A e \in S : RootTag(e) # None,
           NEW d \in 1..RootHops, NEW w, RootInv(S, w, d - 1), NEW v, v = FetchRoots(w, S)
    PROVE  /\ RootInv(S, v, d)
           /\ Cardinality(S) <= MaxLimit =>
                 \A e \in S : v.root[e] = w.root[e] /\ v.root[e] \in stored => v.root[e] \in v.fetched
<1>h. RootHops \in Nat /\ d \in Int
  BY FeedAssumption
<1>a. \A x \in Events : Height[x] \in Nat
  BY ReferenceAssumption
<1>w. /\ w \in RootWalks(S) /\ w.root \in [S -> Events] /\ w.path \in [S -> SUBSET Events]
      /\ w.fetched \in SUBSET stored /\ w.pending \in SUBSET Events
  BY DEF RootInv, RootWalks
<1>i. /\ \A e \in S : /\ \E k \in 0..(d - 1) : w.root[e] = RootsUp(e)[k]
                      /\ Height[w.root[e]] < Height[e]
                      /\ \A x \in w.path[e] : Height[w.root[e]] <= Height[x]
      /\ w.pending \subseteq {w.root[e] : e \in S}
      /\ Cardinality(S) <= MaxLimit =>
            /\ w.pending = {} \/ \A e \in S : w.root[e] = RootsUp(e)[d - 1]
            /\ \A e \in S : w.root[e] \in stored => w.root[e] \in w.pending \union w.fetched
  BY DEF RootInv
<1>r. IsRound(S, w, v)
  BY <1>w, RootRound
<1>v. v \in RootWalks(S) /\ v.fetched \in SUBSET stored
  BY <1>r DEF IsRound, RootWalks
<1>1. CASE w.pending \subseteq w.fetched
  <2>1. v.root = w.root /\ v.path = w.path /\ v.fetched = w.fetched /\ v.pending = {}
    BY <1>1, <1>r DEF IsRound
  <2>2. \A e \in S : \E k \in 0..d : v.root[e] = RootsUp(e)[k]
    <3>1. 0..(d - 1) \subseteq 0..d
      BY <1>h
    <3> QED
      BY <1>i, <2>1, <3>1
  <2>3. Cardinality(S) <= MaxLimit => \A e \in S : v.root[e] \in stored => v.root[e] \in v.fetched
    BY <1>1, <1>i, <2>1
  <2>4. RootInv(S, v, d)
    BY <1>i, <1>v, <2>1, <2>2, <2>3 DEF RootInv
  <2> QED
    BY <2>3, <2>4
<1>2. CASE ~(w.pending \subseteq w.fetched)
  <2>1. /\ v.fetched = w.fetched \union EventsByIds(w.pending \ w.fetched)
        /\ \A e \in S : MovesOn(e, w, v.fetched) =>
                            v.root[e] = RootTag(w.root[e]) /\ v.path[e] = w.path[e] \union {v.root[e]}
        /\ \A e \in S : ~MovesOn(e, w, v.fetched) => v.root[e] = w.root[e] /\ v.path[e] = w.path[e]
        /\ \A x : x \in v.pending <=> \E e \in S : MovesOn(e, w, v.fetched) /\ x = v.root[e]
    BY <1>2, <1>r DEF IsRound
  <2>m. \A e \in S : /\ w.root[e] \in Events
                     /\ MovesOn(e, w, v.fetched) <=> w.root[e] \in v.fetched /\ RootTag(w.root[e]) # None
                     /\ MovesOn(e, w, v.fetched) => /\ RootTag(w.root[e]) = RootOfRoot(w.root[e])
                                                    /\ Height[RootTag(w.root[e])] < Height[w.root[e]]
    BY <1>v, NothingIsMetAgain
  <2>e. \A e \in S : e \in Events /\ v.root[e] \in Events /\ v.path[e] \in SUBSET Events /\ w.path[e] \in SUBSET Events
    BY <1>v, <1>w DEF RootWalks
  <2>u. \A e \in S, k \in 1..RootHops : RootsUp(e)[k] = RootOfRoot(RootsUp(e)[k - 1])
    BY RootsUpIsWalk
  <2>2. ASSUME NEW e \in S
        PROVE  /\ \E k \in 0..d : v.root[e] = RootsUp(e)[k]
               /\ Height[v.root[e]] < Height[e]
               /\ \A x \in v.path[e] : Height[v.root[e]] <= Height[x]
    <3>1. PICK k \in 0..(d - 1) : w.root[e] = RootsUp(e)[k]
      BY <1>i
    <3>2. k \in 0..d /\ k + 1 \in 0..d /\ k + 1 \in 1..RootHops /\ (k + 1) - 1 = k
      BY <1>h
    <3>3. CASE MovesOn(e, w, v.fetched)
      <4>0. /\ v.root[e] = RootTag(w.root[e]) /\ v.path[e] = w.path[e] \union {v.root[e]}
            /\ RootTag(w.root[e]) = RootOfRoot(w.root[e]) /\ Height[RootTag(w.root[e])] < Height[w.root[e]]
        BY <2>1, <2>m, <3>3
      <4>u. RootsUp(e)[k + 1] = RootOfRoot(RootsUp(e)[k])
        BY <2>u, <3>2
      <4>1. v.root[e] = RootsUp(e)[k + 1] /\ v.path[e] = w.path[e] \union {v.root[e]}
            /\ Height[v.root[e]] < Height[w.root[e]]
        BY <3>1, <4>0, <4>u
      <4>2. Height[v.root[e]] \in Nat /\ Height[w.root[e]] \in Nat /\ Height[e] \in Nat
            /\ \A x \in w.path[e] : Height[x] \in Nat
        BY <1>a, <2>e, <2>m
      <4> QED
        BY <1>i, <3>2, <4>1, <4>2
    <3>4. CASE ~MovesOn(e, w, v.fetched)
      BY <1>i, <2>1, <3>1, <3>2, <3>4
    <3> QED
      BY <3>3, <3>4
  <2>3. v.pending \subseteq {v.root[e] : e \in S}
    BY <2>1
  <2>4. ASSUME Cardinality(S) <= MaxLimit
        PROVE  /\ \A e \in S : v.root[e] = RootsUp(e)[d]
               /\ \A e \in S : v.root[e] \in stored => v.root[e] \in v.pending \union v.fetched
               /\ \A e \in S : v.root[e] = w.root[e] /\ v.root[e] \in stored => v.root[e] \in v.fetched
    <3>1. \A e \in S : w.root[e] = RootsUp(e)[d - 1]
      BY <1>2, <1>i, <2>4
    <3>2. EventsByIds(w.pending \ w.fetched) = (w.pending \ w.fetched) \intersect stored
      <4> DEFINE P == w.pending \ w.fetched
      <4>0. IsFiniteSet(S)
        BY FS_Subset, EventsAssumption
      <4>1. {w.root[e] : e \in S} = {w.root[e] : e \in S} /\ IsFiniteSet({w.root[e] : e \in S})
            /\ Cardinality({w.root[e] : e \in S}) <= Cardinality(S)
        <5> DEFINE g == [e \in S |-> w.root[e]]
                   R == {w.root[e] : e \in S}
        <5>1. g \in Surjection(S, R)
          BY DEF Surjection
        <5> HIDE DEF g, R
        <5>2. IsFiniteSet(R) /\ Cardinality(R) <= Cardinality(S)
          BY <4>0, <5>1, FS_Surjection
        <5> QED
          BY <5>2 DEF R
      <4>2. P \subseteq {w.root[e] : e \in S}
        BY <1>i
      <4>3. IsFiniteSet(P) /\ Cardinality(P) <= Cardinality({w.root[e] : e \in S})
        BY <4>1, <4>2, FS_Subset
      <4>4. Cardinality(P) \in Nat /\ Cardinality({w.root[e] : e \in S}) \in Nat /\ Cardinality(S) \in Nat /\ MaxLimit \in Nat
        BY <4>0, <4>1, <4>3, FS_CardinalityType, EventsAssumption
      <4>5. Cardinality(P) <= MaxLimit /\ P \in SUBSET Events
        BY <1>w, <2>4, <4>1, <4>3, <4>4
      <4> HIDE DEF P
      <4>6. EventsByIds(P) = P \intersect stored
        BY <4>5, FetchedById
      <4> QED
        BY <4>6 DEF P
    <3>3. \A e \in S : w.root[e] \in stored <=> w.root[e] \in v.fetched
      BY <1>i, <1>v, <2>1, <2>4, <3>2
    <3>4. \A e \in S : v.root[e] = RootOfRoot(w.root[e])
      BY <2>1, <2>m, <3>3 DEF RootOfRoot
    <3>5. \A e \in S : v.root[e] = RootsUp(e)[d]
      BY <2>u, <3>1, <3>4
    <3>6. \A e \in S : v.root[e] = w.root[e] /\ v.root[e] \in stored => v.root[e] \in v.fetched
      BY <3>3
    <3>7. \A e \in S : v.root[e] # w.root[e] => v.root[e] \in v.pending
      BY <2>1
    <3> QED
      BY <3>5, <3>6, <3>7
  <2>5. RootInv(S, v, d)
    BY <1>v, <2>2, <2>3, <2>4 DEF RootInv
  <2> QED
    BY <2>4, <2>5
<1> QED
  BY <1>1, <1>2

\* The walk keeps it to the end.
LEMMA RootInvHolds ==
    ASSUME stored \in SUBSET Events, NEW page \in SUBSET Events, NEW S, S = Rooted(page)
    PROVE  /\ RootInv(S, RootWalk(page), RootHops)
           /\ \E w : RootInv(S, w, RootHops - 1) /\ RootWalk(page) = FetchRoots(w, S)
<1>1. RootHops \in Nat \ {0} /\ S \in SUBSET Events /\ \A e \in S : RootTag(e) # None
  BY FeedAssumption DEF Rooted
<1>2. PICK w : /\ w \in [0..RootHops -> RootWalks(S)]
               /\ w[0] = FirstRoots(S)
               /\ \A d \in 1..RootHops : w[d] = FetchRoots(w[d - 1], S)
               /\ RootWalk(page) = w[RootHops]
  BY RootWalkIsWalk
<1> DEFINE T == {n \in 0..RootHops : RootInv(S, w[n], n)}
<1>3. 0 \in T
  BY <1>1, <1>2, RootInvFirst
<1>4. \A n \in 0..(RootHops - 1) : n \in T => n + 1 \in T
  <2> SUFFICES ASSUME NEW n \in 0..(RootHops - 1), RootInv(S, w[n], n) PROVE n + 1 \in 0..RootHops /\ RootInv(S, w[n + 1], n + 1)
    OBVIOUS
  <2>1. n + 1 \in 1..RootHops /\ n + 1 \in 0..RootHops /\ (n + 1) - 1 = n
    BY <1>1
  <2>2. w[n + 1] = FetchRoots(w[n], S) /\ RootInv(S, w[n], (n + 1) - 1)
    BY <1>2, <2>1
  <2>3. RootInv(S, w[n + 1], n + 1)
    BY <1>1, <2>1, <2>2, RootInvNext
  <2> QED
    BY <2>1, <2>3
<1> HIDE DEF T
<1>5. \A n \in 0..RootHops : n \in T
  BY <1>1, <1>3, <1>4, UpTo
<1>6. \A n \in 0..RootHops : RootInv(S, w[n], n)
  BY <1>5 DEF T
<1>7. RootHops \in 0..RootHops /\ RootHops - 1 \in 0..RootHops /\ RootHops \in 1..RootHops
  BY <1>1
<1> QED
  BY <1>2, <1>6, <1>7

\* A walk that is for one event goes up its chain until the chain ends: what is pending is older
\* than what was fetched.
AloneInv(S, e, w, d) ==
    /\ RootInv(S, w, d)
    /\ w.root[e] = RootsUp(e)[d]
    /\ w.pending = {} => RootOfRoot(w.root[e]) = w.root[e]
    /\ w.pending # {} => \A x \in w.fetched : Height[w.root[e]] < Height[x]

\* It holds before the first round.
LEMMA AloneFirst ==
    ASSUME stored \in SUBSET Events, NEW e \in Events, RootTag(e) # None,
           NEW S \in SUBSET Events, e \in S, \A x \in S : x = e
    PROVE  AloneInv(S, e, FirstRoots(S), 0)
<1>1. RootInv(S, FirstRoots(S), 0)
  BY RootInvFirst
<1>2. /\ FirstRoots(S).root[e] = RootTag(e) /\ FirstRoots(S).fetched = {}
      /\ FirstRoots(S).pending # {}
  BY DEF FirstRoots
<1>3. RootsUp(e)[0] = RootTag(e)
  BY RootsUpIsWalk
<1> QED
  BY <1>1, <1>2, <1>3 DEF AloneInv

\* One event fits a query.
LEMMA OneIsAllowed == \A e : IsFiniteSet({e}) /\ Cardinality({e}) = 1 /\ Cardinality({e}) <= MaxLimit
<1> TAKE e
<1>1. IsFiniteSet({e}) /\ Cardinality({e}) = 1
  BY FS_Singleton
<1>2. 1 <= MaxLimit
  BY EventsAssumption
<1> QED
  BY <1>1, <1>2

\* And after each round.
LEMMA AloneNext ==
    ASSUME stored \in SUBSET Events, NEW e \in Events, RootTag(e) # None,
           NEW S \in SUBSET Events, e \in S, \A x \in S : x = e, NEW d \in 1..RootHops, NEW w, AloneInv(S, e, w, d - 1), NEW v, v = FetchRoots(w, S)
    PROVE  AloneInv(S, e, v, d)
<1>1. RootInv(S, w, d - 1) /\ w.root[e] = RootsUp(e)[d - 1]
  BY DEF AloneInv
<1>2. RootInv(S, v, d)
  BY <1>1, RootInvNext
<1>3. RootsUp(e)[d] = RootOfRoot(RootsUp(e)[d - 1])
  BY RootsUpIsWalk
<1>w. /\ w \in RootWalks(S) /\ w.root[e] \in Events /\ w.fetched \in SUBSET stored /\ w.pending \in SUBSET Events
      /\ w.pending \subseteq {w.root[e]}
  BY <1>1 DEF RootInv, RootWalks
<1>r. IsRound(S, w, v)
  BY <1>w, RootRound
<1>a. \A x \in Events : Height[x] \in Nat
  BY ReferenceAssumption
<1>4. CASE w.pending = {}
  <2>1. v.root = w.root /\ v.pending = {}
    <3>1. w.pending \subseteq w.fetched
      BY <1>4
    <3> QED
      BY <1>r, <3>1 DEF IsRound
  <2>2. RootOfRoot(w.root[e]) = w.root[e]
    BY <1>4 DEF AloneInv
  <2> QED
    BY <1>1, <1>2, <1>3, <2>1, <2>2 DEF AloneInv
<1>5. CASE w.pending # {}
  <2>0. w.pending = {w.root[e]} /\ \A x \in w.fetched : Height[w.root[e]] < Height[x]
    BY <1>5, <1>w DEF AloneInv
  <2>n. w.root[e] \notin w.fetched
    BY <1>a, <1>w, <2>0
  <2>1. /\ v.fetched = w.fetched \union EventsByIds(w.pending \ w.fetched)
        /\ MovesOn(e, w, v.fetched) => v.root[e] = RootTag(w.root[e])
        /\ ~MovesOn(e, w, v.fetched) => v.root[e] = w.root[e]
        /\ \A x : x \in v.pending <=> MovesOn(e, w, v.fetched) /\ x = v.root[e]
    <3>1. ~(w.pending \subseteq w.fetched)
      BY <2>0, <2>n
    <3>2. /\ MovesOn(e, w, v.fetched) => v.root[e] = RootTag(w.root[e])
          /\ ~MovesOn(e, w, v.fetched) => v.root[e] = w.root[e]
      BY <1>r, <3>1 DEF IsRound
    <3>3. /\ v.fetched = w.fetched \union EventsByIds(w.pending \ w.fetched)
          /\ \A x : x \in v.pending <=> \E f \in S : MovesOn(f, w, v.fetched) /\ x = v.root[f]
      BY <1>r, <3>1 DEF IsRound
    <3> QED
      BY <3>2, <3>3
  <2>2. EventsByIds(w.pending \ w.fetched) = {w.root[e]} \intersect stored
    <3>1. w.pending \ w.fetched = {w.root[e]}
      BY <2>0, <2>n
    <3>2. {w.root[e]} \in SUBSET Events /\ Cardinality({w.root[e]}) <= MaxLimit
      BY <1>w, OneIsAllowed
    <3> QED
      BY <3>1, <3>2, FetchedById
  <2>3. v.fetched \subseteq stored /\ (w.root[e] \in v.fetched <=> w.root[e] \in stored)
    BY <1>w, <2>1, <2>2
  <2>4. /\ MovesOn(e, w, v.fetched) <=> w.root[e] \in v.fetched /\ RootTag(w.root[e]) # None
        /\ MovesOn(e, w, v.fetched) => /\ RootTag(w.root[e]) = RootOfRoot(w.root[e])
                                       /\ Height[RootTag(w.root[e])] < Height[w.root[e]]
    BY <1>1, <2>3, NothingIsMetAgain
  <2>5. v.root[e] = RootOfRoot(w.root[e])
    BY <2>1, <2>3, <2>4 DEF RootOfRoot
  <2>6. CASE MovesOn(e, w, v.fetched)
    <3>1. v.root[e] = RootTag(w.root[e]) /\ RootTag(w.root[e]) \in Events
      BY <1>w, <2>1, <2>4, <2>6, RootIsEvent
    <3>2. \A x \in v.fetched : x \in Events /\ (x \in w.fetched \/ x = w.root[e])
      BY <1>w, <2>1, <2>2, <2>3
    <3>3. \A x \in v.fetched : Height[v.root[e]] < Height[x]
      <4> TAKE x \in v.fetched
      <4>1. Height[v.root[e]] \in Nat /\ Height[w.root[e]] \in Nat /\ Height[x] \in Nat
        BY <1>a, <1>w, <3>1, <3>2
      <4>2. Height[v.root[e]] < Height[w.root[e]]
        BY <2>4, <2>6, <3>1
      <4>3. x = w.root[e] \/ Height[w.root[e]] < Height[x]
        BY <2>0, <3>2
      <4> QED
        BY <4>1, <4>2, <4>3
    <3>4. v.pending # {}
      BY <2>1, <2>6
    <3> QED
      BY <1>1, <1>2, <1>3, <2>5, <3>3, <3>4 DEF AloneInv
  <2>7. CASE ~MovesOn(e, w, v.fetched)
    <3>1. v.root[e] = w.root[e] /\ v.pending = {}
      BY <2>1, <2>7
    <3> QED
      BY <1>1, <1>2, <1>3, <2>5, <3>1 DEF AloneInv
  <2> QED
    BY <2>6, <2>7
<1> QED
  BY <1>4, <1>5

\* Alone, an event is shown with the end of its chain.
LEMMA AloneIsWhole ==
    ASSUME stored \in SUBSET Events, NEW e \in Events, RootTag(e) # None,
           NEW page \in SUBSET Events, e \in page, \A x \in page : x = e
    PROVE  RootEvents(page)[e] = RootsUp(e)[RootHops]
<1>0. PICK S : S = Rooted(page)
  OBVIOUS
<1>1. RootHops \in Nat \ {0} /\ S \in SUBSET Events /\ e \in S /\ (\A x \in S : x = e)
  BY <1>0, FeedAssumption DEF Rooted
<1>2. PICK w : /\ w \in [0..RootHops -> RootWalks(S)]
               /\ w[0] = FirstRoots(S)
               /\ \A d \in 1..RootHops : w[d] = FetchRoots(w[d - 1], S)
               /\ RootWalk(page) = w[RootHops]
  BY <1>0, <1>1, RootWalkIsWalk
<1> DEFINE T == {n \in 0..RootHops : AloneInv(S, e, w[n], n)}
<1>3. 0 \in T
  BY <1>1, <1>2, AloneFirst
<1>4. \A n \in 0..(RootHops - 1) : n \in T => n + 1 \in T
  <2> SUFFICES ASSUME NEW n \in 0..(RootHops - 1), AloneInv(S, e, w[n], n) PROVE n + 1 \in 0..RootHops /\ AloneInv(S, e, w[n + 1], n + 1)
    OBVIOUS
  <2>1. n + 1 \in 1..RootHops /\ n + 1 \in 0..RootHops /\ (n + 1) - 1 = n
    BY <1>1
  <2>2. w[n + 1] = FetchRoots(w[n], S) /\ AloneInv(S, e, w[n], (n + 1) - 1)
    BY <1>2, <2>1
  <2>3. AloneInv(S, e, w[n + 1], n + 1)
    BY <1>1, <2>1, <2>2, AloneNext
  <2> QED
    BY <2>1, <2>3
<1> HIDE DEF T
<1>5. \A n \in 0..RootHops : n \in T
  BY <1>1, <1>3, <1>4, UpTo
<1>6. RootHops \in T
  BY <1>1, <1>5
<1> QED
  BY <1>2, <1>6 DEF T, AloneInv, RootEvents

\* Every root is up the chain.
LEMMA RootsAreUp == TableTypes => RootsAreOnChain
<1> SUFFICES ASSUME TableTypes, NEW e \in stored, RootTag(e) # None
             PROVE  /\ RootEvents({e})[e] = RootsUp(e)[RootHops]
                    /\ RootEvents(stored)[e] \in Elems(RootsUp(e))
  BY DEF RootsAreOnChain
<1>1. stored \in SUBSET Events /\ e \in Events
  BY StoredAreEvents
<1>2. RootEvents({e})[e] = RootsUp(e)[RootHops]
  <2> DEFINE page == {e}
  <2>1. page \in SUBSET Events /\ e \in page /\ \A x \in page : x = e
    BY <1>1
  <2> HIDE DEF page
  <2>2. RootEvents(page)[e] = RootsUp(e)[RootHops]
    BY <1>1, <2>1, AloneIsWhole
  <2> QED
    BY <2>2 DEF page
<1>3. PICK S : S = Rooted(stored)
  OBVIOUS
<1>4. RootInv(S, RootWalk(stored), RootHops) /\ e \in S
  BY <1>1, <1>3, RootInvHolds DEF Rooted
<1>5. PICK k \in 0..RootHops : RootWalk(stored).root[e] = RootsUp(e)[k]
  BY <1>4 DEF RootInv
<1>6. DOMAIN RootsUp(e) = 0..RootHops
  BY <1>1, RootsUpIsWalk
<1>7. RootEvents(stored)[e] \in Elems(RootsUp(e))
  BY <1>5, <1>6 DEF RootEvents, Elems
<1> QED
  BY <1>2, <1>7

\* The root that a feed shows for an event is up the chain of its root tags, and it is
\* the end of it for an event that is alone (rootEvents).
THEOREM ReadsRootsAreOnChain == Spec => []RootsAreOnChain
  BY RootsAreUp, ReadTables, PTL

-----------------------------------------------------------------------------
(* What a feed comes with *)

\* The first tag of an event is an event.
LEMMA FirstTagIsEvent ==
    ASSUME NEW e \in Events, FirstETag(e) # None
    PROVE  FirstETag(e) \in Events
<1>1. ETags[e] \in Seq([to : Events, marker : STRING]) /\ ETags[e] # <<>>
  BY EventsAssumption DEF FirstETag
<1>2. 1 \in DOMAIN ETags[e]
  BY <1>1
<1> QED
  BY <1>1, <1>2, TagsAreEvents DEF FirstETag

\* As many are shown beside the items as there are items at most.
LEMMA ImageIsFewer ==
    ASSUME NEW S, IsFiniteSet(S), NEW G, NEW f, f \in [S -> G], NEW R, \A y \in R : \E x \in S : y = f[x]
    PROVE  IsFiniteSet(R) /\ Cardinality(R) \in Nat /\ Cardinality(S) \in Nat /\ Cardinality(R) <= Cardinality(S)
<1> DEFINE T == {f[x] : x \in S}
<1>1. f \in Surjection(S, T)
  BY DEF Surjection
<1>2. R \subseteq T
  OBVIOUS
<1> HIDE DEF T
<1>3. IsFiniteSet(T) /\ Cardinality(T) <= Cardinality(S)
  BY <1>1, FS_Surjection
<1>4. IsFiniteSet(R) /\ Cardinality(R) <= Cardinality(T)
  BY <1>2, <1>3, FS_Subset
<1> QED
  BY <1>3, <1>4, FS_CardinalityType

\* What is reposted comes with a page, if it is stored.
LEMMA OriginalsAreStored ==
    ASSUME stored \in SUBSET Events, NEW s, Elems(s) \in SUBSET stored, Cardinality(Elems(s)) <= FeedMax
    PROVE  /\ Originals(s) = {FirstETag(e) : e \in {f \in Elems(s) : IsRepost(f)}} \intersect stored
           /\ Cardinality(Elems(s) \union Originals(s)) <= MaxLimit
<1> DEFINE E == Elems(s)
           P == {f \in E : IsRepost(f)}
           R == {FirstETag(e) : e \in P}
           f == [e \in E |-> FirstETag(e)]
<1>1. E \in SUBSET Events /\ IsFiniteSet(E) /\ FeedMax \in Nat /\ 2 * FeedMax <= MaxLimit /\ MaxLimit \in Nat
  BY FS_Subset, EventsAssumption, FeedAssumption
<1>2. IsFiniteSet(R \ {None}) /\ Cardinality(R \ {None}) \in Nat /\ Cardinality(E) \in Nat
      /\ Cardinality(R \ {None}) <= Cardinality(E)
  <2>1. (\A y \in R \ {None} : \E e \in E : y = f[e]) /\ f \in [E -> {f[e] : e \in E}]
    OBVIOUS
  <2> HIDE DEF f, R
  <2> QED
    BY <1>1, <2>1, ImageIsFewer
<1>3. R \ {None} \in SUBSET Events
  BY <1>1, FirstTagIsEvent
<1>4. None \notin stored
  BY EventsAssumption
<1>5. Originals(s) = EventsByIds(R \ {None})
  BY DEF Originals
<1>6. Originals(s) = (R \ {None}) \intersect stored
  <2>1. Cardinality(R \ {None}) <= MaxLimit
    BY <1>1, <1>2
  <2> HIDE DEF R
  <2> QED
    BY <1>3, <1>5, <2>1, FetchedById
<1>7. Originals(s) \subseteq R \ {None}
  BY <1>6
<1> HIDE DEF R
<1>8. IsFiniteSet(Originals(s)) /\ Cardinality(Originals(s)) <= Cardinality(R \ {None})
      /\ Cardinality(Originals(s)) \in Nat
  BY <1>2, <1>7, FS_Subset, FS_CardinalityType
<1>9. /\ Cardinality(E \union Originals(s)) =
             Cardinality(E) + Cardinality(Originals(s)) - Cardinality(E \intersect Originals(s))
      /\ IsFiniteSet(E \intersect Originals(s)) /\ Cardinality(E \intersect Originals(s)) \in Nat
  BY <1>1, <1>8, FS_Union, FS_Intersection, FS_CardinalityType
<1>10. Cardinality(E \union Originals(s)) <= MaxLimit
  BY <1>1, <1>2, <1>8, <1>9
<1>11. Originals(s) = R \intersect stored
  BY <1>4, <1>6
<1> QED
  BY <1>10, <1>11 DEF R

\* A root that did not move in the last round was fetched, if it is stored.
LEMMA LastRoots ==
    ASSUME stored \in SUBSET Events, NEW page \in SUBSET stored, Cardinality(page) <= MaxLimit, NEW e \in page
    PROVE  /\ DOMAIN RootEvents(page) = Rooted(page)
           /\ e \in Rooted(page) /\ RootEvents(page)[e] \in stored /\ RootsUp(e)[RootHops] = RootsUp(e)[RootHops - 1]
                 => RootEvents(page)[e] \in RootWalk(page).fetched
<1>1. PICK S : S = Rooted(page)
  OBVIOUS
<1>2. PICK v : v = RootWalk(page)
  OBVIOUS
<1>3. page \in SUBSET Events /\ S \in SUBSET Events /\ \A f \in S : RootTag(f) # None
  BY <1>1 DEF Rooted
<1>4. RootInv(S, v, RootHops) /\ \E u : RootInv(S, u, RootHops - 1) /\ v = FetchRoots(u, S)
  BY <1>1, <1>2, <1>3, RootInvHolds
<1>5. PICK u : RootInv(S, u, RootHops - 1) /\ v = FetchRoots(u, S)
  BY <1>4
<1>6. DOMAIN v.root = S
  BY <1>4 DEF RootInv, RootWalks
<1>7. Cardinality(S) <= MaxLimit
  <2>1. IsFiniteSet(page) /\ S \subseteq page
    BY <1>1, <1>3, FS_Subset, EventsAssumption DEF Rooted
  <2>2. IsFiniteSet(S) /\ Cardinality(S) <= Cardinality(page) /\ Cardinality(S) \in Nat /\ Cardinality(page) \in Nat
    BY <2>1, FS_Subset, FS_CardinalityType
  <2> QED
    BY <2>2, EventsAssumption
<1>8. RootHops \in 1..RootHops
  BY FeedAssumption
<1>9. ASSUME e \in S, v.root[e] \in stored, RootsUp(e)[RootHops] = RootsUp(e)[RootHops - 1]
      PROVE  v.root[e] \in v.fetched
  <2>1. \A f \in S : v.root[f] = u.root[f] /\ v.root[f] \in stored => v.root[f] \in v.fetched
    BY <1>3, <1>5, <1>7, <1>8, RootInvNext
  <2>2. v.pending = {} \/ v.root[e] = RootsUp(e)[RootHops]
    BY <1>4, <1>7, <1>9 DEF RootInv
  <2>3. v.root[e] \in v.pending \union v.fetched
    BY <1>4, <1>7, <1>9 DEF RootInv
  <2>4. u.pending = {} \/ u.root[e] = RootsUp(e)[RootHops - 1]
    BY <1>5, <1>7, <1>9 DEF RootInv
  <2>5. u.pending = {} => v.pending = {}
    <3>1. u \in RootWalks(S)
      BY <1>5 DEF RootInv
    <3> QED
      BY <1>3, <1>5, <3>1, RootRound DEF IsRound
  <2> QED
    BY <1>9, <2>1, <2>2, <2>3, <2>4, <2>5
<1> QED
  BY <1>1, <1>2, <1>6, <1>9 DEF RootEvents

\* What the items of a page show comes with it.
LEMMA PageComesWithAll ==
    ASSUME stored \in SUBSET Events, NEW s, Elems(s) \in SUBSET stored, Cardinality(Elems(s)) <= FeedMax
    PROVE  LET notes == {e \in Elems(s) : ~IsRepost(e)}
               originals == {FirstETag(e) : e \in Elems(s) \ notes} \intersect stored
               roots == RootEvents(Elems(s) \union originals)
           IN  /\ Elems(s) \union originals \subseteq Hydrated(s)
               /\ \A e \in (notes \union originals) \intersect DOMAIN roots :
                      roots[e] \in stored /\ RootsUp(e)[RootHops] = RootsUp(e)[RootHops - 1] => roots[e] \in Hydrated(s)
<1>1. PICK notes : notes = {e \in Elems(s) : ~IsRepost(e)}
  OBVIOUS
<1>2. PICK originals : originals = {FirstETag(e) : e \in Elems(s) \ notes} \intersect stored
  OBVIOUS
<1>3. Elems(s) \ notes = {f \in Elems(s) : IsRepost(f)}
  BY <1>1
<1>4. Originals(s) = originals /\ Cardinality(Elems(s) \union originals) <= MaxLimit
  BY <1>2, <1>3, OriginalsAreStored
<1>5. PICK page : page = Elems(s) \union originals
  OBVIOUS
<1>6. page \in SUBSET stored /\ Cardinality(page) <= MaxLimit /\ notes \union originals \subseteq page
  BY <1>1, <1>2, <1>4, <1>5
<1>7. PICK w : w = RootWalk(page)
  OBVIOUS
<1>8. page \union RootsOf(notes \union originals, w) \subseteq Hydrated(s)
  <2>1. Hydrated(s) = WithQuoted(WithRoots(notes, originals, page))
    BY <1>1, <1>4, <1>5 DEF Hydrated
  <2> QED
    BY <1>7, <2>1 DEF WithQuoted, WithRoots
<1>9. RootEvents(page) = w.root
  BY <1>7 DEF RootEvents
<1>10. ASSUME NEW e \in (notes \union originals) \intersect DOMAIN w.root, w.root[e] \in stored,
              RootsUp(e)[RootHops] = RootsUp(e)[RootHops - 1]
       PROVE  w.root[e] \in Hydrated(s)
  <2>1. e \in page
    BY <1>6, <1>10
  <2>2. DOMAIN w.root = Rooted(page)
    BY <1>6, <1>9, <2>1, LastRoots
  <2>3. w.root[e] \in w.fetched
    BY <1>6, <1>7, <1>9, <1>10, <2>1, <2>2, LastRoots
  <2>4. w.root[e] \in RootsOf(notes \union originals, w)
    BY <1>10, <2>3 DEF RootsOf
  <2> QED
    BY <1>8, <2>4
<1> QED
  BY <1>1, <1>2, <1>5, <1>8, <1>9, <1>10

\* The stored events that a page shows are among those that come with it.
LEMMA FeedsAreHydrated == TableTypes => FeedIsHydrated
<1> SUFFICES ASSUME TableTypes, NEW until \in Times
             PROVE  LET s == FollowsFeed(Here.authors, until, Here.limit, 0)
                        notes == {e \in Elems(s) : ~IsRepost(e)}
                        originals == {FirstETag(e) : e \in Elems(s) \ notes} \intersect stored
                        roots == RootEvents(Elems(s) \union originals)
                    IN  /\ Elems(s) \union originals \subseteq Hydrated(s)
                        /\ \A e \in (notes \union originals) \intersect DOMAIN roots :
                               roots[e] \in stored /\ RootsUp(e)[RootHops] = RootsUp(e)[RootHops - 1] => roots[e] \in Hydrated(s)
  BY DEF FeedIsHydrated
<1>1. PICK s : s = FollowsFeed(Here.authors, until, Here.limit, 0)
  OBVIOUS
<1>2. until \in Nat /\ stored \in SUBSET Events
  BY TimesAreNumbers, StoredAreEvents
<1>3. PICK B, n : B = Before(Subject("feed"), until) /\ n = Limited(Here.limit, FeedMax, FeedDefault)
  OBVIOUS
<1>4. s = Page(Newest(B), 0, n)
  BY <1>1, <1>2, <1>3, FeedIsNewest
<1>5. n \in Nat /\ n <= FeedMax /\ FeedMax \in Nat
  BY <1>3, Scrolls, FeedAssumption DEF Limited
<1>6. B \in SUBSET stored /\ B \in SUBSET Events
  BY <1>2, <1>3 DEF Before, Subject
<1>7. IsTop(s, B, n)
  BY <1>4, <1>5, <1>6, FirstPageIsTop
<1>8. s \in Seq(B) /\ Len(s) <= n /\ Len(s) \in Nat
  <2>1. Cardinality(B) \in Nat
    BY <1>6, NewestIsSorted
  <2> QED
    BY <1>5, <1>7, <2>1 DEF IsTop, Least
<1>9. Elems(s) \in SUBSET stored
  BY <1>6, <1>8 DEF Elems
<1>10. Cardinality(Elems(s)) <= FeedMax
  <2>1. DOMAIN s = 1..Len(s) /\ IsFiniteSet(1..Len(s)) /\ Cardinality(1..Len(s)) = Len(s)
    BY <1>8, Numbered
  <2>2. s \in [1..Len(s) -> B] /\ \A y \in Elems(s) : \E i \in 1..Len(s) : y = s[i]
    BY <1>8, <2>1 DEF Elems
  <2>3. Cardinality(Elems(s)) <= Len(s) /\ Cardinality(Elems(s)) \in Nat
    <3> DEFINE I == 1..Len(s)
    <3>1. IsFiniteSet(I) /\ Cardinality(I) = Len(s) /\ s \in [I -> B] /\ \A y \in Elems(s) : \E i \in I : y = s[i]
      BY <2>1, <2>2
    <3> HIDE DEF I
    <3>2. Cardinality(Elems(s)) <= Cardinality(I) /\ Cardinality(Elems(s)) \in Nat
      BY <3>1, ImageIsFewer
    <3> QED
      BY <3>1, <3>2
  <2> QED
    BY <1>5, <1>8, <2>3
<1> QED
  BY <1>1, <1>2, <1>9, <1>10, PageComesWithAll

\* A page of a feed comes with the stored events that it shows beside its items: what is
\* reposted, and each root that was found before the last round (feedResponse).
THEOREM ReadsFeedIsHydrated == Spec => []FeedIsHydrated
  BY FeedsAreHydrated, ReadTables, PTL

-----------------------------------------------------------------------------
(* Threads *)

\* What is picked comes in its order, so that nothing comes twice that was there once.
LEMMA KeptStaysOnce ==
    ASSUME NEW T, NEW s \in Seq(T), Once(s), NEW S
    PROVE  Once(Kept(s, S)) /\ Kept(s, S) \in Seq(T)
<1>1. PICK t : t = Kept(s, S)
  OBVIOUS
<1>2. t \in Seq(T) /\ \E p : Keeps(t, s, S, p)
  BY <1>1, KeptIsInOrder
<1>3. PICK p : Keeps(t, s, S, p)
  BY <1>2
<1>4. /\ Len(t) \in Nat /\ DOMAIN t = 1..Len(t) /\ Len(s) \in Nat /\ DOMAIN s = 1..Len(s)
      /\ p \in [1..Len(t) -> 1..Len(s)]
  BY <1>2, <1>3 DEF Keeps
<1>5. ASSUME NEW i \in 1..Len(t), NEW j \in 1..Len(t), i # j PROVE t[i] # t[j]
  <2>1. i \in Int /\ j \in Int /\ p[i] \in 1..Len(s) /\ p[j] \in 1..Len(s) /\ p[i] \in Int /\ p[j] \in Int
    BY <1>4
  <2>2. p[i] < p[j] \/ p[j] < p[i]
    BY <1>3, <1>5, <2>1 DEF Keeps
  <2>3. s[p[i]] # s[p[j]]
    BY <1>4, <2>1, <2>2 DEF Once
  <2> QED
    BY <1>3, <2>3 DEF Keeps
<1> QED
  BY <1>1, <1>2, <1>4, <1>5 DEF Once

\* Who refers to some of two sets refers to one of them.
LEMMA RefersToBoth ==
    ASSUME NEW A, NEW B
    PROVE  RefersTo(A \union B) = RefersTo(A) \union RefersTo(B)
BY DEF RefersTo

\* What is below a root, level by level.
LEMMA DownIsWalk ==
    ASSUME NEW root \in stored
    PROVE  /\ Down(root) \in [0..ThreadDepth -> SUBSET stored]
           /\ Down(root)[0] = {root}
           /\ \A d \in 1..ThreadDepth : Down(root)[d] = Down(root)[d - 1] \union RefersTo(Down(root)[d - 1])
<1> DEFINE down[d \in 0..ThreadDepth] == IF d = 0 THEN {root} ELSE down[d - 1] \union RefersTo(down[d - 1])
           Is(f) == f = [d \in 0..ThreadDepth |-> IF d = 0 THEN {root} ELSE f[d - 1] \union RefersTo(f[d - 1])]
           D == SUBSET stored
           G == [x \in (1..ThreadDepth) \X D |-> x[2] \union RefersTo(x[2])]
<1>1. ThreadDepth \in Nat
  BY ThreadAssumption
<1>2. {root} \in D
  OBVIOUS
<1>r. \A S \in D : S \union RefersTo(S) \in D
  BY DEF RefersTo
<1> HIDE DEF D
<1>3. G \in [(1..ThreadDepth) \X D -> D]
  BY <1>r
<1>4. \A d \in 1..ThreadDepth, S \in D : G[<<d, S>>] = S \union RefersTo(S)
  OBVIOUS
<1> HIDE DEF G
<1>5. PICK w : IsWalk(w, ThreadDepth, D, {root}, G)
  BY <1>1, <1>2, <1>3, WalkExists
<1>6. w \in [0..ThreadDepth -> D] /\ w[0] = {root}
  BY <1>5 DEF IsWalk
<1>7. \A d \in 1..ThreadDepth : w[d] = w[d - 1] \union RefersTo(w[d - 1])
  <2> TAKE d \in 1..ThreadDepth
  <2>1. d - 1 \in 0..ThreadDepth
    BY <1>1
  <2>2. w[d - 1] \in D
    BY <1>6, <2>1
  <2> QED
    BY <1>4, <1>5, <2>2 DEF IsWalk
<1>8. Is(w)
  <2>1. \A d \in 0..ThreadDepth : w[d] = IF d = 0 THEN {root} ELSE w[d - 1] \union RefersTo(w[d - 1])
    <3> TAKE d \in 0..ThreadDepth
    <3>1. d = 0 \/ d \in 1..ThreadDepth
      BY <1>1
    <3> QED
      BY <1>6, <1>7, <3>1
  <2> QED
    BY <1>6, <2>1
<1>9. down = CHOOSE f : Is(f)
  OBVIOUS
<1>10. Down(root) = down
  BY DEF Down
<1> HIDE DEF down
<1>11. Is(down)
  <2> HIDE DEF Is
  <2> QED
    BY <1>8, <1>9
<1>12. down = [d \in 0..ThreadDepth |-> down[d]] /\ down[0] = {root}
  BY <1>1, <1>11
<1>13. \A d \in 1..ThreadDepth : down[d] = down[d - 1] \union RefersTo(down[d - 1])
  <2> TAKE d \in 1..ThreadDepth
  <2>1. d \in 0..ThreadDepth /\ d # 0
    BY <1>1
  <2> QED
    BY <1>11, <2>1
<1>14. \A d \in 1..ThreadDepth : down[d - 1] \in D => down[d] = G[<<d, down[d - 1]>>]
  BY <1>4, <1>13
<1>15. IsWalk(down, ThreadDepth, D, {root}, G)
  BY <1>1, <1>2, <1>3, <1>12, <1>14, RecursionIsWalk
<1>16. down \in [0..ThreadDepth -> D]
  BY <1>15 DEF IsWalk
<1> QED
  BY <1>10, <1>12, <1>13, <1>16 DEF D

\* A descent: what was found, and the last of it in the order that it came.
Descents == [found : SUBSET stored, frontier : Seq(stored)]

\* A level of the descent from w: nothing, or what refers to the first of the frontier is
\* found, as far as there is room; all of it when there is.
IsLevel(w, v, max) ==
    /\ v \in Descents
    /\ w.frontier = <<>> \/ max <= Cardinality(w.found) => v = w
    /\ w.frontier # <<>> /\ Cardinality(w.found) < max =>
         \E next \in SUBSET RefersTo(Elems(Page(w.frontier, 0, ThreadBatch))) :
            /\ v.found = w.found \union next /\ Elems(v.frontier) = next \ w.found /\ Once(v.frontier)
            /\ IsFiniteSet(next) /\ Cardinality(next) <= max - Cardinality(w.found)
            /\ Cardinality(RefersTo(Elems(Page(w.frontier, 0, ThreadBatch)))) <=
                       Least(max - Cardinality(w.found), MaxLimit)
                 => next = RefersTo(Elems(Page(w.frontier, 0, ThreadBatch)))

\* A level of the descent finds who refers to the frontier.
LEMMA Descends ==
    ASSUME stored \in SUBSET Events, NEW max \in Nat, NEW w \in Descents
    PROVE  IsLevel(w, Descend(w, max), max)
<1>w. /\ w.found \in SUBSET stored /\ w.frontier \in Seq(stored)
      /\ IsFiniteSet(w.found) /\ Cardinality(w.found) \in Nat
  <2>1. w.found \in SUBSET stored /\ w.frontier \in Seq(stored)
    BY DEF Descents
  <2>2. IsFiniteSet(w.found)
    BY <2>1, FS_Subset, EventsAssumption
  <2> QED
    BY <2>1, <2>2, FS_CardinalityType
<1>1. PICK v : v = Descend(w, max)
  OBVIOUS
<1>2. CASE w.frontier = <<>> \/ max <= Cardinality(w.found)
  <2>1. w.frontier = <<>> \/ max - Cardinality(w.found) <= 0
    BY <1>2, <1>w
  <2>2. v = w
    BY <1>1, <2>1 DEF Descend
  <2>3. ~(w.frontier # <<>> /\ Cardinality(w.found) < max)
    BY <1>2, <1>w
  <2> QED
    BY <1>1, <2>2, <2>3 DEF IsLevel
<1>3. CASE w.frontier # <<>> /\ Cardinality(w.found) < max
  <2> DEFINE room == max - Cardinality(w.found)
             V == Elems(Page(w.frontier, 0, ThreadBatch))
             n == Least(room, MaxLimit)
             t == [AnyTag EXCEPT !.values = V]
             R == RefersTo(V)
  <2>1. room \in Nat /\ room # 0 /\ ~(room <= 0) /\ n \in Nat /\ n # 0 /\ n <= room /\ n <= MaxLimit
    BY <1>3, <1>w, EventsAssumption DEF Least
  <2>v. V # {}
    <3>1. Len(w.frontier) \in Nat /\ Len(w.frontier) # 0
      BY <1>3, <1>w
    <3>2. ThreadBatch \in Nat /\ ThreadBatch # 0
      BY ThreadAssumption
    <3>3. PICK p : p = Page(w.frontier, 0, ThreadBatch)
      OBVIOUS
    <3>4. Len(p) = Least(Len(w.frontier), ThreadBatch) /\ p \in Seq(stored)
      <4> DEFINE m == Least(Len(w.frontier), 0 + ThreadBatch)
      <4>1. m \in Nat /\ m <= Len(w.frontier) /\ m # 0 /\ m = Least(Len(w.frontier), ThreadBatch)
        BY <3>1, <3>2 DEF Least
      <4>2. p = SubSeq(w.frontier, 1, m)
        BY <3>3 DEF Page
      <4> HIDE DEF m
      <4>3. \A i \in 1..m : w.frontier[i] \in stored
        BY <1>w, <4>1
      <4> QED
        BY <4>1, <4>2, <4>3, SubSeqProperties
    <3>5. Len(p) \in Nat /\ Len(p) # 0 /\ DOMAIN p = 1..Len(p)
      BY <3>1, <3>2, <3>4 DEF Least
    <3>6. 1 \in DOMAIN p
      BY <3>5
    <3> QED
      BY <3>3, <3>6 DEF Elems
  <2>2. PICK q : q = [AnyEvent EXCEPT !.tags = {t}, !.kinds = ReplyKinds, !.limit = n]
    OBVIOUS
  <2>3. /\ q.ids = {} /\ q.authors = {} /\ q.notIds = {} /\ q.notAuthors = {} /\ q.kinds = ReplyKinds
        /\ q.tags = {t} /\ q.texts = Events /\ q.followers = -1 /\ q.since = 0 /\ q.until = 0
        /\ q.limit = n /\ q.offset = 0
    BY <2>2 DEF AnyEvent
  <2>4. t.key = "e" /\ t.values = V /\ t.except = {}
    BY DEF AnyTag
  <2>5. Matching(q) = R
    <3> HIDE DEF t, V, R
    <3>1. \A e : HasTag(e, t) <=> Tagged(e, "e") \intersect V # {}
      BY <2>4, <2>v DEF HasTag
    <3>2. ReplyKinds # {}
      BY DEF ReplyKinds
    <3>3. \A e \in stored : Matches(e, q) /\ InWindow(e, q) <=> Kind[e] \in ReplyKinds /\ Tagged(e, "e") \intersect V # {}
      BY <2>3, <3>1, <3>2 DEF Matches, InWindow, WellFollowed
    <3> QED
      BY <3>3 DEF Matching, RefersTo, R
  <2>6. PICK next : next = QueryEvents(q)
    OBVIOUS
  <2>7. next = Page(Newest(R), 0, n)
    <3>1. Limited(n, MaxLimit, DefaultLimit) = n
      BY <2>1, EventsAssumption DEF Limited
    <3> QED
      BY <2>3, <2>5, <2>6, <3>1 DEF QueryEvents
  <2>8. v = [found |-> w.found \union Elems(next), frontier |-> Kept(next, Elems(next) \ w.found)]
    <3>1. v = IF w.frontier = <<>> \/ room <= 0 THEN w
              ELSE [found |-> w.found \union Elems(next), frontier |-> Kept(next, Elems(next) \ w.found)]
      BY <1>1, <2>2, <2>6 DEF Descend
    <3> QED
      BY <1>3, <2>1, <3>1
  <2>9. R \in SUBSET stored /\ R \in SUBSET Events
    BY DEF RefersTo
  <2> HIDE DEF R, n, room, V, t
  <2>10. IsTop(next, R, n)
    BY <2>1, <2>7, <2>9, FirstPageIsTop
  <2>11. Cardinality(R) \in Nat /\ IsFiniteSet(R) /\ Elems(Newest(R)) = R
    BY <2>9, NewestIsSorted, PageIsOf
  <2>12. next \in Seq(R) /\ Len(next) \in Nat /\ Len(next) <= n /\ DOMAIN next = 1..Len(next)
    BY <2>1, <2>10, <2>11 DEF IsTop, Least
  <2>13. Once(next)
    <3> SUFFICES ASSUME NEW i \in 1..Len(next), NEW j \in 1..Len(next), i # j PROVE next[i] # next[j]
      BY <2>12 DEF Once
    <3>1. Place(R, next[i]) = i - 1 /\ Place(R, next[j]) = j - 1 /\ i \in Int /\ j \in Int
      BY <2>10, <2>12 DEF IsTop
    <3> QED
      BY <3>1
  <2>14. Elems(next) \subseteq R
    BY <2>12 DEF Elems
  <2>15. IsFiniteSet(Elems(next)) /\ Cardinality(Elems(next)) <= room
    <3> DEFINE I == 1..Len(next)
    <3>1. IsFiniteSet(I) /\ Cardinality(I) = Len(next)
      BY <2>12, Numbered
    <3>2. next \in [I -> R] /\ \A y \in Elems(next) : \E i \in I : y = next[i]
      BY <2>12 DEF Elems
    <3> HIDE DEF I
    <3>3. IsFiniteSet(Elems(next)) /\ Cardinality(Elems(next)) <= Cardinality(I) /\ Cardinality(Elems(next)) \in Nat
      BY <3>1, <3>2, ImageIsFewer
    <3> QED
      BY <2>1, <2>12, <3>1, <3>3
  <2>16. Cardinality(R) <= n => Elems(next) = R
    <3> SUFFICES ASSUME Cardinality(R) <= n PROVE R \subseteq Elems(next)
      BY <2>14
    <3>1. Elems(next) = {e \in R : Place(R, e) < n}
      BY <2>1, <2>7, <2>9, FirstOfNewest
    <3>2. \A e \in R : Place(R, e) \in 0..(Cardinality(R) - 1)
      BY <2>9, NewestIsSorted
    <3>3. \A e \in R : Place(R, e) < n
      BY <2>1, <2>11, <3>2
    <3> QED
      BY <3>1, <3>3
  <2>17. PICK F : F = Kept(next, Elems(next) \ w.found)
    OBVIOUS
  <2>18. F \in Seq(R) /\ Once(F) /\ Elems(F) = Elems(next) \ w.found
    <3>1. Elems(F) = Elems(next) \intersect (Elems(next) \ w.found)
      BY <2>12, <2>13, <2>17, KeptOnce
    <3> QED
      BY <2>12, <2>13, <2>17, <3>1, KeptStaysOnce
  <2>19. v.found = w.found \union Elems(next) /\ v.frontier = F
    BY <2>8, <2>17
  <2>20. v \in Descents
    <3>1. F \in Seq(stored)
      BY <2>9, <2>18
    <3>2. w.found \union Elems(next) \in SUBSET stored
      BY <1>w, <2>9, <2>14
    <3> QED
      BY <2>8, <2>17, <3>1, <3>2 DEF Descents
  <2>21. ~(w.frontier = <<>> \/ max <= Cardinality(w.found))
    BY <1>3, <1>w
  <2>22. PICK N : N = Elems(next)
    OBVIOUS
  <2>23. /\ N \in SUBSET R
         /\ v.found = w.found \union N /\ Elems(v.frontier) = N \ w.found /\ Once(v.frontier)
         /\ IsFiniteSet(N) /\ Cardinality(N) <= room
         /\ Cardinality(R) <= n => N = R
    BY <2>14, <2>15, <2>16, <2>18, <2>19, <2>22
  <2> QED
    BY <1>1, <2>20, <2>21, <2>23 DEF IsLevel, R, n, room, V
<1> QED
  BY <1>2, <1>3, <1>w

\* A sequence of different elements is as long as it has elements.
LEMMA OnceCounts ==
    ASSUME NEW T, NEW s \in Seq(T), Once(s)
    PROVE  IsFiniteSet(Elems(s)) /\ Len(s) = Cardinality(Elems(s)) /\ Len(s) \in Nat
<1> DEFINE E == Elems(s)
<1>1. \A i \in 1..Len(s) : s[i] \in E
  BY DEF Elems
<1> HIDE DEF E
<1>2. Kept(s, E) = s
  BY <1>1, KeptAll
<1>3. IsFiniteSet(Elems(s) \intersect E) /\ Len(Kept(s, E)) = Cardinality(Elems(s) \intersect E)
  BY KeptOnce
<1>4. Elems(s) = E /\ E \intersect E = E
  BY DEF E
<1>5. IsFiniteSet(E) /\ Len(s) = Cardinality(E)
  BY <1>2, <1>3, <1>4, Zenon
<1>6. Len(s) \in Nat
  OBVIOUS
<1> QED
  BY <1>4, <1>5, <1>6

\* What the level d of a thread adds to those above.
Level(root, d) == Down(root)[d] \ (IF d = 0 THEN {} ELSE Down(root)[d - 1])

\* Whoever refers to what is found so far was found or refers to the last level.
LEMMA LevelAdds ==
    ASSUME NEW root \in stored, NEW d \in 0..ThreadDepth
    PROVE  RefersTo(Down(root)[d]) \subseteq Down(root)[d] \union RefersTo(Level(root, d))
<1>0. ThreadDepth \in Nat
  BY ThreadAssumption
<1>1. CASE d = 0
  <2>1. Level(root, d) = Down(root)[d]
    BY <1>1 DEF Level
  <2> QED
    BY <2>1
<1>2. CASE d # 0
  <2>1. d \in 1..ThreadDepth
    BY <1>0, <1>2
  <2>2. Down(root)[d] = Down(root)[d - 1] \union RefersTo(Down(root)[d - 1])
    BY <2>1, DownIsWalk
  <2>3. Down(root)[d] = Down(root)[d - 1] \union Level(root, d)
    BY <1>2, <2>2 DEF Level
  <2>4. RefersTo(Down(root)[d]) = RefersTo(Down(root)[d - 1]) \union RefersTo(Level(root, d))
    BY <2>3, RefersToBoth
  <2> QED
    BY <2>2, <2>4
<1> QED
  BY <1>1, <1>2

\* A level that no limit cuts.
FitsLevel(root, d, max) ==
    /\ Cardinality(Level(root, d)) <= ThreadBatch
    /\ Cardinality(RefersTo(Level(root, d))) <= Least(max - Cardinality(Down(root)[d]), MaxLimit)

\* After d levels there is what is that far down at most, within the limit; and all of it when
\* the levels fit, with the last of it as the frontier until nothing more comes.
ThreadInv(root, w, d, max) ==
    /\ w \in Descents /\ root \in w.found /\ w.found \subseteq Down(root)[d]
    /\ Cardinality(w.found) <= max
    /\ Once(w.frontier) /\ Elems(w.frontier) \subseteq w.found
    /\ (\A k \in 0..(d - 1) : FitsLevel(root, k, max)) =>
          /\ w.found = Down(root)[d]
          /\ Elems(w.frontier) = Level(root, d) \/ RefersTo(Down(root)[d]) \subseteq Down(root)[d]

\* Level by level.
LEMMA DescendKeeps ==
    ASSUME stored \in SUBSET Events, NEW root \in stored, NEW max \in Nat, NEW d \in 1..ThreadDepth,
           NEW w, ThreadInv(root, w, d - 1, max)
    PROVE  ThreadInv(root, Descend(w, max), d, max)
<1>0. ThreadDepth \in Nat /\ d \in Int /\ d - 1 \in 0..ThreadDepth /\ d # 0 /\ ThreadBatch \in Nat \ {0}
  BY ThreadAssumption
<1>w. /\ w \in Descents /\ root \in w.found /\ w.found \subseteq Down(root)[d - 1] /\ Cardinality(w.found) <= max
      /\ Once(w.frontier) /\ Elems(w.frontier) \subseteq w.found
  BY DEF ThreadInv
<1>t. /\ w.found \in SUBSET stored /\ w.frontier \in Seq(stored)
      /\ IsFiniteSet(w.found) /\ Cardinality(w.found) \in Nat
  <2>1. w.found \in SUBSET stored /\ w.frontier \in Seq(stored)
    BY <1>w DEF Descents
  <2>2. IsFiniteSet(w.found)
    BY <2>1, FS_Subset, EventsAssumption
  <2> QED
    BY <2>1, <2>2, FS_CardinalityType
<1>1. PICK v : v = Descend(w, max)
  OBVIOUS
<1>2. IsLevel(w, v, max)
  BY <1>1, <1>w, Descends
<1>3. Down(root)[d] = Down(root)[d - 1] \union RefersTo(Down(root)[d - 1])
  BY DownIsWalk
<1>m. \A A, B : A \subseteq B => RefersTo(A) \subseteq RefersTo(B)
  BY DEF RefersTo
<1>4. PICK V : V = Elems(Page(w.frontier, 0, ThreadBatch))
  OBVIOUS
<1>5. IsCut(w.frontier, 0, ThreadBatch, stored)
  BY <1>0, <1>t, PageOfSeq
<1>6. V \subseteq Elems(w.frontier)
  <2>1. PICK p : p = Page(w.frontier, 0, ThreadBatch)
    OBVIOUS
  <2>2. p \in Seq(stored) /\ \A i \in 1..Len(p) : 0 + i \in 1..Len(w.frontier) /\ p[i] = w.frontier[0 + i]
    BY <1>5, <2>1 DEF IsCut
  <2>3. DOMAIN p = 1..Len(p) /\ DOMAIN w.frontier = 1..Len(w.frontier)
    BY <1>t, <2>2
  <2> QED
    BY <1>4, <2>1, <2>2, <2>3 DEF Elems
<1>7. RefersTo(V) \subseteq RefersTo(Down(root)[d - 1])
  BY <1>6, <1>m, <1>w
<1>8. v = w \/ \E N \in SUBSET RefersTo(V) :
                  /\ v.found = w.found \union N /\ Elems(v.frontier) = N \ w.found /\ Once(v.frontier)
                  /\ IsFiniteSet(N) /\ Cardinality(N) <= max - Cardinality(w.found)
  BY <1>2, <1>4, <1>t DEF IsLevel
<1>9. /\ v \in Descents /\ root \in v.found /\ v.found \subseteq Down(root)[d]
      /\ Cardinality(v.found) <= max
      /\ Once(v.frontier) /\ Elems(v.frontier) \subseteq v.found
  <2>1. CASE v = w
    BY <1>3, <1>w, <2>1
  <2>2. ASSUME NEW N \in SUBSET RefersTo(V),
               v.found = w.found \union N, Elems(v.frontier) = N \ w.found, Once(v.frontier),
               IsFiniteSet(N), Cardinality(N) <= max - Cardinality(w.found)
        PROVE  /\ v \in Descents /\ root \in v.found /\ v.found \subseteq Down(root)[d]
               /\ Cardinality(v.found) <= max
               /\ Once(v.frontier) /\ Elems(v.frontier) \subseteq v.found
    <3>1. v \in Descents
      BY <1>2 DEF IsLevel
    <3>2. Cardinality(N) \in Nat
      BY <2>2, FS_CardinalityType
    <3>3. IsFiniteSet(w.found \intersect N) /\ Cardinality(w.found \intersect N) \in Nat
      BY <1>t, FS_Intersection, FS_CardinalityType
    <3>4. Cardinality(v.found) = Cardinality(w.found) + Cardinality(N) - Cardinality(w.found \intersect N)
      BY <1>t, <2>2, FS_Union
    <3>5. Cardinality(v.found) <= max
      BY <1>t, <2>2, <3>2, <3>3, <3>4
    <3> QED
      BY <1>3, <1>7, <1>w, <2>2, <3>1, <3>5
  <2> QED
    BY <1>8, <2>1, <2>2
<1>10. ASSUME \A k \in 0..(d - 1) : FitsLevel(root, k, max)
       PROVE  /\ v.found = Down(root)[d]
              /\ Elems(v.frontier) = Level(root, d) \/ RefersTo(Down(root)[d]) \subseteq Down(root)[d]
  <2> DEFINE L == Level(root, d - 1)
             A == Down(root)[d - 1]
  <2>1. FitsLevel(root, d - 1, max) /\ \A k \in 0..((d - 1) - 1) : FitsLevel(root, k, max)
    <3>1. d - 1 \in 0..(d - 1) /\ \A k \in 0..((d - 1) - 1) : k \in 0..(d - 1)
      BY <1>0
    <3> QED
      BY <1>10, <3>1
  <2>2. w.found = A /\ (Elems(w.frontier) = L \/ RefersTo(A) \subseteq A)
    BY <2>1 DEF ThreadInv
  <2>3. RefersTo(A) \subseteq A \union RefersTo(L)
    BY <1>0, LevelAdds
  <2>4. Down(root)[d] = A \union RefersTo(A) /\ L \subseteq A
    BY <1>3 DEF Level
  <2> HIDE DEF L, A
  <2>5. CASE RefersTo(A) \subseteq A
    <3>1. Down(root)[d] = A
      BY <2>4, <2>5
    <3>2. v.found = A
      BY <1>7, <1>8, <2>2, <2>5 DEF A
    <3> QED
      BY <2>5, <3>1, <3>2
  <2>6. CASE ~(RefersTo(A) \subseteq A)
    <3>1. RefersTo(L) # {} /\ Elems(w.frontier) = L
      BY <2>2, <2>3, <2>6
    <3>2. w.frontier # <<>>
      <4>1. RefersTo({}) = {}
        BY DEF RefersTo
      <4>2. Elems(<<>>) = {}
        BY DEF Elems
      <4> QED
        BY <3>1, <4>1, <4>2
    <3>3. /\ Cardinality(L) <= ThreadBatch
          /\ Cardinality(RefersTo(L)) <= Least(max - Cardinality(w.found), MaxLimit)
      BY <2>1, <2>2 DEF FitsLevel, L, A
    <3>4. Cardinality(RefersTo(L)) \in Nat /\ Cardinality(RefersTo(L)) # 0
      <4>1. IsFiniteSet(RefersTo(L))
        <5>1. RefersTo(L) \in SUBSET Events
          BY DEF RefersTo
        <5> QED
          BY <5>1, FS_Subset, EventsAssumption
      <4> QED
        BY <3>1, <4>1, FS_CardinalityType, FS_EmptySet
    <3>5. Cardinality(w.found) < max
      <4>1. MaxLimit \in Nat
        BY EventsAssumption
      <4> QED
        BY <1>t, <3>3, <3>4, <4>1 DEF Least
    <3>6. V = L
      <4>1. Len(w.frontier) = Cardinality(L)
        BY <1>t, <1>w, <3>1, OnceCounts
      <4>2. Page(w.frontier, 0, ThreadBatch) = w.frontier
        BY <1>5, <3>3, <4>1 DEF IsCut
      <4> QED
        BY <1>4, <3>1, <4>2
    <3>7. PICK N \in SUBSET RefersTo(V) :
             /\ v.found = w.found \union N /\ Elems(v.frontier) = N \ w.found
             /\ Cardinality(RefersTo(V)) <= Least(max - Cardinality(w.found), MaxLimit) => N = RefersTo(V)
      BY <1>2, <1>4, <3>2, <3>5 DEF IsLevel
    <3>8. N = RefersTo(L)
      BY <3>3, <3>6, <3>7
    <3>9. Down(root)[d] = A \union RefersTo(L)
      BY <1>m, <2>3, <2>4
    <3>10. v.found = Down(root)[d] /\ Elems(v.frontier) = Down(root)[d] \ A
      BY <2>2, <3>7, <3>8, <3>9
    <3>11. Level(root, d) = Down(root)[d] \ A
      BY <1>0 DEF Level, A
    <3> QED
      BY <3>10, <3>11
  <2> QED
    BY <2>5, <2>6
<1> QED
  BY <1>1, <1>9, <1>10 DEF ThreadInv

\* The walk of a thread keeps it.
LEMMA ThreadWalks ==
    ASSUME stored \in SUBSET Events, NEW root \in stored, NEW n, NEW max \in Nat \ {0}, max = ThreadLimit(n)
    PROVE  \E v : ThreadInv(root, v, ThreadDepth, max) /\ ThreadEvents(root, n) = v.found \ {root}
<1> DEFINE first == [found |-> {root}, frontier |-> <<root>>]
           walk[d \in 0..ThreadDepth] == IF d = 0 THEN first ELSE Descend(walk[d - 1], ThreadLimit(n))
           Is(f) == f = [d \in 0..ThreadDepth |-> IF d = 0 THEN first ELSE Descend(f[d - 1], ThreadLimit(n))]
           D == Descents
           G == [x \in (1..ThreadDepth) \X D |-> Descend(x[2], max)]
<1>1. ThreadDepth \in Nat
  BY ThreadAssumption
<1>2. first \in D
  BY DEF Descents
<1>d. \A u \in D : Descend(u, max) \in D
  <2> TAKE u \in D
  <2>1. IsLevel(u, Descend(u, max), max)
    BY Descends
  <2> QED
    BY <2>1 DEF IsLevel
<1>f. ThreadInv(root, first, 0, max)
  <2>1. /\ first.found = {root} /\ first.frontier = <<root>> /\ Down(root)[0] = {root}
        /\ Cardinality({root}) = 1
    BY DownIsWalk, FS_Singleton
  <2>2. Elems(<<root>>) = {root} /\ Once(<<root>>)
    BY DEF Elems, Once
  <2>3. Level(root, 0) = {root}
    BY <2>1 DEF Level
  <2>4. first \in Descents
    BY <1>2
  <2> HIDE DEF first
  <2>5. 1 <= max
    OBVIOUS
  <2> QED
    BY <2>1, <2>2, <2>3, <2>4, <2>5 DEF ThreadInv
<1> HIDE DEF D, first
<1>3. G \in [(1..ThreadDepth) \X D -> D]
  BY <1>d
<1>4. \A d \in 1..ThreadDepth, u \in D : G[<<d, u>>] = Descend(u, max)
  OBVIOUS
<1> HIDE DEF G
<1>5. PICK w : IsWalk(w, ThreadDepth, D, first, G)
  BY <1>1, <1>2, <1>3, WalkExists
<1>6. w \in [0..ThreadDepth -> D] /\ w[0] = first
  BY <1>5 DEF IsWalk
<1>7. \A d \in 1..ThreadDepth : w[d] = Descend(w[d - 1], max)
  <2> TAKE d \in 1..ThreadDepth
  <2>1. d - 1 \in 0..ThreadDepth
    BY <1>1
  <2>2. w[d - 1] \in D
    BY <1>6, <2>1
  <2> QED
    BY <1>4, <1>5, <2>2 DEF IsWalk
<1>8. Is(w)
  <2>1. \A d \in 0..ThreadDepth : w[d] = IF d = 0 THEN first ELSE Descend(w[d - 1], ThreadLimit(n))
    <3> TAKE d \in 0..ThreadDepth
    <3>1. d = 0 \/ d \in 1..ThreadDepth
      BY <1>1
    <3> QED
      BY <1>6, <1>7, <3>1
  <2> QED
    BY <1>6, <2>1
<1>9. walk = CHOOSE f : Is(f)
  OBVIOUS
<1>10. ThreadEvents(root, n) = walk[ThreadDepth].found \ {root}
  BY DEF ThreadEvents, first
<1> HIDE DEF walk
<1>11. Is(walk)
  <2> HIDE DEF Is
  <2> QED
    BY <1>8, <1>9
<1>12. walk[0] = first
  BY <1>1, <1>11
<1>13. \A d \in 1..ThreadDepth : walk[d] = Descend(walk[d - 1], max)
  <2> TAKE d \in 1..ThreadDepth
  <2>1. d \in 0..ThreadDepth /\ d # 0
    BY <1>1
  <2> QED
    BY <1>11, <2>1
<1> DEFINE T == {k \in 0..ThreadDepth : ThreadInv(root, walk[k], k, max)}
<1>14. 0 \in T
  BY <1>1, <1>f, <1>12
<1>15. \A k \in 0..(ThreadDepth - 1) : k \in T => k + 1 \in T
  <2> SUFFICES ASSUME NEW k \in 0..(ThreadDepth - 1), ThreadInv(root, walk[k], k, max)
               PROVE  k + 1 \in 0..ThreadDepth /\ ThreadInv(root, walk[k + 1], k + 1, max)
    OBVIOUS
  <2>1. k + 1 \in 1..ThreadDepth /\ k + 1 \in 0..ThreadDepth /\ (k + 1) - 1 = k
    BY <1>1
  <2>2. walk[k + 1] = Descend(walk[k], max) /\ ThreadInv(root, walk[k], (k + 1) - 1, max)
    BY <1>13, <2>1
  <2>3. ThreadInv(root, walk[k + 1], k + 1, max)
    BY <2>1, <2>2, DescendKeeps
  <2> QED
    BY <2>1, <2>3
<1> HIDE DEF T
<1>16. \A k \in 0..ThreadDepth : k \in T
  BY <1>1, <1>14, <1>15, UpTo
<1>17. ThreadInv(root, walk[ThreadDepth], ThreadDepth, max)
  BY <1>1, <1>16 DEF T
<1> QED
  BY <1>10, <1>17

\* A thread's limit is at least one.
LEMMA ThreadLimits ==
    ASSUME NEW n \in {1, 2, ThreadDefault}
    PROVE  ThreadLimit(n) \in Nat \ {0}
BY ThreadAssumption DEF ThreadLimit

\* A thread has what refers to its root, level by level.
LEMMA ThreadsAreWhole == TableTypes => ThreadHoldsReplies
<1> SUFFICES ASSUME TableTypes, NEW root \in stored, NEW n \in {1, 2, ThreadDefault}
             PROVE  LET down == Down(root)
                        level(d) == down[d] \ (IF d = 0 THEN {} ELSE down[d - 1])
                        got == ThreadEvents(root, n)
                    IN  /\ got \subseteq down[ThreadDepth] \ {root}
                        /\ Cardinality(got) < ThreadLimit(n)
                        /\ (\A d \in 0..(ThreadDepth - 1) :
                                /\ Cardinality(level(d)) <= ThreadBatch
                                /\ Cardinality(RefersTo(level(d))) <= Least(ThreadLimit(n) - Cardinality(down[d]), MaxLimit))
                            => got = down[ThreadDepth] \ {root}
  BY DEF ThreadHoldsReplies
<1>1. PICK max : max = ThreadLimit(n)
  OBVIOUS
<1>2. max \in Nat \ {0} /\ stored \in SUBSET Events
  BY <1>1, ThreadLimits, StoredAreEvents
<1>3. PICK v : ThreadInv(root, v, ThreadDepth, max) /\ ThreadEvents(root, n) = v.found \ {root}
  BY <1>1, <1>2, ThreadWalks
<1>4. v.found \in SUBSET stored /\ root \in v.found /\ v.found \subseteq Down(root)[ThreadDepth] /\ Cardinality(v.found) <= max
  BY <1>3 DEF ThreadInv, Descents
<1>5. Cardinality(v.found \ {root}) < max
  <2>1. IsFiniteSet(v.found)
    BY <1>2, <1>4, FS_Subset, EventsAssumption
  <2>2. Cardinality(v.found \ {root}) = Cardinality(v.found) - 1 /\ Cardinality(v.found) \in Nat
    BY <1>4, <2>1, FS_RemoveElement, FS_CardinalityType
  <2> QED
    BY <1>2, <1>4, <2>2
<1>6. (\A d \in 0..(ThreadDepth - 1) : FitsLevel(root, d, max)) => v.found = Down(root)[ThreadDepth]
  BY <1>3 DEF ThreadInv
<1> QED
  BY <1>1, <1>3, <1>4, <1>5, <1>6 DEF FitsLevel, Level

\* A thread has who refers to the root or to something in it, as many levels down, within
\* the limit, and all of it when every level fits what one query may ask and answer
\* (ThreadEvents).
THEOREM ReadsThreadHoldsReplies == Spec => []ThreadHoldsReplies
  BY ThreadsAreWhole, ReadTables, PTL

-----------------------------------------------------------------------------
(* The order of a thread *)

\* Whatever a list is ordered by, it is a sequence.
LEMMA OrderedIsSeq ==
    ASSUME NEW p \in stored, NEW sort, NEW n \in Nat, TableTypes
    PROVE  \E T : RankedReplies(p, sort, n, 0) \in Seq(T)
<1> DEFINE S == DirectReplies(p)
           o == Ordered(S, LAMBDA e, f : RanksBefore(e, f, sort))
           m == IF n <= 0 \/ n > ThreadMax THEN ThreadMax ELSE n
           T == {o[i] : i \in 1..Cardinality(S)}
<1>1. S \subseteq stored
  BY DEF DirectReplies, TableTypes
<1>2. Cardinality(S) \in Nat
  <2>1. S \in SUBSET Events
    BY <1>1, StoredAreEvents
  <2> QED
    BY <2>1, FS_Subset, FS_CardinalityType, EventsAssumption
<1>3. m \in Nat
  BY ThreadAssumption
<1>4. o = [i \in 1..Cardinality(S) |-> o[i]]
  <2> DEFINE h(i) == CHOOSE e \in S : Cardinality({f \in S : RanksBefore(f, e, sort)}) = i - 1
  <2>1. o = [i \in 1..Cardinality(S) |-> h(i)]
    BY DEF Ordered
  <2> HIDE DEF h, o, S
  <2> QED
    BY <2>1
<1>5. RankedReplies(p, sort, n, 0) = Page(o, 0, m)
  BY DEF RankedReplies
<1> HIDE DEF S, o, m
<1>6. o \in Seq(T)
  BY <1>2, <1>4
<1> HIDE DEF T
<1>7. Page(o, 0, m) \in Seq(T)
  BY <1>3, <1>6, PageOfSeq DEF IsCut
<1> QED
  BY <1>5, <1>7

\* The oldest of some events comes first.
LEMMA OldestFirst ==
    ASSUME NEW S \in SUBSET Events, S # {}
    PROVE  Ordered(S, Older)[1] \in S /\ \A f \in S : ~Older(f, Ordered(S, Older)[1])
<1> DEFINE R == {x \in S \X S : Older(x[1], x[2])}
           Has(e, k) == Cardinality({f \in S : Older(f, e)}) = k - 1
<1>1. IsFiniteSet(S) /\ Cardinality(S) \in Nat /\ Cardinality(S) # 0
  <2>1. IsFiniteSet(S)
    BY FS_Subset, EventsAssumption
  <2> QED
    BY <2>1, FS_CardinalityType, FS_EmptySet
<1>2. \A e, f \in S : <<e, f>> \in R <=> Older(e, f)
  OBVIOUS
<1>3. \A e \in S : e \in Nat /\ At[e] \in Nat
  BY EventsAssumption
<1> HIDE DEF R
<1>4. /\ \A e \in S : <<e, e>> \notin R
      /\ \A e, f \in S : e # f => <<e, f>> \in R \/ <<f, e>> \in R
      /\ \A e, f, g \in S : <<e, f>> \in R /\ <<f, g>> \in R => <<e, g>> \in R
  BY <1>2, <1>3 DEF Older
<1>5. \A i \in 1..Cardinality(S) : \E e \in S : RankIn(R, S, e) = i - 1
  BY <1>1, <1>4, RanksArePlaces
<1>6. 1 \in 1..Cardinality(S)
  BY <1>1
<1>7. \A e \in S : Has(e, 1) <=> RankIn(R, S, e) = 1 - 1
  <2> TAKE e \in S
  <2>1. {f \in S : <<f, e>> \in R} = {f \in S : Older(f, e)}
    BY <1>2
  <2> QED
    BY <2>1 DEF RankIn
<1>8. Ordered(S, Older) = [k \in 1..Cardinality(S) |-> CHOOSE e \in S : Has(e, k)]
  BY DEF Ordered
<1>9. \A e \in S : Has(e, 1) => \A f \in S : ~Older(f, e)
  <2> SUFFICES ASSUME NEW e \in S, Has(e, 1), NEW f \in S, Older(f, e) PROVE FALSE
    OBVIOUS
  <2> DEFINE B == {g \in S : Older(g, e)}
  <2>1. B \in SUBSET S /\ Cardinality(B) = 0 /\ f \in B
    OBVIOUS
  <2> HIDE DEF B
  <2> QED
    BY <1>1, <2>1, FS_Subset, FS_EmptySet
<1> HIDE DEF Has
<1>10. Ordered(S, Older)[1] = CHOOSE e \in S : Has(e, 1)
  BY <1>6, <1>8
<1>11. Ordered(S, Older)[1] \in S /\ Has(Ordered(S, Older)[1], 1)
  BY <1>5, <1>6, <1>7, <1>10
<1> QED
  BY <1>9, <1>11

\* The replies that the edges know are stored.
LEMMA RepliesAreStored ==
    ASSUME TableTypes, NEW p
    PROVE  DirectReplies(p) \in SUBSET stored /\ DirectReplies(p) \in SUBSET Events
<1>1. DirectReplies(p) \subseteq stored
  BY DEF DirectReplies, TableTypes
<1> QED
  BY <1>1, StoredAreEvents

\* The earliest reply of a user is one, when there is one.
LEMMA EarliestIsReply ==
    ASSUME TableTypes, NEW p, NEW u
    PROVE  \/ EarliestBy(p, u) = None /\ \A c \in DirectReplies(p) : Author[c] # u
           \/ /\ EarliestBy(p, u) \in DirectReplies(p) /\ Author[EarliestBy(p, u)] = u
              /\ EarliestBy(p, u) \in Events
              /\ \A c \in DirectReplies(p) : Author[c] = u => ~Older(c, EarliestBy(p, u))
<1> DEFINE S == {c \in DirectReplies(p) : Author[c] = u}
<1>1. S \in SUBSET Events /\ \A c : c \in S <=> c \in DirectReplies(p) /\ Author[c] = u
  BY RepliesAreStored
<1>2. EarliestBy(p, u) = IF S = {} THEN None ELSE Ordered(S, Older)[1]
  BY DEF EarliestBy
<1> HIDE DEF S
<1>3. CASE S = {}
  BY <1>1, <1>2, <1>3
<1>4. CASE S # {}
  <2>1. EarliestBy(p, u) \in S /\ \A f \in S : ~Older(f, EarliestBy(p, u))
    BY <1>1, <1>2, <1>4, OldestFirst
  <2> QED
    BY <1>1, <2>1
<1> QED
  BY <1>3, <1>4

\* A step of the chain of u's replies below root.
ChainStep(root, u, s, d) ==
    LET child == EarliestBy(IF s = <<>> THEN root ELSE s[Len(s)], u)
    IN  IF child \in {None, root} \union Elems(s) \/ Len(s) < d - 1 THEN s ELSE Append(s, child)

\* A chain that is walked so, to the end.
IsChain(chain, root, u, n) ==
    /\ chain \in [0..n -> Seq(Events)]
    /\ chain[0] = <<>>
    /\ \A d \in 1..n : chain[d] = ChainStep(root, u, chain[d - 1], d)
    /\ AuthoredChain(root, u, n) = chain[n]

\* The chain of a user's replies, step by step.
LEMMA ChainIsWalk ==
    ASSUME TableTypes, NEW root, NEW u, NEW n \in 1..ChainMax
    PROVE  \E chain : IsChain(chain, root, u, n)
<1> DEFINE depth == IF n <= 0 \/ n > ChainMax THEN ChainDefault ELSE n
           chain[d \in 0..depth] ==
               IF d = 0 THEN <<>>
               ELSE LET s == chain[d - 1]
                        child == EarliestBy(IF s = <<>> THEN root ELSE s[Len(s)], u)
                    IN  IF child \in {None, root} \union Elems(s) \/ Len(s) < d - 1 THEN s ELSE Append(s, child)
           Is(f) == f = [d \in 0..depth |-> IF d = 0 THEN <<>> ELSE ChainStep(root, u, f[d - 1], d)]
           D == Seq(Events)
           G == [x \in (1..n) \X D |-> ChainStep(root, u, x[2], x[1])]
<1>1. n \in Nat /\ depth = n
  BY ThreadAssumption
<1>2. <<>> \in D
  OBVIOUS
<1>d. \A s \in D, d \in 1..n : ChainStep(root, u, s, d) \in D
  <2> TAKE s \in D, d \in 1..n
  <2>1. PICK child : child = EarliestBy(IF s = <<>> THEN root ELSE s[Len(s)], u)
    OBVIOUS
  <2>2. child = None \/ child \in Events
    BY <2>1, EarliestIsReply
  <2>3. ChainStep(root, u, s, d) =
            IF child \in {None, root} \union Elems(s) \/ Len(s) < d - 1 THEN s ELSE Append(s, child)
    BY <2>1 DEF ChainStep
  <2>4. child # None => Append(s, child) \in D
    BY <2>2
  <2> QED
    BY <2>3, <2>4
<1> HIDE DEF D
<1>3. G \in [(1..n) \X D -> D]
  BY <1>d
<1>4. \A d \in 1..n, s \in D : G[<<d, s>>] = ChainStep(root, u, s, d)
  OBVIOUS
<1> HIDE DEF G
<1>9. chain = CHOOSE f : Is(f)
  BY DEF ChainStep
<1>10. AuthoredChain(root, u, n) = chain[depth]
  BY DEF AuthoredChain
<1> HIDE DEF chain
<1> HIDE DEF depth
<1>5. PICK w : IsWalk(w, n, D, <<>>, G)
  BY <1>1, <1>2, <1>3, WalkExists
<1>6. w \in [0..n -> D] /\ w[0] = <<>>
  BY <1>5 DEF IsWalk
<1>7. \A d \in 1..n : w[d] = ChainStep(root, u, w[d - 1], d)
  <2> TAKE d \in 1..n
  <2>1. d - 1 \in 0..n
    BY <1>1
  <2>2. w[d - 1] \in D
    BY <1>6, <2>1
  <2> QED
    BY <1>4, <1>5, <2>2 DEF IsWalk
<1>8. Is(w)
  <2>1. \A d \in 0..n : w[d] = IF d = 0 THEN <<>> ELSE ChainStep(root, u, w[d - 1], d)
    <3> TAKE d \in 0..n
    <3>1. d = 0 \/ d \in 1..n
      BY <1>1
    <3> QED
      BY <1>6, <1>7, <3>1
  <2> QED
    BY <1>1, <1>6, <2>1
<1>11. Is(chain)
  <2> HIDE DEF Is
  <2> QED
    BY <1>8, <1>9
<1>12. chain = [d \in 0..n |-> chain[d]] /\ chain[0] = <<>>
  BY <1>1, <1>11
<1>13. \A d \in 1..n : chain[d] = ChainStep(root, u, chain[d - 1], d)
  <2> TAKE d \in 1..n
  <2>1. d \in 0..n /\ d # 0
    BY <1>1
  <2> QED
    BY <1>1, <1>11, <2>1
<1>14. \A d \in 1..n : chain[d - 1] \in D => chain[d] = G[<<d, chain[d - 1]>>]
  BY <1>4, <1>13
<1>15. IsWalk(chain, n, D, <<>>, G)
  BY <1>1, <1>2, <1>3, <1>12, <1>14, RecursionIsWalk
<1>16. chain \in [0..n -> D]
  BY <1>15 DEF IsWalk
<1> QED
  BY <1>1, <1>10, <1>12, <1>13, <1>16 DEF D, IsChain

\* Whatever a thread is ordered by is a sequence.
LEMMA MergedAreSeqs ==
    ASSUME TableTypes, NEW root \in stored, NEW sort, NEW v, NEW m \in MergedOrders(root, sort, v, 2, 1)
    PROVE  \E T : m \in Seq(T)
<1>0. 1 \in Nat /\ 2 \in Nat
  OBVIOUS
<1>1. CASE sort = "relevant"
  <2>1. m \in RelevantOrders(root, v, 2, 1)
    BY <1>1 DEF MergedOrders
  <2>2. PICK chain : chain = AuthoredChain(root, Author[root], ChainDefault)
    OBVIOUS
  <2>3. PICK a : a = RankedReplies(root, "likes", 1, 0)
    OBVIOUS
  <2>4. PICK b : b = RankedReplies(root, "new", 2, 0)
    OBVIOUS
  <2>5. \E f, c : (f = <<>> \/ f = <<c>>) /\ m = chain \o f \o a \o b
    BY <2>1, <2>2, <2>3, <2>4 DEF RelevantOrders
  <2>6. PICK f, c : (f = <<>> \/ f = <<c>>) /\ m = chain \o f \o a \o b
    BY <2>5
  <2>7. PICK A : a \in Seq(A)
    BY <1>0, <2>3, OrderedIsSeq
  <2>8. PICK B : b \in Seq(B)
    BY <1>0, <2>4, OrderedIsSeq
  <2>9. chain \in Seq(Events)
    <3>1. ChainDefault \in 1..ChainMax /\ ChainDefault \in 0..ChainDefault
      BY ThreadAssumption
    <3>2. PICK w : IsChain(w, root, Author[root], ChainDefault)
      BY <3>1, ChainIsWalk
    <3>3. w \in [0..ChainDefault -> Seq(Events)] /\ chain = w[ChainDefault]
      BY <2>2, <3>2 DEF IsChain
    <3> QED
      BY <3>1, <3>3
  <2> DEFINE T == Events \union {c} \union A \union B
  <2>10. Events \subseteq T /\ A \subseteq T /\ B \subseteq T /\ c \in T
    OBVIOUS
  <2> HIDE DEF T
  <2>11. chain \in Seq(T) /\ f \in Seq(T) /\ a \in Seq(T) /\ b \in Seq(T)
    <3>1. chain \in Seq(T)
      BY <2>9, <2>10
    <3>2. a \in Seq(T)
      BY <2>7, <2>10
    <3>3. b \in Seq(T)
      BY <2>8, <2>10
    <3>4. <<>> \in Seq(T) /\ <<c>> \in Seq(T)
      BY <2>10
    <3>5. f \in Seq(T)
      BY <2>6, <3>4
    <3> QED
      BY <3>1, <3>2, <3>3, <3>5
  <2>12. m \in Seq(T)
    <3>1. chain \o f \in Seq(T)
      BY <2>11
    <3>2. (chain \o f) \o a \in Seq(T)
      BY <2>11, <3>1
    <3>3. ((chain \o f) \o a) \o b \in Seq(T)
      BY <2>11, <3>2
    <3> QED
      BY <2>6, <3>3
  <2> QED
    BY <2>12
<1>2. CASE sort = "ranked"
  <2>1. m = RankedReplies(root, "likes", 2, 0)
    BY <1>2 DEF MergedOrders
  <2> QED
    BY <1>0, <2>1, OrderedIsSeq
<1>3. CASE sort # "relevant" /\ sort # "ranked"
  <2>1. m = <<>>
    BY <1>3 DEF MergedOrders
  <2> QED
    BY <2>1
<1> QED
  BY <1>1, <1>2, <1>3

\* What is merged comes once, and is of what there is.
LEMMA MergeIsOnce ==
    ASSUME NEW T, NEW m \in Seq(T), NEW S
    PROVE  Merge(m, S) \in Seq(S) /\ Once(Merge(m, S))
<1>1. PICK k : k = Kept(m, S)
  OBVIOUS
<1>2. k \in Seq(T) /\ \E p : Keeps(k, m, S, p)
  BY <1>1, KeptIsInOrder
<1>3. k \in Seq(S)
  <2>1. \A i \in 1..Len(k) : k[i] \in S
    BY <1>2 DEF Keeps
  <2>2. k \in [1..Len(k) -> T] /\ Len(k) \in Nat
    BY <1>2
  <2>3. k \in [1..Len(k) -> S]
    BY <2>1, <2>2
  <2> QED
    BY <2>2, <2>3
<1> DEFINE I == {i \in 1..Len(k) : \A j \in 1..(i - 1) : k[j] # k[i]}
<1>4. I \in SUBSET (1..Len(k)) /\ \A i \in I : \A j \in 1..(i - 1) : k[j] # k[i]
  OBVIOUS
<1>5. Merge(m, S) = Picked(k, I)
  <2>1. DOMAIN k = 1..Len(k)
    BY <1>2
  <2>2. {i \in DOMAIN k : \A j \in 1..(i - 1) : k[j] # k[i]} = I
    BY <2>1
  <2> QED
    BY <1>1, <2>2 DEF Merge, Distinct
<1> HIDE DEF I
<1>6. PICK t : t = Picked(k, I)
  OBVIOUS
<1>7. t \in Seq(S) /\ \E p : Picks(t, k, I, p)
  BY <1>3, <1>4, <1>6, PickedIsInOrder
<1>8. PICK p : Picks(t, k, I, p)
  BY <1>7
<1>9. Len(t) \in Nat /\ DOMAIN t = 1..Len(t) /\ p \in [1..Len(t) -> 1..Len(k)] /\ Len(k) \in Nat
  BY <1>2, <1>7, <1>8 DEF Picks
<1>10. ASSUME NEW i \in 1..Len(t), NEW j \in 1..Len(t), i < j PROVE t[i] # t[j]
  <2>1. p[i] < p[j] /\ p[i] \in 1..Len(k) /\ p[j] \in 1..Len(k) /\ p[j] \in I
    BY <1>8, <1>9, <1>10 DEF Picks
  <2>2. p[i] \in 1..(p[j] - 1)
    BY <1>9, <2>1
  <2>3. k[p[i]] # k[p[j]]
    BY <1>4, <2>1, <2>2
  <2> QED
    BY <1>8, <2>3 DEF Picks
<1>11. Once(t)
  <2> SUFFICES ASSUME NEW i \in 1..Len(t), NEW j \in 1..Len(t), i # j PROVE t[i] # t[j]
    BY <1>9 DEF Once
  <2>1. i < j \/ j < i
    BY <1>9
  <2> QED
    BY <1>10, <2>1
<1> QED
  BY <1>5, <1>6, <1>7, <1>11

\* As many different ones of a finite set as it has are all of it.
LEMMA OrdersHaveAll ==
    ASSUME NEW S, IsFiniteSet(S), NEW t \in Orders(S)
    PROVE  t \in Seq(S) /\ Elems(t) = S /\ Len(t) = Cardinality(S)
<1>1. Cardinality(S) \in Nat
  BY FS_CardinalityType
<1>2. t \in [1..Cardinality(S) -> S] /\ \A i, j \in 1..Cardinality(S) : i # j => t[i] # t[j]
  BY DEF Orders
<1>3. t \in Seq(S) /\ Len(t) = Cardinality(S) /\ DOMAIN t = 1..Len(t)
  BY <1>1, <1>2
<1>4. Once(t)
  BY <1>2, <1>3 DEF Once
<1>5. IsFiniteSet(Elems(t)) /\ Len(t) = Cardinality(Elems(t))
  BY <1>3, <1>4, OnceCounts
<1>6. Elems(t) \subseteq S
  BY <1>3 DEF Elems
<1>7. Elems(t) = S
  BY <1>3, <1>5, <1>6, FS_Subset
<1> QED
  BY <1>3, <1>7

\* What a page of a sequence is, item by item.
LEMMA PageItems ==
    ASSUME NEW T, NEW s \in Seq(T), NEW k \in Nat, NEW n \in Nat
    PROVE  /\ Page(s, k, n) \in Seq(T)
           /\ Len(Page(s, k, n)) = IF Least(Len(s), k + n) <= k THEN 0 ELSE Least(Len(s), k + n) - k
           /\ \A i \in 1..Len(Page(s, k, n)) : Page(s, k, n)[i] = s[k + i]
<1>1. PICK m : m = Least(Len(s), k + n)
  OBVIOUS
<1>2. PICK p : p = SubSeq(s, k + 1, m)
  OBVIOUS
<1>3. Page(s, k, n) = p
  BY <1>1, <1>2 DEF Page
<1>4. Len(s) \in Nat /\ (\A i \in 1..Len(s) : s[i] \in T) /\ m \in Nat /\ m <= Len(s)
  BY <1>1 DEF Least
<1>5. \A i \in (k + 1)..m : s[i] \in T
  BY <1>4
<1>6. /\ p \in Seq(T) /\ Len(p) = IF k + 1 <= m THEN m - (k + 1) + 1 ELSE 0
      /\ \A i \in 1..(m - (k + 1) + 1) : p[i] = s[k + 1 + i - 1]
  BY <1>2, <1>4, <1>5, SubSeqProperties
<1>7. Len(p) = IF m <= k THEN 0 ELSE m - k
  BY <1>4, <1>6
<1>8. \A i \in 1..Len(p) : p[i] = s[k + i]
  <2> TAKE i \in 1..Len(p)
  <2>1. i \in 1..(m - (k + 1) + 1) /\ k + 1 + i - 1 = k + i
    BY <1>4, <1>7
  <2> QED
    BY <1>6, <2>1
<1> QED
  BY <1>1, <1>3, <1>6, <1>7, <1>8

\* A page and the rest are the whole.
LEMMA PagesMeet ==
    ASSUME NEW T, NEW s \in Seq(T)
    PROVE  ThreadPage(s, 0, 2) \o ThreadPage(s, 2, 0) = s
<1>1. PICK n : n = Len(s)
  OBVIOUS
<1>2. n \in Nat /\ DOMAIN s = 1..n
  BY <1>1
<1>3. <<>> \in Seq(T) /\ Len(<<>>) = 0
  OBVIOUS
<1>4. ASSUME NEW a, a = ThreadPage(s, 0, 2)
      PROVE  a \in Seq(T) /\ Len(a) = Least(n, 2) /\ \A i \in 1..Len(a) : a[i] = s[i]
  <2>1. CASE n = 0
    <3>1. a = <<>>
      BY <1>1, <1>4, <2>1 DEF ThreadPage
    <3>2. 1..Len(a) = {} /\ Least(n, 2) = 0
      BY <1>3, <2>1, <3>1 DEF Least
    <3> QED
      BY <1>3, <3>1, <3>2
  <2>2. CASE n # 0
    <3>1. a = Page(s, 0, 2)
      BY <1>1, <1>2, <1>4, <2>2 DEF ThreadPage
    <3>p. PICK g : g = Page(s, 0, 2)
      OBVIOUS
    <3>q. g \in Seq(T)
      BY <3>p, PageItems
    <3>r. Len(g) = IF Least(n, 0 + 2) <= 0 THEN 0 ELSE Least(n, 0 + 2) - 0
      BY <1>1, <3>p, PageItems
    <3>s. \A i \in 1..Len(g) : g[i] = s[0 + i]
      BY <3>p, PageItems
    <3>t. a = g
      BY <3>1, <3>p
    <3>2. /\ a \in Seq(T) /\ Len(a) = IF Least(n, 0 + 2) <= 0 THEN 0 ELSE Least(n, 0 + 2) - 0
          /\ \A i \in 1..Len(a) : a[i] = s[0 + i]
      BY <3>q, <3>r, <3>s, <3>t, Zenon
    <3>3. Len(a) = Least(n, 2) /\ Len(a) \in Nat
      BY <1>2, <2>2, <3>2 DEF Least
    <3>4. \A i \in 1..Len(a) : 0 + i = i
      BY <3>3
    <3> QED
      BY <3>2, <3>3, <3>4
  <2> QED
    BY <2>1, <2>2
<1>5. ASSUME NEW b, b = ThreadPage(s, 2, 0)
      PROVE  b \in Seq(T) /\ Len(b) = (IF n <= 2 THEN 0 ELSE n - 2) /\ \A i \in 1..Len(b) : b[i] = s[2 + i]
  <2>1. CASE n <= 2
    <3>1. b = <<>>
      BY <1>1, <1>2, <1>5, <2>1 DEF ThreadPage
    <3>2. 1..Len(b) = {}
      BY <1>3, <3>1
    <3> QED
      BY <1>3, <2>1, <3>1, <3>2
  <2>2. CASE n > 2
    <3>1. b = Page(s, 2, n)
      BY <1>1, <1>2, <1>5, <2>2 DEF ThreadPage
    <3>2. /\ b \in Seq(T) /\ Len(b) = IF Least(n, 2 + n) <= 2 THEN 0 ELSE Least(n, 2 + n) - 2
          /\ \A i \in 1..Len(b) : b[i] = s[2 + i]
      BY <1>1, <1>2, <3>1, PageItems
    <3>3. Len(b) = n - 2
      BY <1>2, <2>2, <3>2 DEF Least
    <3>4. ~(n <= 2)
      BY <1>2, <2>2
    <3>5. \A i \in 1..Len(b) : b[i] = s[2 + i]
      BY <3>2
    <3> QED
      BY <3>2, <3>3, <3>4, <3>5, Zenon
  <2> QED
    BY <1>2, <2>1, <2>2
<1>6. PICK a : a = ThreadPage(s, 0, 2)
  OBVIOUS
<1>7. PICK b : b = ThreadPage(s, 2, 0)
  OBVIOUS
<1>8. a \in Seq(T) /\ Len(a) = Least(n, 2) /\ \A i \in 1..Len(a) : a[i] = s[i]
  BY <1>4, <1>6
<1>9. b \in Seq(T) /\ Len(b) = (IF n <= 2 THEN 0 ELSE n - 2) /\ \A i \in 1..Len(b) : b[i] = s[2 + i]
  BY <1>5, <1>7
<1>10. /\ a \o b \in Seq(T) /\ Len(a \o b) = Len(a) + Len(b)
       /\ \A i \in 1..(Len(a) + Len(b)) : (a \o b)[i] = IF i <= Len(a) THEN a[i] ELSE b[i - Len(a)]
  <2>1. a \in Seq(T) /\ b \in Seq(T)
    BY <1>8, <1>9
  <2> QED
    BY <2>1
<1>11. Len(a) \in Nat /\ Len(b) \in Nat /\ Len(a) + Len(b) = n
  BY <1>2, <1>8, <1>9 DEF Least
<1>12. \A i \in 1..n : (a \o b)[i] = s[i]
  <2> TAKE i \in 1..n
  <2>1. CASE i <= Len(a)
    <3>1. i \in 1..Len(a) /\ i \in 1..(Len(a) + Len(b))
      BY <1>2, <1>11, <2>1
    <3> QED
      BY <1>8, <1>10, <2>1, <3>1
  <2>2. CASE ~(i <= Len(a))
    <3>1. Len(a) = 2
      BY <1>2, <1>8, <1>11, <2>2 DEF Least
    <3>2. i - 2 \in 1..Len(b) /\ i \in 1..(Len(a) + Len(b)) /\ 2 + (i - 2) = i
      BY <1>2, <1>11, <2>2, <3>1
    <3>3. (a \o b)[i] = b[i - 2]
      BY <1>10, <2>2, <3>1, <3>2
    <3>4. b[i - 2] = s[2 + (i - 2)]
      BY <1>9, <3>2
    <3> QED
      BY <3>2, <3>3, <3>4
  <2> QED
    BY <2>1, <2>2
<1>13. DOMAIN (a \o b) = 1..n
  BY <1>10, <1>11
<1>14. a \o b = s
  BY <1>2, <1>10, <1>12, <1>13
<1> QED
  BY <1>6, <1>7, <1>14

\* Every order of a thread is made of its replies, each once.
LEMMA OrdersAreComplete == TableTypes => OrderIsComplete
<1> SUFFICES ASSUME TableTypes, NEW root \in stored, NEW sort \in {"relevant", "ranked", "time"},
                    NEW v \in {None, Viewer}, NEW replies, replies = ThreadEvents(root, ThreadDefault),
                    NEW s \in ThreadOrders(root, sort, v, replies, 2, 1)
             PROVE  /\ Elems(s) = replies /\ Len(s) = Cardinality(replies)
                    /\ ThreadPage(s, 0, 2) \o ThreadPage(s, 2, 0) = s
  BY DEF OrderIsComplete
<1>1. IsFiniteSet(replies)
  <2>1. ThreadLimit(ThreadDefault) \in Nat \ {0} /\ stored \in SUBSET Events
    BY ThreadLimits, StoredAreEvents
  <2>2. PICK w : ThreadInv(root, w, ThreadDepth, ThreadLimit(ThreadDefault)) /\ replies = w.found \ {root}
    BY <2>1, ThreadWalks
  <2>3. w.found \in SUBSET Events
    BY <2>1, <2>2 DEF ThreadInv, Descents
  <2>4. IsFiniteSet(w.found)
    BY <2>3, FS_Subset, EventsAssumption
  <2>5. IsFiniteSet(w.found \ {root})
    BY <2>4, FS_Subset
  <2> QED
    BY <2>2, <2>5, Zenon
<1>0. PICK m \in MergedOrders(root, sort, v, 2, 1) :
          \E t \in Orders(replies \ Elems(Merge(m, replies))) : s = Merge(m, replies) \o t
  BY DEF ThreadOrders
<1>2. PICK t \in Orders(replies \ Elems(Merge(m, replies))) : s = Merge(m, replies) \o t
  BY <1>0
<1>3. PICK T : m \in Seq(T)
  BY MergedAreSeqs
<1>4. PICK a : a = Merge(m, replies)
  OBVIOUS
<1>5. a \in Seq(replies) /\ Once(a)
  BY <1>3, <1>4, MergeIsOnce
<1>6. IsFiniteSet(Elems(a)) /\ Len(a) = Cardinality(Elems(a)) /\ Elems(a) \subseteq replies
  <2>1. Elems(a) \subseteq replies
    BY <1>5 DEF Elems
  <2> QED
    BY <1>5, <2>1, OnceCounts
<1>7. PICK B : B = replies \ Elems(a)
  OBVIOUS
<1>8. IsFiniteSet(B) /\ Cardinality(replies) = Cardinality(Elems(a)) + Cardinality(B)
  <2>1. IsFiniteSet(B)
    BY <1>1, <1>7, FS_Subset
  <2>2. Elems(a) \intersect B = {} /\ Elems(a) \union B = replies
    BY <1>6, <1>7
  <2>3. Cardinality(Elems(a) \union B) = Cardinality(Elems(a)) + Cardinality(B)
    <3>1. Cardinality(Elems(a) \union B) = Cardinality(Elems(a)) + Cardinality(B) - Cardinality(Elems(a) \intersect B)
      BY <1>6, <2>1, FS_Union
    <3>2. Cardinality(Elems(a)) \in Nat /\ Cardinality(B) \in Nat /\ Cardinality(Elems(a) \intersect B) = 0
      BY <1>6, <2>1, <2>2, FS_CardinalityType, FS_EmptySet
    <3> QED
      BY <3>1, <3>2
  <2> QED
    BY <2>1, <2>2, <2>3
<1>9. t \in Seq(B) /\ Elems(t) = B /\ Len(t) = Cardinality(B)
  BY <1>2, <1>4, <1>7, <1>8, OrdersHaveAll
<1>10. s = a \o t /\ t \in Seq(replies)
  <2>1. B \subseteq replies
    BY <1>7
  <2> QED
    BY <1>2, <1>4, <1>9, <2>1
<1>11. /\ s \in Seq(replies) /\ Len(s) = Len(a) + Len(t) /\ Len(a) \in Nat /\ Len(t) \in Nat
       /\ \A i \in 1..(Len(a) + Len(t)) : s[i] = IF i <= Len(a) THEN a[i] ELSE t[i - Len(a)]
  BY <1>5, <1>10
<1>12. Elems(s) = replies
  <2>1. Elems(s) \subseteq replies
    BY <1>11 DEF Elems
  <2>2. ASSUME NEW e \in replies PROVE e \in Elems(s)
    <3>d. DOMAIN s = 1..(Len(a) + Len(t)) /\ DOMAIN a = 1..Len(a) /\ DOMAIN t = 1..Len(t)
      BY <1>5, <1>10, <1>11
    <3>1. CASE e \in Elems(a)
      <4>1. PICK i \in 1..Len(a) : a[i] = e
        BY <3>1, <3>d DEF Elems
      <4>2. i \in DOMAIN s /\ s[i] = e
        BY <1>11, <3>d, <4>1
      <4> QED
        BY <4>2 DEF Elems
    <3>2. CASE e \notin Elems(a)
      <4>1. e \in Elems(t)
        BY <1>7, <1>9, <3>2
      <4>2. PICK i \in 1..Len(t) : t[i] = e
        BY <3>d, <4>1 DEF Elems
      <4>3. Len(a) + i \in DOMAIN s /\ ~(Len(a) + i <= Len(a)) /\ (Len(a) + i) - Len(a) = i
        BY <1>11, <3>d
      <4>4. s[Len(a) + i] = e
        BY <1>11, <3>d, <4>2, <4>3
      <4> QED
        BY <4>3, <4>4 DEF Elems
    <3> QED
      BY <3>1, <3>2
  <2> QED
    BY <2>1, <2>2
<1>13. Len(s) = Cardinality(replies)
  BY <1>6, <1>8, <1>9, <1>11
<1> QED
  BY <1>11, <1>12, <1>13, PagesMeet

\* The order of a thread lists each of its replies once, in pages that leave nothing out,
\* whatever the tables that it is merged from know (threadOrdering, relevantReplyOrder).
THEOREM ReadsOrderIsComplete == Spec => []OrderIsComplete
  BY OrdersAreComplete, ReadTables, PTL

-----------------------------------------------------------------------------
(* Notifications *)

\* Who a candidate is for has a tag row of it.
LEMMA CandidatesHaveRows ==
    ASSUME TableTypes, NEW v, NEW S \in SUBSET Candidates(v)
    PROVE  S \in SUBSET stored /\ S \in SUBSET Events /\ \A e \in S : RowsOf(e, "p") \in Nat \ {0}
<1>1. S \in SUBSET stored /\ S \in SUBSET Events
  BY StoredAreEvents DEF Candidates
<1>2. ASSUME NEW e \in S PROVE RowsOf(e, "p") \in Nat \ {0}
  <2>1. e \in stored /\ v \in Tagged(e, "p")
    BY DEF Candidates
  <2>2. copies[e] \in 0..2 /\ copies[e] # 0
    BY <2>1 DEF Tagged, TableTypes
  <2> QED
    BY <2>2 DEF RowsOf
<1> QED
  BY <1>1, <1>2

\* A window that has room for all rows has all events.
LEMMA FewRowsAreAll ==
    ASSUME TableTypes, NEW R \in SUBSET stored, NEW key, \A e \in R : RowsOf(e, key) \in Nat \ {0},
           NEW n \in Nat, CopiesIn(R, key) <= n
    PROVE  FirstRows(R, key, n) = R
<1> SUFFICES ASSUME NEW e \in R PROVE CopiesIn({f \in R : Newer(f, e)}, key) < n
  BY DEF FirstRows
<1> DEFINE rowsOf(S) == UNION {{f} \X (1..RowsOf(f, key)) : f \in S}
           A == {f \in R : Newer(f, e)}
<1>1. R \in SUBSET Events /\ e \in Events
  BY StoredAreEvents
<1>2. A \in SUBSET R /\ e \notin A
  BY <1>1, EventsAssumption DEF Newer
<1> HIDE DEF A
<1>3. rowsOf(R) \in SUBSET (Events \X (1..2))
  <2>1. \A f \in R : f \in Events /\ copies[f] \in 0..2
    BY <1>1 DEF TableTypes
  <2>2. ASSUME NEW f \in R, NEW x \in {f} \X (1..RowsOf(f, key)) PROVE x \in Events \X (1..2)
    BY <2>1 DEF RowsOf
  <2> QED
    BY <2>2
<1>4. IsFiniteSet(Events \X (1..2))
  <2>1. PICK two \in Nat : two = 2
    OBVIOUS
  <2>2. IsFiniteSet(1..two)
    BY Numbered
  <2> QED
    BY <2>1, <2>2, FS_Product, EventsAssumption
<1>5. rowsOf(A) \in SUBSET rowsOf(R)
  BY <1>2
<1>6. <<e, 1>> \in rowsOf(R)
  <2>1. 1 \in 1..RowsOf(e, key)
    OBVIOUS
  <2> QED
    BY <2>1
<1>7. <<e, 1>> \notin rowsOf(A)
  BY <1>2
<1>8. CopiesIn(A, key) = Cardinality(rowsOf(A)) /\ CopiesIn(R, key) = Cardinality(rowsOf(R))
  BY DEF CopiesIn
<1> HIDE DEF rowsOf
<1>9. IsFiniteSet(rowsOf(R))
  BY <1>3, <1>4, FS_Subset
<1>10. /\ IsFiniteSet(rowsOf(A)) /\ Cardinality(rowsOf(A)) <= Cardinality(rowsOf(R))
       /\ Cardinality(rowsOf(A)) # Cardinality(rowsOf(R))
  BY <1>5, <1>6, <1>7, <1>9, FS_Subset
<1>11. Cardinality(rowsOf(A)) \in Nat /\ Cardinality(rowsOf(R)) \in Nat
  BY <1>9, <1>10, FS_CardinalityType
<1>12. CopiesIn(A, key) < n
  BY <1>8, <1>10, <1>11
<1> QED
  BY <1>12 DEF A

\* How many rows are looked at is a number, and so is how many are shown.
LEMMA WindowsAreNumbers ==
    ASSUME NEW n \in Nat
    PROVE  /\ NoticeLimit(n) \in Nat \ {0} /\ LegacyWindow(n) \in Nat \ {0} /\ FeedWindow(n) \in Nat
           /\ n \in 1..NoticeMax => NoticeLimit(n) = n
<1>1. PICK k : k = NoticeLimit(n)
  OBVIOUS
<1>2. k \in Nat \ {0} /\ (n \in 1..NoticeMax => k = n)
  BY <1>1, NoticeAssumption DEF NoticeLimit, Limited
<1>3. PICK w : w = k * Overfetch
  OBVIOUS
<1>4. w \in Nat
  BY <1>2, <1>3, NoticeAssumption
<1>5. LegacyWindow(n) = Between(LegacyMin, w, LegacyMax)
  BY <1>1, <1>3 DEF LegacyWindow
<1>6. Between(LegacyMin, w, LegacyMax) \in Nat \ {0}
  BY <1>4, NoticeAssumption DEF Between
<1>7. FeedWindow(n) = IF w < FeedMin THEN FeedMin ELSE w
  BY <1>1, <1>3 DEF FeedWindow
<1>8. FeedWindow(n) \in Nat
  BY <1>4, <1>7, NoticeAssumption
<1> QED
  BY <1>1, <1>2, <1>5, <1>6, <1>8

\* With no policy and no scope the query leaves out only what it has no room for.
LEMMA RelaxedKeeps ==
    ASSUME TableTypes, NEW q, q.policy = "RELAXED", q.scope = "NONE"
    PROVE  LegacyNotices(q) =
               Page(Newest(FollowsOnce(FirstRows(WantedOf(q), "p", LegacyWindow(q.limit)))), 0, NoticeLimit(q.limit))
<1>1. PICK recent : recent = FirstRows(WantedOf(q), "p", LegacyWindow(q.limit))
  OBVIOUS
<1>2. recent \subseteq stored
  BY <1>1 DEF FirstRows, WantedOf, Candidates
<1>3. \A e : InScope(q, e, Facts(q.viewer, e)) /\ Trusted(q, Score[Author[e]])
  <2>1. \A e, facts : InScope(q, e, facts)
    BY DEF InScope
  <2>2. ActorThreshold(q.policy) = 0 /\ ViewerThreshold(q.policy) = 0
    BY DEF ActorThreshold, ViewerThreshold
  <2>3. \A score : Trusted(q, score)
    BY <2>2 DEF Trusted
  <2> QED
    BY <2>1, <2>3
<1>4. {e \in FollowsOnce(recent) : e \in stored /\ InScope(q, e, Facts(q.viewer, e))
                                    /\ Trusted(q, Score[Author[e]])} = FollowsOnce(recent)
  <2>1. FollowsOnce(recent) \subseteq stored
    BY <1>2 DEF FollowsOnce
  <2> QED
    BY <1>3, <2>1
<1> QED
  BY <1>1, <1>4 DEF LegacyNotices

\* A page that is not full has all there is.
LEMMA ShortPageHasAll ==
    ASSUME NEW S \in SUBSET Events, NEW n \in Nat, ~(Len(Page(Newest(S), 0, n)) >= n)
    PROVE  Elems(Page(Newest(S), 0, n)) = S
<1>1. \A e \in S : e \in Elems(Page(Newest(S), 0, n))
  <2> SUFFICES ASSUME NEW e \in S, e \notin Elems(Page(Newest(S), 0, n)) PROVE FALSE
    OBVIOUS
  <2> QED
    BY LeftOutIsOlder
<1>2. \A e \in Elems(Page(Newest(S), 0, n)) : e \in S
  BY FirstOfNewest
<1> QED
  BY <1>1, <1>2

\* A page that is not full has all the rows there are.
LEMMA LastNoticesPage == TableTypes => NoticesPageIsLast
<1> SUFFICES ASSUME TableTypes, NEW n \in 1..NoticeMax, NEW q, q = Request(Viewer, "RELAXED", "NONE", 0, n),
                    ~RawPage(q).hasNext, CopiesIn(Candidates(Viewer), "p") <= LegacyWindow(n)
             PROVE  Elems(RawPage(q).body) = FollowsOnce(Candidates(Viewer))
  BY DEF NoticesPageIsLast
<1>n. n \in Nat
  BY NoticeAssumption
<1>1. /\ q.viewer = Viewer /\ q.tab = "ALL" /\ q.policy = "RELAXED" /\ q.scope = "NONE" /\ q.since = 0
      /\ q.until = 0 /\ q.limit = n /\ q.reasons = {} /\ q.notReasons = {}
  BY DEF Request
<1>2. PICK C : C = Candidates(Viewer)
  OBVIOUS
<1>3. WantedOf(q) = C
  <2>1. \A e : Wanted(q, e)
    BY <1>1 DEF Wanted, InWindow
  <2> QED
    BY <1>1, <1>2, <2>1 DEF WantedOf
<1>4. C \in SUBSET stored /\ C \in SUBSET Events /\ \A e \in C : RowsOf(e, "p") \in Nat \ {0}
  BY <1>2, CandidatesHaveRows
<1>5. FirstRows(C, "p", LegacyWindow(n)) = C
  <2>1. LegacyWindow(n) \in Nat /\ CopiesIn(C, "p") <= LegacyWindow(n)
    BY <1>2, <1>n, WindowsAreNumbers
  <2> QED
    BY <1>4, <2>1, FewRowsAreAll
<1>6. NoticeLimit(n) = n
  BY <1>n, WindowsAreNumbers
<1>7. LegacyNotices(q) = Page(Newest(FollowsOnce(C)), 0, n)
  <2>1. LegacyNotices(q) =
            Page(Newest(FollowsOnce(FirstRows(WantedOf(q), "p", LegacyWindow(q.limit)))), 0, NoticeLimit(q.limit))
    BY <1>1, RelaxedKeeps
  <2> QED
    BY <1>1, <1>3, <1>5, <1>6, <2>1
<1>8. RawPage(q).body = LegacyNotices(q) /\ RawPage(q).hasNext = (Len(LegacyNotices(q)) >= n)
  BY <1>1 DEF RawPage, Ungrouped
<1>9. FollowsOnce(C) \in SUBSET Events
  BY <1>4 DEF FollowsOnce
<1>10. ~(Len(Page(Newest(FollowsOnce(C)), 0, n)) >= n)
  BY <1>7, <1>8
<1> QED
  BY <1>2, <1>7, <1>8, <1>9, <1>10, <1>n, ShortPageHasAll

\* A page of notifications that are not grouped and that says there is no next one has
\* all there are, of an actor's follows one, when the query looks at all rows
\* (notifications).
THEOREM ReadsNoticesPageIsLast == Spec => []NoticesPageIsLast
  BY LastNoticesPage, ReadTables, PTL

-----------------------------------------------------------------------------
(* The read-model *)

\* The read-model that is filled has the facts of each candidate.
LEMMA FilledHasFacts ==
    ASSUME ClientTypes, noted = Filled, NEW v \in Users
    PROVE  DOMAIN noted[v] = Candidates(v) /\ \A e \in Candidates(v) : noted[v][e] = Facts(v, e)
<1>1. noted[v] = Put(noted[v], Candidates(v), LAMBDA e : Facts(v, e))
  BY DEF Filled
<1>2. DOMAIN noted[v] \subseteq Candidates(v)
  BY DEF ClientTypes
<1>3. PICK f : f = noted[v]
  OBVIOUS
<1>4. f = [x \in DOMAIN f \union Candidates(v) |-> IF x \in Candidates(v) THEN Facts(v, x) ELSE f[x]]
  BY <1>1, <1>3 DEF Put
<1>5. DOMAIN f = Candidates(v)
  BY <1>2, <1>3, <1>4
<1>6. \A e \in Candidates(v) : f[e] = Facts(v, e)
  BY <1>4
<1> QED
  BY <1>3, <1>5, <1>6

\* Both ways to notifications show the same when neither is cut.
LEMMA BothReadsAgree ==
    ASSUME TableTypes, ClientTypes
    PROVE  ReadsAgree
<1> SUFFICES ASSUME noted = Filled, NEW p \in Policies, NEW scope \in Scopes, NEW until \in {0, 3},
                    NEW n \in {1, NoticeMax}, NEW tab \in {"ALL", "MENTIONS"},
                    NEW q, q = [Request(Viewer, p, scope, until, n) EXCEPT !.tab = tab],
                    CopiesIn(WantedOf(q), "p") <= LegacyWindow(n), Cardinality(WantedOf(q)) <= FeedWindow(n)
             PROVE  FeedNotices(q) = LegacyNotices(q)
  BY DEF ReadsAgree
<1>n. n \in Nat
  BY NoticeAssumption
<1>1. q.viewer = Viewer /\ q.limit = n
  BY DEF Request
<1>2. Viewer \in Users
  BY Scrolls
<1>3. DOMAIN noted[Viewer] = Candidates(Viewer) /\ \A e \in Candidates(Viewer) : noted[Viewer][e] = Facts(Viewer, e)
  BY <1>2, FilledHasFacts
<1>4. PICK W : W = WantedOf(q)
  OBVIOUS
<1>5. W \subseteq Candidates(Viewer)
  BY <1>1, <1>4 DEF WantedOf
<1>6. W \in SUBSET stored /\ W \in SUBSET Events /\ \A e \in W : RowsOf(e, "p") \in Nat \ {0}
  BY <1>5, CandidatesHaveRows
<1>w. LegacyWindow(n) \in Nat /\ FeedWindow(n) \in Nat /\ NoticeLimit(n) \in Nat
  BY <1>n, WindowsAreNumbers
<1>7. FirstRows(W, "p", LegacyWindow(n)) = W
  BY <1>4, <1>6, <1>w, FewRowsAreAll
<1>8. Elems(Page(Newest(W), 0, FeedWindow(n))) = W
  <2>1. \A e \in W : Place(W, e) \in 0..(Cardinality(W) - 1) /\ Cardinality(W) \in Nat
    BY <1>6, NewestIsSorted
  <2>2. \A e \in W : Place(W, e) < FeedWindow(n)
    BY <1>4, <1>w, <2>1
  <2>3. Elems(Page(Newest(W), 0, FeedWindow(n))) = {e \in W : Place(W, e) < FeedWindow(n)}
    BY <1>6, <1>w, FirstOfNewest
  <2> QED
    BY <2>2, <2>3
<1>9. {e \in DOMAIN noted[q.viewer] : Wanted(q, e)} = W
  BY <1>1, <1>3, <1>4 DEF WantedOf
<1>10. PICK A : A = {e \in FollowsOnce(W) : InScope(q, e, noted[q.viewer][e]) /\ Trusted(q, noted[q.viewer][e].score)}
  OBVIOUS
<1>11. PICK B : B = {e \in FollowsOnce(W) : e \in stored /\ InScope(q, e, Facts(q.viewer, e))
                                             /\ Trusted(q, Score[Author[e]])}
  OBVIOUS
<1>12. A = B
  <2>1. FollowsOnce(W) \subseteq W
    BY DEF FollowsOnce
  <2>2. \A e \in W : noted[q.viewer][e] = Facts(q.viewer, e)
    BY <1>1, <1>3, <1>5
  <2>3. \A e : Facts(q.viewer, e).score = Score[Author[e]]
    BY DEF Facts
  <2>4. \A e \in FollowsOnce(W) : e \in stored /\ noted[q.viewer][e] = Facts(q.viewer, e)
                                  /\ noted[q.viewer][e].score = Score[Author[e]]
    BY <1>6, <2>1, <2>2, <2>3
  <2> QED
    BY <1>10, <1>11, <2>4
<1>13. LegacyNotices(q) = Page(Newest(B), 0, NoticeLimit(n))
  BY <1>1, <1>4, <1>7, <1>11 DEF LegacyNotices
<1>14. FeedNotices(q) = Kept(Page(Newest(A), 0, NoticeLimit(n)), stored)
  BY <1>1, <1>8, <1>9, <1>10 DEF FeedNotices
<1>15. B \in SUBSET Events /\ B \in SUBSET stored
  BY <1>6, <1>11 DEF FollowsOnce
<1>16. PICK s : s = Page(Newest(B), 0, NoticeLimit(n))
  OBVIOUS
<1>17. s \in Seq(B) /\ \A i \in 1..Len(s) : s[i] \in stored
  <2>1. IsTop(s, B, NoticeLimit(n))
    BY <1>15, <1>16, <1>w, FirstPageIsTop
  <2> QED
    BY <1>15, <2>1 DEF IsTop
<1>18. Kept(s, stored) = s
  BY <1>17, KeptAll
<1> QED
  BY <1>12, <1>13, <1>14, <1>16, <1>18

\* The read-model that is filled answers as the query that it replaces, whichever rows are
\* asked for, when both look at all of them (Notifications, notificationsFromFeed).
THEOREM ReadsReadsAgree == Spec => []ReadsAgree
<1>1. Init => PoolInv /\ ClientTypes
  BY PoolsInit, ClientsInit
<1>2. TableTypes /\ TableTypes' /\ PoolInv /\ ClientTypes /\ [Next]_vars => PoolInv' /\ ClientTypes'
  BY PoolsNext, ClientsNext
<1>3. TableTypes /\ ClientTypes => ReadsAgree
  BY BothReadsAgree
<1> QED
  BY <1>1, <1>2, <1>3, ReadTables, PTL DEF Spec

-----------------------------------------------------------------------------
(* Grouped notifications *)

\* The rows of a group have a first one.
LEMMA GroupHasHead ==
    ASSUME NEW s, NEW n \in Nat, DOMAIN s = 1..n, NEW i \in 1..n
    PROVE  \E h \in Heads(s) : h <= i /\ GroupOf(s[h]) = GroupOf(s[i])
<1> DEFINE I == {j \in 1..i : GroupOf(s[j]) = GroupOf(s[i])}
<1>1. i \in I /\ I \in SUBSET (1..n)
  OBVIOUS
<1>2. IsFiniteSet(I) /\ \A j \in I : j \in Int
  <2>1. IsFiniteSet(1..n)
    BY Numbered
  <2> QED
    BY <1>1, <2>1, FS_Subset
<1>3. \A j : j \in I <=> j \in 1..i /\ GroupOf(s[j]) = GroupOf(s[i])
  OBVIOUS
<1> HIDE DEF I
<1>4. PICK h \in I : \A j \in I : h <= j
  BY <1>1, <1>2, LeastNumber
<1>5. h \in 1..n /\ h <= i /\ GroupOf(s[h]) = GroupOf(s[i])
  BY <1>1, <1>3
<1>6. \A j \in 1..(h - 1) : GroupOf(s[j]) # GroupOf(s[h])
  <2> SUFFICES ASSUME NEW j \in 1..(h - 1), GroupOf(s[j]) = GroupOf(s[h]) PROVE FALSE
    OBVIOUS
  <2>1. j \in 1..i /\ ~(h <= j)
    BY <1>5
  <2>2. j \in I
    BY <1>3, <1>5, <2>1
  <2> QED
    BY <1>4, <2>1, <2>2
<1> QED
  BY <1>5, <1>6 DEF Heads

\* A page of the newest goes from the latest to the oldest.
LEMMA PageGoesBack ==
    ASSUME NEW S \in SUBSET Events, NEW n \in Nat, NEW s, s = Page(Newest(S), 0, n),
           NEW i \in 1..Len(s), NEW j \in 1..Len(s), i <= j
    PROVE  At[s[i]] >= At[s[j]]
<1>1. IsTop(s, S, n)
  BY FirstPageIsTop
<1>2. s \in Seq(S) /\ Len(s) \in Nat
  BY <1>1 DEF IsTop
<1>3. s[i] \in S /\ Place(S, s[i]) = i - 1 /\ s[j] \in S /\ Place(S, s[j]) = j - 1
  BY <1>1 DEF IsTop
<1>4. PICK e \in S, f \in S : e = s[i] /\ f = s[j]
  BY <1>3
<1>5. e = f \/ Newer(e, f)
  <2>1. CASE i = j
    BY <1>4, <2>1
  <2>2. CASE i < j
    <3>1. Place(S, e) < Place(S, f)
      BY <1>2, <1>3, <1>4, <2>2
    <3> QED
      BY <3>1, NewestIsSorted
  <2> QED
    BY <1>2, <2>1, <2>2
<1>6. At[e] \in Nat /\ At[f] \in Nat
  BY EventsAssumption
<1> QED
  BY <1>4, <1>5, <1>6 DEF Newer

\* What the query shows to a relaxed viewer, who asks for no follows or only for them, is
\* the newest of what it has room for; what it leaves out is no newer than what it shows.
LEMMA RowsAreNewest ==
    ASSUME TableTypes, NEW q, q.policy = "RELAXED", q.scope = "NONE", q.limit \in Nat, "follow" \in q.notReasons,
           NEW s, s = LegacyNotices(q)
    PROVE  /\ s \in Seq(WantedOf(q)) /\ Len(s) \in Nat
           /\ \A i, j \in 1..Len(s) : i <= j => At[s[i]] >= At[s[j]]
           /\ \A e \in WantedOf(q), b \in Elems(s) : e \notin Elems(s) => At[e] <= At[b]
<1>1. PICK W : W = WantedOf(q)
  OBVIOUS
<1>2. PICK R : R = FirstRows(W, "p", LegacyWindow(q.limit))
  OBVIOUS
<1>3. W \in SUBSET stored /\ W \in SUBSET Events
  BY <1>1, StoredAreEvents DEF WantedOf, Candidates
<1>4. NoticeLimit(q.limit) \in Nat /\ LegacyWindow(q.limit) \in Nat
  BY WindowsAreNumbers
<1>5. IsFront(R, W)
  BY <1>2, <1>3, <1>4, FirstRowsAreFront
<1>6. R \in SUBSET W /\ R \in SUBSET Events
  BY <1>3, <1>5 DEF IsFront
<1>7. FollowsOnce(R) = R
  <2>1. \A e \in W : CandidateReason(e) # "follow"
    BY <1>1 DEF WantedOf, Wanted
  <2> QED
    BY <1>6, <2>1 DEF FollowsOnce
<1>8. s = Page(Newest(R), 0, NoticeLimit(q.limit))
  BY <1>1, <1>2, <1>7, RelaxedKeeps
<1>9. s \in Seq(R) /\ Elems(s) \subseteq R
  <2>1. IsTop(s, R, NoticeLimit(q.limit))
    BY <1>4, <1>6, <1>8, FirstPageIsTop
  <2> QED
    BY <2>1 DEF IsTop, Elems
<1>10. s \in Seq(W) /\ Len(s) \in Nat
  BY <1>6, <1>9
<1>11. \A i, j \in 1..Len(s) : i <= j => At[s[i]] >= At[s[j]]
  BY <1>4, <1>6, <1>8, PageGoesBack
<1>12. ASSUME NEW e \in W, NEW b \in Elems(s), e \notin Elems(s) PROVE At[e] <= At[b]
  <2>1. b \in R /\ b \in Events /\ e \in Events
    BY <1>3, <1>6, <1>9
  <2>2. At[e] \in Nat /\ At[b] \in Nat
    BY <2>1, EventsAssumption
  <2>3. CASE e \in R
    BY <1>4, <1>6, <1>8, <1>12, <2>3, LeftOutIsOlder
  <2>4. CASE e \notin R
    <3>1. ~Newer(e, b)
      BY <1>5, <2>1, <2>4 DEF IsFront
    <3> QED
      BY <2>2, <3>1 DEF Newer
  <2> QED
    BY <2>3, <2>4
<1> QED
  BY <1>1, <1>10, <1>11, <1>12

\* Follows are one group, of follows only.
LEMMA FollowsGroup ==
    ASSUME NEW e
    PROVE  (GroupOf(e) = <<"follow">>) <=> (CandidateReason(e) = "follow")
<1>1. CASE CandidateReason(e) = "follow"
  <2>1. NoticeReason(e) = "follow"
    BY <1>1 DEF NoticeReason
  <2> QED
    BY <1>1, <2>1 DEF GroupOf
<1>2. CASE CandidateReason(e) # "follow"
  <2>1. NoticeReason(e) # "follow"
    BY <1>2 DEF NoticeReason
  <2>2. \E x, y : GroupOf(e) = <<x, y>>
    BY <2>1 DEF GroupOf
  <2>3. \A x, y : <<x, y>> # <<"follow">>
    <3>1. \A x, y : Len(<<x, y>>) = 2 /\ Len(<<"follow">>) = 1
      OBVIOUS
    <3> QED
      BY <3>1
  <2> QED
    BY <1>2, <2>2, <2>3
<1> QED
  BY <1>1, <1>2

\* The follows of a first page are follows, and there are some when anybody follows.
LEMMA FollowRowsAreFollows ==
    ASSUME TableTypes, NEW q, NEW until \in Nat, q = Request(Viewer, "RELAXED", "NONE", until, Here.limit)
    PROVE  /\ FollowRows(q) \in Seq(stored)
           /\ \A e \in Elems(FollowRows(q)) : GroupOf(e) = <<"follow">>
           /\ until = 0 /\ (\E e \in Candidates(Viewer) : CandidateReason(e) = "follow") => FollowRows(q) # <<>>
<1> DEFINE r == [q EXCEPT !.reasons = {"follow"}, !.notReasons = {}, !.limit = FollowWindow, !.scope = "NONE"]
<1>1. /\ r.viewer = Viewer /\ r.tab = "ALL" /\ r.policy = "RELAXED" /\ r.scope = "NONE" /\ r.since = 0
      /\ r.until = until /\ r.limit = FollowWindow /\ r.reasons = {"follow"} /\ r.notReasons = {}
  BY DEF Request
<1>2. FollowRows(q) = IF until # 0 THEN <<>> ELSE LegacyNotices(r)
  <2>1. q.tab = "ALL" /\ q.until = until
    BY DEF Request
  <2> QED
    BY <2>1 DEF FollowRows
<1> HIDE DEF r
<1>3. PICK W : W = WantedOf(r)
  OBVIOUS
<1>4. \A e : e \in W <=> /\ e \in Candidates(Viewer) /\ CandidateReason(e) = "follow"
                          /\ (until > 0 => At[e] < until)
  BY <1>1, <1>3 DEF WantedOf, Wanted, InWindow
<1>5. W \in SUBSET stored /\ W \in SUBSET Events
  BY <1>4, StoredAreEvents DEF Candidates
<1>6. NoticeLimit(FollowWindow) \in Nat \ {0} /\ LegacyWindow(FollowWindow) \in Nat \ {0}
  BY NoticeAssumption, WindowsAreNumbers
<1>7. PICK R : R = FirstRows(W, "p", LegacyWindow(FollowWindow))
  OBVIOUS
<1>8. PICK F : F = FollowsOnce(R)
  OBVIOUS
<1>9. PICK s : s = LegacyNotices(r)
  OBVIOUS
<1>10. s = Page(Newest(F), 0, NoticeLimit(FollowWindow))
  BY <1>1, <1>3, <1>7, <1>8, <1>9, RelaxedKeeps
<1>11. F \in SUBSET R /\ R \in SUBSET W /\ F \in SUBSET Events
  BY <1>5, <1>7, <1>8 DEF FirstRows, FollowsOnce
<1>12. IsTop(s, F, NoticeLimit(FollowWindow))
  BY <1>6, <1>10, <1>11, FirstPageIsTop
<1>13. s \in Seq(stored) /\ Elems(s) \subseteq F
  BY <1>5, <1>11, <1>12 DEF IsTop, Elems
<1>14. \A e \in Elems(s) : GroupOf(e) = <<"follow">>
  BY <1>4, <1>11, <1>13, FollowsGroup
<1>15. ASSUME W # {} PROVE s # <<>>
  <2>1. PICK e \in W : \A f \in W : ~Newer(f, e)
    <3>1. Cardinality(W) \in Nat /\ IsFiniteSet(W)
      BY <1>5, NewestIsSorted
    <3>2. Cardinality(W) # 0
      BY <1>15, <3>1, FS_EmptySet
    <3>3. 1 \in 1..Cardinality(W)
      BY <3>1, <3>2
    <3>4. Newest(W)[1] \in W /\ Place(W, Newest(W)[1]) = 1 - 1
      BY <1>5, <3>3, NewestIsSorted
    <3>5. \A f \in W : Place(W, f) \in 0..(Cardinality(W) - 1)
      BY <1>5, NewestIsSorted
    <3>6. ASSUME NEW f \in W, Newer(f, Newest(W)[1]) PROVE FALSE
      <4>1. Place(W, f) < Place(W, Newest(W)[1])
        BY <1>5, <3>4, <3>6, NewestIsSorted
      <4> QED
        BY <3>1, <3>4, <3>5, <4>1
    <3> QED
      BY <3>4, <3>6
  <2>2. {f \in W : Newer(f, e)} = {}
    BY <2>1
  <2>3. CopiesIn({}, "p") = 0
    <3>1. UNION {{f} \X (1..RowsOf(f, "p")) : f \in {}} = {}
      OBVIOUS
    <3> QED
      BY <3>1, FS_EmptySet DEF CopiesIn
  <2>4. e \in R
    <3>1. CopiesIn({f \in W : Newer(f, e)}, "p") < LegacyWindow(FollowWindow)
      BY <1>6, <2>2, <2>3
    <3> QED
      BY <1>7, <3>1 DEF FirstRows
  <2>5. R \in SUBSET Events /\ R # {}
    BY <1>5, <1>11, <2>4
  <2>6. PICK g \in R : \A f \in R : ~Older(f, g)
    BY <2>5, OldestFirst
  <2>7. g \in F
    BY <1>8, <2>6 DEF FollowsOnce
  <2>8. IsFiniteSet(F) /\ Cardinality(F) \in Nat /\ Cardinality(F) # 0
    BY <1>11, <2>7, NewestIsSorted, FS_EmptySet
  <2>9. Len(s) = Least(Cardinality(F), NoticeLimit(FollowWindow))
    BY <1>12 DEF IsTop
  <2>10. Len(s) # 0
    BY <1>6, <2>8, <2>9 DEF Least
  <2> QED
    BY <2>10
<1>16. until = 0 /\ (\E e \in Candidates(Viewer) : CandidateReason(e) = "follow") => W # {}
  BY <1>4
<1>17. FollowRows(q) = <<>> \/ FollowRows(q) = s
  BY <1>2, <1>9
<1>18. FollowRows(q) \in Seq(stored)
  <2>1. <<>> \in Seq(stored)
    OBVIOUS
  <2> QED
    BY <1>13, <1>17, <2>1, Zenon
<1>19. \A e \in Elems(FollowRows(q)) : GroupOf(e) = <<"follow">>
  <2>1. Elems(<<>>) = {}
    BY DEF Elems
  <2> QED
    BY <1>14, <1>17, <2>1
<1>20. until = 0 => FollowRows(q) = s
  BY <1>2, <1>9
<1> QED
  BY <1>15, <1>16, <1>18, <1>19, <1>20

-----------------------------------------------------------------------------
(* What a grouped page leaves out *)

\* What a client asks for, and what a page leaves of it: an event that the page says nothing
\* of is no later than the end of the page, unless it is one that cuts the scroll short.
Asked(until) == Request(Viewer, "RELAXED", "NONE", until, Here.limit)
\* The groups of a page, the last of them, and what cuts a scroll short.
GroupsOf(page) == {page.items[i].group : i \in DOMAIN page.items}
LastGroup(page) == page.items[Len(page.items)].group
CutsShort(page, W, fresh) ==
    \/ Elems(page.body) # W /\ (fresh = {} \/ LastGroup(page) = <<"follow">>)
    \/ page.hasNext /\ fresh = {}

\* A page says of an event that it left out that it is no later than its end.
LEMMA PageTells ==
    ASSUME TableTypes, NEW until \in Nat, NEW page, page = GroupedPage(Asked(until)),
           NEW W, W = WantedOf(BodyRequest(Asked(until))), NEW fresh \in SUBSET GroupsOf(page),
           NEW e \in W, GroupOf(e) \notin GroupsOf(page), ~CutsShort(page, W, fresh)
    PROVE  fresh # {} /\ At[e] <= EndCursor(page)
<1>q. PICK q : q = Asked(until)
  OBVIOUS
<1>1. /\ q.viewer = Viewer /\ q.tab = "ALL" /\ q.policy = "RELAXED" /\ q.scope = "NONE" /\ q.since = 0
      /\ q.until = until /\ q.limit = Here.limit /\ q.reasons = {} /\ q.notReasons = {}
  BY <1>q DEF Request, Asked
<1>l. PICK l \in Nat : l = Here.limit
  BY Scrolls
<1>b. PICK b : b = BodyRequest(q)
  OBVIOUS
<1>2. b.policy = "RELAXED" /\ b.scope = "NONE" /\ b.limit = BodyWindow(l) /\ "follow" \in b.notReasons
  <2>1. b = [q EXCEPT !.limit = BodyWindow(l), !.notReasons = {"follow"} \union q.notReasons]
    BY <1>1, <1>b, <1>l DEF BodyRequest
  <2>2. b.policy = q.policy /\ b.scope = q.scope /\ b.limit = BodyWindow(l) /\ "follow" \in b.notReasons
    BY <1>q, <2>1 DEF Request, Asked
  <2> QED
    BY <1>1, <2>2
<1>3. b.limit \in Nat
  BY <1>2, <1>l, NoticeAssumption DEF BodyWindow, Between
<1>4. PICK body : body = LegacyNotices(b)
  OBVIOUS
<1>5. /\ body \in Seq(W) /\ Len(body) \in Nat
      /\ \A i, j \in 1..Len(body) : i <= j => At[body[i]] >= At[body[j]]
      /\ \A x \in W, y \in Elems(body) : x \notin Elems(body) => At[x] <= At[y]
  BY <1>q, <1>b, <1>2, <1>3, <1>4, RowsAreNewest
<1>6. W \in SUBSET stored /\ W \in SUBSET Events
  BY StoredAreEvents DEF WantedOf, Candidates
<1>7. PICK F : F = FollowRows(q)
  OBVIOUS
<1>8. F \in Seq(stored) /\ \A x \in Elems(F) : GroupOf(x) = <<"follow">>
  BY <1>q, <1>7, FollowRowsAreFollows DEF Asked
<1>9. PICK s : s = F \o body
  OBVIOUS
<1>10. body \in Seq(stored) /\ F \in Seq(stored)
  BY <1>5, <1>6, <1>8
<1>11. PICK f \in Nat, k \in Nat : f = Len(F) /\ k = Len(body)
  BY <1>10
<1>12. /\ s \in Seq(stored) /\ DOMAIN s = 1..(f + k) /\ DOMAIN F = 1..f /\ DOMAIN body = 1..k
       /\ \A i \in 1..(f + k) : s[i] = IF i <= f THEN F[i] ELSE body[i - f]
  BY <1>9, <1>10, <1>11
<1>13. PICK order : order = GroupOrder(s)
  OBVIOUS
<1>14. PICK n : n = Len(order)
  OBVIOUS
<1>15. /\ n \in Nat /\ \A i \in 1..n : order[i] \in 1..(f + k)
       /\ \A h \in Heads(s) : \E i \in 1..n : order[i] = h
       /\ \A i, j \in 1..n : i < j => At[s[order[i]]] >= At[s[order[j]]]
  BY <1>12, <1>13, <1>14, StoredAreEvents, GroupsHaveRows
<1>16. PICK m \in Nat : m = Least(n, l)
  BY <1>15 DEF Least
<1>17. page = PageOfGroups(q, body, s, order)
  BY <1>q, <1>b, <1>4, <1>7, <1>9, <1>13 DEF GroupedPage, PageOfRows, BodyRows
<1>18. /\ page.items = [i \in 1..m |-> Group(q, s, s[order[i]])]
       /\ page.body = body /\ (n > l => page.hasNext)
  <2>1. page = [items |-> [i \in 1..Least(Len(order), q.limit) |-> Group(q, s, s[order[i]])],
                body |-> body,
                hasNext |-> Len(order) > q.limit \/ Len(body) >= BodyWindow(q.limit)]
    BY <1>17 DEF PageOfGroups
  <2>2. /\ page.items = [i \in 1..Least(Len(order), q.limit) |-> Group(q, s, s[order[i]])]
        /\ page.body = body
        /\ page.hasNext = (Len(order) > q.limit \/ Len(body) >= BodyWindow(q.limit))
    BY <2>1
  <2>3. Least(Len(order), q.limit) = m /\ q.limit = l /\ Len(order) = n
    BY <1>1, <1>l, <1>14, <1>16
  <2> QED
    BY <2>2, <2>3
<1>19. DOMAIN page.items = 1..m /\ Len(page.items) = m
  BY <1>16, <1>18
<1>20. \A i \in 1..m : page.items[i].group = GroupOf(s[order[i]]) /\ page.items[i].event = s[order[i]]
  BY <1>18 DEF Group, Item
<1>21. \A i \in 1..m : GroupOf(s[order[i]]) # GroupOf(e)
  BY <1>19, <1>20 DEF GroupsOf
<1>22. fresh # {} => m # 0 /\ EndCursor(page) = At[s[order[m]]] /\ LastGroup(page) = GroupOf(s[order[m]])
  <2> SUFFICES ASSUME fresh # {}
               PROVE  m # 0 /\ EndCursor(page) = At[s[order[m]]] /\ LastGroup(page) = GroupOf(s[order[m]])
    OBVIOUS
  <2>1. m # 0
    BY <1>19 DEF GroupsOf
  <2>2. m \in 1..m /\ page.items # <<>>
    BY <1>19, <2>1
  <2> QED
    BY <1>19, <1>20, <2>1, <2>2 DEF EndCursor, LastGroup
<1>23. CASE e \in Elems(body)
  <2>1. PICK j \in 1..k : body[j] = e
    BY <1>12, <1>23 DEF Elems
  <2>2. f + j \in 1..(f + k) /\ ~(f + j <= f) /\ (f + j) - f = j
    BY <2>1
  <2>3. s[f + j] = e
    BY <1>12, <2>1, <2>2
  <2>4. PICK h \in Heads(s) : h <= f + j /\ GroupOf(s[h]) = GroupOf(e)
    <3>1. PICK i : i = f + j
      OBVIOUS
    <3>2. i \in 1..(f + k) /\ s[i] = e
      BY <2>2, <2>3, <3>1
    <3>3. PICK z \in Nat : z = f + k
      OBVIOUS
    <3>4. \E h \in Heads(s) : h <= i /\ GroupOf(s[h]) = GroupOf(s[i])
      BY <1>12, <3>2, <3>3, GroupHasHead
    <3> QED
      BY <3>1, <3>2, <3>4
  <2>5. h \in 1..(f + k)
    BY <1>12, <2>4 DEF Heads
  <2>6. ~(h <= f)
    <3> SUFFICES ASSUME h <= f PROVE FALSE
      OBVIOUS
    <3>1. h \in 1..f /\ s[h] = F[h]
      BY <1>12, <2>5
    <3>2. s[h] \in Elems(F)
      BY <1>12, <3>1 DEF Elems
    <3>3. GroupOf(e) = <<"follow">>
      BY <1>8, <2>4, <3>2
    <3>4. CandidateReason(e) = "follow"
      BY <3>3, FollowsGroup
    <3>5. CandidateReason(e) # "follow"
      BY <1>2, <1>q, <1>b DEF WantedOf, Wanted
    <3> QED
      BY <3>4, <3>5
  <2>7. h - f \in 1..k /\ h - f <= j /\ s[h] = body[h - f]
    BY <1>12, <2>4, <2>5, <2>6
  <2>8. At[s[h]] >= At[e]
    BY <1>5, <1>11, <2>1, <2>7
  <2>9. PICK p \in 1..n : order[p] = h
    BY <1>15, <2>4
  <2>10. ~(p \in 1..m)
    BY <1>21, <2>4, <2>9
  <2>11. n > l /\ m = l /\ m < p
    BY <1>15, <1>16, <2>9, <2>10 DEF Least
  <2>12. fresh # {}
    BY <1>18, <2>11 DEF CutsShort
  <2>13. m \in 1..n
    BY <1>15, <1>16, <1>22, <2>11, <2>12
  <2>14. At[s[order[m]]] >= At[s[h]]
    BY <1>15, <2>9, <2>11, <2>13
  <2>15. At[e] \in Nat /\ At[s[h]] \in Nat /\ At[s[order[m]]] \in Nat
    <3>1. s[h] \in stored /\ s[order[m]] \in stored
      BY <1>12, <1>15, <2>5, <2>13
    <3> QED
      BY <1>6, <3>1, StoredAreEvents, EventsAssumption
  <2> QED
    BY <1>22, <2>8, <2>12, <2>14, <2>15
<1>24. CASE e \notin Elems(body)
  <2>1. fresh # {} /\ LastGroup(page) # <<"follow">>
    BY <1>18, <1>24 DEF CutsShort
  <2>2. m # 0 /\ EndCursor(page) = At[s[order[m]]] /\ LastGroup(page) = GroupOf(s[order[m]])
    BY <1>22, <2>1
  <2>3. m \in 1..n
    BY <1>15, <1>16, <2>2 DEF Least
  <2>4. PICK h \in 1..(f + k) : h = order[m]
    BY <1>15, <2>3
  <2>5. ~(h <= f)
    <3> SUFFICES ASSUME h <= f PROVE FALSE
      OBVIOUS
    <3>1. h \in 1..f /\ s[h] = F[h]
      BY <1>12, <2>4
    <3>2. s[h] \in Elems(F)
      BY <1>12, <3>1 DEF Elems
    <3> QED
      BY <1>8, <2>1, <2>2, <2>4, <3>2
  <2>6. h - f \in 1..k /\ s[h] = body[h - f]
    BY <1>12, <2>4, <2>5
  <2>7. s[h] \in Elems(body)
    BY <1>12, <2>6 DEF Elems
  <2> QED
    BY <1>5, <1>24, <2>1, <2>2, <2>4, <2>7
<1> QED
  BY <1>23, <1>24

\* Who is notified of an event stays so, whatever arrives.
LEMMA CandidatesGrow ==
    ASSUME mode' = mode, stored \subseteq stored', copies \in [stored -> 0..2],
           copies' \in [stored' -> 0..2], \A e \in stored : copies'[e] >= copies[e]
    PROVE  Viewer' = Viewer /\ Candidates(Viewer) \subseteq Candidates(Viewer)'
<1>1. Viewer' = Viewer
  BY DEF Viewer, Here
<1>2. ASSUME NEW e \in Candidates(Viewer) PROVE e \in Candidates(Viewer)'
  <2>1. e \in stored /\ Viewer \in Tagged(e, "p") /\ Kind[e] \in NoticeKinds /\ Author[e] # Viewer
    BY <1>2 DEF Candidates
  <2>2. copies[e] \in Nat /\ copies'[e] \in Nat /\ copies'[e] >= copies[e] /\ copies[e] # 0
    BY <2>1 DEF Tagged
  <2>3. copies'[e] # 0 /\ Viewer \in TagValues(e, "p")
    BY <2>1, <2>2 DEF Tagged
  <2>4. Viewer \in Tagged(e, "p")'
    BY <1>1, <2>3 DEF Tagged
  <2> QED
    BY <1>1, <2>1, <2>4 DEF Candidates
<1> QED
  BY <1>1, <1>2

\* What a client that scrolls through its notifications has still to be shown is older
\* than the end of the last page, and none of it is a follow.
GroupInv ==
    /\ scroll.state = "new" => scroll = NoScroll
    /\ scroll.state # "new" /\ scroll.kind = "notices" =>
        /\ scroll.snap \subseteq Candidates(Viewer)
        /\ \A e \in scroll.snap :
               \/ GroupOf(e) \in scroll.seen \/ At[e] \in scroll.ends \/ scroll.cut
               \/ scroll.state = "on" /\ CandidateReason(e) # "follow" /\ At[e] < scroll.until

\* A page of notifications keeps it.
LEMMA GroupsScroll ==
    ASSUME TableTypes, GroupInv, scroll.until \in Nat, ScrollNotices
    PROVE  GroupInv'
<1>q. PICK q : q = Asked(scroll.until)
  OBVIOUS
<1>p. PICK page : page = GroupedPage(q)
  OBVIOUS
<1>g. PICK groups : groups = GroupsOf(page)
  OBVIOUS
<1>f. PICK fresh : fresh = groups \ scroll.seen
  OBVIOUS
<1>w. PICK W : W = WantedOf(BodyRequest(q))
  OBVIOUS
<1>b. PICK base : base = IF scroll.state = "new" THEN Candidates(Viewer) ELSE scroll.snap
  OBVIOUS
<1>1. /\ scroll.state = "new" \/ (scroll.state = "on" /\ scroll.kind = "notices")
      /\ scroll'.state = (IF fresh = {} THEN "done" ELSE "on")
      /\ scroll'.kind = "notices" /\ scroll'.until = EndCursor(page)
      /\ scroll'.seen = scroll.seen \union groups
      /\ scroll'.snap = base
      /\ scroll'.ends = scroll.ends \union {EndCursor(page)}
      /\ scroll'.cut = (\/ scroll.cut \/ CutsShort(page, W, fresh)
                        \/ FollowRows(q) # <<>> /\ <<"follow">> \notin groups)
  <2>1. Subject("notices") = Candidates(Viewer)
    BY DEF Subject, Candidates
  <2>2. /\ scroll.state = "new" \/ (scroll.state = "on" /\ scroll.kind = "notices")
        /\ scroll' = [state |-> IF fresh = {} THEN "done" ELSE "on",
                      kind |-> "notices", cursor |-> {}, until |-> EndCursor(page),
                      seen |-> scroll.seen \union groups,
                      snap |-> IF scroll.state = "new" THEN Subject("notices") ELSE scroll.snap,
                      ends |-> scroll.ends \union {EndCursor(page)},
                      cut |-> \/ scroll.cut
                              \/ Elems(page.body) # W /\ (fresh = {} \/ LastGroup(page) = <<"follow">>)
                              \/ page.hasNext /\ fresh = {}
                              \/ FollowRows(q) # <<>> /\ <<"follow">> \notin groups]
    BY <1>q, <1>p, <1>g, <1>f, <1>w DEF ScrollNotices, Asked, GroupsOf, LastGroup
  <2>3. CutsShort(page, W, fresh) <=> \/ Elems(page.body) # W /\ (fresh = {} \/ LastGroup(page) = <<"follow">>)
                                      \/ page.hasNext /\ fresh = {}
    BY DEF CutsShort
  <2> QED
    BY <1>b, <2>1, <2>2, <2>3
<1>2. UNCHANGED <<mode, stored, copies>>
  BY DEF ScrollNotices
<1>3. Candidates(Viewer)' = Candidates(Viewer)
  BY <1>2 DEF Candidates, Tagged, Viewer, Here
<1>4. /\ base \subseteq Candidates(Viewer)
      /\ scroll.state = "new" => scroll.until = 0
      /\ scroll.state # "new" => \A e \in base :
             \/ GroupOf(e) \in scroll.seen \/ At[e] \in scroll.ends \/ scroll.cut
             \/ CandidateReason(e) # "follow" /\ At[e] < scroll.until
  <2>1. scroll.state = "new" => scroll.until = 0
    BY NotScrolled DEF GroupInv
  <2> QED
    BY <1>1, <1>b, <2>1 DEF GroupInv
<1>5. /\ q.viewer = Viewer /\ q.tab = "ALL" /\ q.policy = "RELAXED" /\ q.scope = "NONE" /\ q.since = 0
      /\ q.until = scroll.until /\ q.limit = Here.limit /\ q.reasons = {} /\ q.notReasons = {}
  BY <1>q DEF Request, Asked
<1>6. ASSUME NEW e \in Candidates(Viewer), CandidateReason(e) # "follow", scroll.until > 0 => At[e] < scroll.until
      PROVE  e \in W
  <2>1. PICK r : r = BodyRequest(q)
    OBVIOUS
  <2>2. /\ r.viewer = Viewer /\ r.tab = "ALL" /\ r.policy = "RELAXED" /\ r.since = 0
        /\ r.until = scroll.until /\ r.reasons = {} /\ r.notReasons = {"follow"}
    <3>1. r = [q EXCEPT !.limit = BodyWindow(q.limit), !.notReasons = {"follow"} \union q.notReasons]
      BY <2>1 DEF BodyRequest
    <3>2. /\ r.viewer = q.viewer /\ r.tab = q.tab /\ r.policy = q.policy /\ r.since = q.since
          /\ r.until = q.until /\ r.reasons = q.reasons /\ r.notReasons = {"follow"} \union q.notReasons
      BY <1>q, <3>1 DEF Request, Asked
    <3> QED
      BY <1>5, <3>2
  <2>3. Wanted(r, e)
    BY <1>6, <2>2 DEF Wanted, InWindow
  <2> QED
    BY <1>w, <2>1, <2>2, <2>3 DEF WantedOf
<1>7. ASSUME NEW e \in base
      PROVE  \/ GroupOf(e) \in scroll'.seen \/ At[e] \in scroll'.ends \/ scroll'.cut
             \/ scroll'.state = "on" /\ CandidateReason(e) # "follow" /\ At[e] < scroll'.until
  <2>0. e \in Candidates(Viewer) /\ At[e] \in Nat
    BY <1>4, StoredAreEvents, EventsAssumption DEF Candidates
  <2>1. CASE GroupOf(e) \in scroll.seen \/ At[e] \in scroll.ends \/ scroll.cut
    BY <1>1, <2>1
  <2>2. CASE ~(GroupOf(e) \in scroll.seen \/ At[e] \in scroll.ends \/ scroll.cut)
    <3>1. CASE CandidateReason(e) = "follow"
      <4>1. scroll.state = "new" /\ scroll.until = 0
        BY <1>4, <2>2, <3>1
      <4>2. FollowRows(q) # <<>>
        BY <1>q, <2>0, <3>1, <4>1, FollowRowsAreFollows DEF Asked
      <4>3. GroupOf(e) = <<"follow">>
        BY <3>1, FollowsGroup
      <4> QED
        BY <1>1, <4>2, <4>3
    <3>2. CASE CandidateReason(e) # "follow"
      <4>1. scroll.until > 0 => At[e] < scroll.until
        BY <1>4, <2>2
      <4>2. e \in W
        BY <1>6, <2>0, <3>2, <4>1
      <4>3. CASE GroupOf(e) \in groups
        BY <1>1, <4>3
      <4>4. CASE CutsShort(page, W, fresh)
        BY <1>1, <4>4
      <4>5. CASE GroupOf(e) \notin groups /\ ~CutsShort(page, W, fresh)
        <5>1. fresh \in SUBSET GroupsOf(page) /\ GroupOf(e) \notin GroupsOf(page)
          BY <1>f, <1>g, <4>5
        <5>2. fresh # {} /\ At[e] <= EndCursor(page)
          BY <1>q, <1>p, <1>w, <4>2, <4>5, <5>1, PageTells
        <5>3. EndCursor(page) \in Nat
          <6>1. EndCursor(page) \in Times
            BY <1>q, <1>p, GroupsEndInTime DEF Asked
          <6> QED
            BY <6>1, TimesAreNumbers
        <5>4. At[e] = EndCursor(page) \/ At[e] < EndCursor(page)
          BY <2>0, <5>2, <5>3
        <5> QED
          BY <1>1, <3>2, <5>2, <5>4
      <4> QED
        BY <4>3, <4>4, <4>5
    <3> QED
      BY <3>1, <3>2
  <2> QED
    BY <2>1, <2>2
<1>8. scroll'.state # "new"
  BY <1>1
<1>9. scroll'.snap \subseteq Candidates(Viewer)'
  BY <1>1, <1>3, <1>4
<1>10. \A e \in scroll'.snap :
               \/ GroupOf(e) \in scroll'.seen \/ At[e] \in scroll'.ends \/ scroll'.cut
               \/ scroll'.state = "on" /\ CandidateReason(e) # "follow" /\ At[e] < scroll'.until
  BY <1>1, <1>7
<1> QED
  BY <1>8, <1>9, <1>10 DEF GroupInv, GroupOf, NoticeReason

\* Every step keeps it.
LEMMA GroupsNext ==
    ASSUME TableTypes, GroupInv, scroll.until \in Nat, [Next]_vars
    PROVE  GroupInv'
<1>1. CASE ScrollNotices
  BY <1>1, GroupsScroll
<1>2. CASE ScrollEvents
  <2>1. scroll'.kind \in EventScrolls /\ scroll'.state \in {"on", "done"}
    BY <1>2 DEF ScrollEvents
  <2>2. scroll'.kind # "notices" /\ scroll'.state # "new"
    BY <2>1 DEF EventScrolls
  <2> QED
    BY <2>2 DEF GroupInv
<1>3. CASE scroll' = scroll
  <2>1. /\ mode' = mode /\ stored \subseteq stored' /\ copies \in [stored -> 0..2]
        /\ copies' \in [stored' -> 0..2] /\ \A e \in stored : copies'[e] >= copies[e]
    <3>1. CASE Arrive
      BY <3>1, ArriveGrows DEF Grown, TableTypes
    <3>2. CASE UNCHANGED <<mode, stored, copies>>
      BY <3>2 DEF TableTypes
    <3> QED
      BY <3>1, <3>2, StepKinds
  <2>2. Candidates(Viewer) \subseteq Candidates(Viewer)'
    BY <2>1, CandidatesGrow
  <2>3. scroll'.snap = scroll.snap
    BY <1>3
  <2>4. scroll.snap \subseteq Candidates(Viewer) => scroll'.snap \subseteq Candidates(Viewer)'
    BY <2>2, <2>3
  <2> QED
    BY <1>3, <2>4 DEF GroupInv, NoScroll
<1>4. ScrollEvents \/ ScrollNotices \/ scroll' = scroll
  BY DEF Next, vars, Arrive, Rolls, Rolling, FillFeed, AskRanked
<1> QED
  BY <1>1, <1>2, <1>3, <1>4

\* A client that scrolls through its grouped notifications until a page has no new group
\* is shown every group that was there when it began, but for those of a second that a
\* page ended with, and unless the scroll was cut short (groupedNotifications).
THEOREM ReadsGroupsSkipOnlyTies == Spec => []GroupsSkipOnlyTies
<1>1. Init => PoolInv /\ ClientTypes /\ GroupInv
  <2>1. Init => GroupInv
    BY NotScrolled DEF Init, GroupInv
  <2> QED
    BY <2>1, PoolsInit, ClientsInit
<1>2. TableTypes /\ ClientTypes => scroll.until \in Nat
  BY TimesAreNumbers DEF ClientTypes
<1>3. TableTypes /\ TableTypes' /\ PoolInv /\ ClientTypes /\ GroupInv /\ [Next]_vars
          => PoolInv' /\ ClientTypes' /\ GroupInv'
  BY <1>2, PoolsNext, ClientsNext, GroupsNext
<1>4. GroupInv => GroupsSkipOnlyTies
  BY DEF GroupInv, GroupsSkipOnlyTies
<1> QED
  BY <1>1, <1>3, <1>4, ReadTables, PTL DEF Spec

-----------------------------------------------------------------------------
(* Chains of replies *)

\* Each event has a row, so there are no more events than rows.
LEMMA NoMoreThanCopies ==
    ASSUME TableTypes, NEW R \in SUBSET stored, NEW key, \A e \in R : RowsOf(e, key) \in Nat \ {0}
    PROVE  Cardinality(R) \in Nat /\ Cardinality(R) <= CopiesIn(R, key)
<1> DEFINE all == UNION {{f} \X (1..RowsOf(f, key)) : f \in R}
           f == [e \in R |-> <<e, 1>>]
<1>1. R \in SUBSET Events /\ IsFiniteSet(R) /\ Cardinality(R) \in Nat
  <2>1. R \in SUBSET Events
    BY StoredAreEvents
  <2> QED
    BY <2>1, FS_Subset, FS_CardinalityType, EventsAssumption
<1>2. all \in SUBSET (Events \X (1..2))
  <2>1. \A e \in R : e \in Events /\ copies[e] \in 0..2
    BY <1>1 DEF TableTypes
  <2>2. ASSUME NEW e \in R, NEW x \in {e} \X (1..RowsOf(e, key)) PROVE x \in Events \X (1..2)
    BY <2>1 DEF RowsOf
  <2> QED
    BY <2>2
<1>3. IsFiniteSet(Events \X (1..2))
  <2>1. PICK two \in Nat : two = 2
    OBVIOUS
  <2>2. IsFiniteSet(1..two)
    BY Numbered
  <2> QED
    BY <2>1, <2>2, FS_Product, EventsAssumption
<1>4. f \in [R -> all]
  <2>1. ASSUME NEW e \in R PROVE <<e, 1>> \in all
    <3>1. 1 \in 1..RowsOf(e, key)
      OBVIOUS
    <3> QED
      BY <3>1
  <2> QED
    BY <2>1
<1>5. \A e, g \in R : f[e] = f[g] => e = g
  OBVIOUS
<1>6. CopiesIn(R, key) = Cardinality(all)
  BY DEF CopiesIn
<1> HIDE DEF all, f
<1>7. IsFiniteSet(all)
  BY <1>2, <1>3, FS_Subset
<1>8. f \in Injection(R, all)
  BY <1>4, <1>5 DEF Injection, IsInjective
<1>9. Cardinality(R) <= Cardinality(all)
  BY <1>7, <1>8, FS_Injection
<1> QED
  BY <1>1, <1>6, <1>9

\* Replies of some authors that have a tag for x.
RepliesTo(x, A) ==
    {c \in stored : Kind[c] \in ReplyKinds /\ x \in Tagged(c, "e") /\ (A # {} => Author[c] \in A)}

\* What a level asks for.
OfReplies(A) == [AnyEvent EXCEPT !.kinds = ReplyKinds, !.authors = A]

\* When one query has room for all replies, the query of a level finds those of each end.
LEMMA RepliesAreFound ==
    ASSUME TableTypes, RepliesFit, NEW T \in SUBSET Events, NEW A \in SUBSET Users, NEW x \in T
    PROVE  Elems(ByTargets(OfReplies(A), AnyTag, T, MaxLimit, 1000)[x]) = RepliesTo(x, A)
<1>q. PICK q : q = OfReplies(A)
  OBVIOUS
<1>0. stored \in SUBSET Events /\ MaxLimit \in Nat \ {0}
  BY StoredAreEvents, MostIsAllowed
<1>1. /\ q.ids = {} /\ q.authors = A /\ q.notIds = {} /\ q.notAuthors = {} /\ q.kinds = ReplyKinds
      /\ q.tags = {} /\ q.texts = Events /\ q.followers = -1 /\ q.since = 0 /\ q.until = 0
      /\ q.limit = 0 /\ q.offset = 0
  BY <1>q DEF AnyEvent, OfReplies
<1>2. PICK t : t = TagFilters(q)
  OBVIOUS
<1>3. /\ t.ids = {} /\ t.authors = A /\ t.notIds = {} /\ t.notAuthors = {} /\ t.kinds = ReplyKinds
      /\ t.tags = {} /\ t.texts = Events /\ t.followers = -1
  BY <1>1, <1>2 DEF AnyEvent, TagFilters
<1>4. ReplyKinds # {}
  BY DEF ReplyKinds
<1>5. \A e \in stored : Matches(e, t) <=> (A # {} => Author[e] \in A) /\ Kind[e] \in ReplyKinds
  BY <1>0, <1>3, <1>4 DEF Matches, WellFollowed
<1>6. \A y : ReferringRows(q, "e", y) = RepliesTo(y, A)
  <2> TAKE y
  <2>1. \A e : InWindow(e, q)
    BY <1>1 DEF InWindow
  <2> QED
    BY <1>2, <1>5, <2>1 DEF ReferringRows, RepliesTo
<1>7. PICK all : all = {e \in stored : Kind[e] \in ReplyKinds /\ copies[e] # 0}
  OBVIOUS
<1>8. \A y : RepliesTo(y, A) \in SUBSET all
  BY <1>7 DEF RepliesTo, Tagged
<1>9. all \in SUBSET stored /\ all \in SUBSET Events /\ \A e \in all : RowsOf(e, "e") \in Nat \ {0}
  <2>1. \A e \in all : copies[e] \in 0..2 /\ copies[e] # 0
    BY <1>7 DEF TableTypes
  <2>2. \A e \in all : RowsOf(e, "e") = copies[e]
    BY DEF RowsOf
  <2> QED
    BY <1>0, <1>7, <2>1, <2>2
<1>10. CopiesIn(all, "e") \in Nat /\ CopiesIn(all, "e") <= MaxLimit
  <2>1. PICK R : R = {e \in stored : Kind[e] \in ReplyKinds}
    OBVIOUS
  <2>2. R \in SUBSET stored /\ all \in SUBSET R
    BY <1>7, <2>1
  <2>3. CopiesIn(R, "e") <= MaxLimit
    BY <2>1 DEF RepliesFit
  <2>4. CopiesIn(all, "e") \in Nat /\ CopiesIn(R, "e") \in Nat /\ CopiesIn(all, "e") <= CopiesIn(R, "e")
    BY <2>2, FewerCopies
  <2> QED
    BY <1>0, <2>3, <2>4
<1>11. \A Q \in SUBSET all : CopiesIn(Q, "e") \in Nat /\ CopiesIn(Q, "e") <= MaxLimit
                             /\ Cardinality(Q) \in Nat /\ Cardinality(Q) <= MaxLimit
  <2> TAKE Q \in SUBSET all
  <2>1. CopiesIn(Q, "e") \in Nat /\ CopiesIn(Q, "e") <= CopiesIn(all, "e")
    BY <1>9, FewerCopies
  <2>2. Q \in SUBSET stored /\ \A e \in Q : RowsOf(e, "e") \in Nat \ {0}
    BY <1>9
  <2>3. Cardinality(Q) \in Nat /\ Cardinality(Q) <= CopiesIn(Q, "e")
    BY <2>2, NoMoreThanCopies
  <2> QED
    BY <1>0, <1>10, <2>1, <2>3
<1>12. RowLimit(MaxLimit, 0, 1000) = MaxLimit
  BY <1>0 DEF RowLimit
<1>13. \A y : TargetIds(q, "e", y, MaxLimit, 1000) = Newest(RepliesTo(y, A))
  <2> TAKE y
  <2>1. PICK Q : Q = RepliesTo(y, A)
    OBVIOUS
  <2>2. Q \in SUBSET stored /\ (\A e \in Q : RowsOf(e, "e") \in Nat \ {0}) /\ CopiesIn(Q, "e") <= MaxLimit
    BY <1>8, <1>9, <1>11, <2>1
  <2>3. FirstRows(Q, "e", MaxLimit) = Q
    BY <1>0, <2>2, FewRowsAreAll
  <2>4. TargetIds(q, "e", y, MaxLimit, 1000) =
            Newest(FirstRows(ReferringRows(q, "e", y), "e", RowLimit(MaxLimit, q.offset, 1000)))
    BY DEF TargetIds
  <2>5. RowLimit(MaxLimit, q.offset, 1000) = MaxLimit
    BY <1>1, <1>12
  <2>6. ReferringRows(q, "e", y) = Q
    BY <1>6, <2>1
  <2> QED
    BY <2>1, <2>3, <2>4, <2>5, <2>6
<1>14. PICK found : found = EventsByIds(UNION {Elems(TargetIds(q, "e", y, MaxLimit, 1000)) : y \in T})
  OBVIOUS
<1>15. PICK ids : ids = UNION {Elems(TargetIds(q, "e", y, MaxLimit, 1000)) : y \in T}
  OBVIOUS
<1>16. \A y \in T : Elems(TargetIds(q, "e", y, MaxLimit, 1000)) = RepliesTo(y, A)
  <2> TAKE y \in T
  <2>1. RepliesTo(y, A) \in SUBSET Events /\ 0 \in Nat
    BY <1>8, <1>9
  <2>2. Elems(Newest(RepliesTo(y, A))) = RepliesTo(y, A)
    BY <2>1, PageIsOf
  <2> QED
    BY <1>13, <2>2
<1>17. ids \in SUBSET all /\ RepliesTo(x, A) \subseteq ids
  BY <1>8, <1>15, <1>16
<1>18. found = ids
  <2>1. ids \in SUBSET stored /\ ids \in SUBSET Events /\ Cardinality(ids) <= MaxLimit
    BY <1>9, <1>11, <1>17
  <2>2. EventsByIds(ids) = ids \intersect stored
    BY <1>0, <2>1, FetchedById
  <2> QED
    BY <1>14, <1>15, <2>1, <2>2
<1>19. PICK Q : Q = RepliesTo(x, A)
  OBVIOUS
<1>20. Q \in SUBSET Events /\ Q \in SUBSET all /\ Cardinality(Q) \in Nat /\ Cardinality(Q) <= MaxLimit
  BY <1>8, <1>9, <1>11, <1>19
<1>21. PICK s : s = Page(Newest(Q), 0, MaxLimit)
  OBVIOUS
<1>22. s \in Seq(Q) /\ Elems(s) = Q
  <2>1. s \in Seq(Q)
    BY <1>0, <1>20, <1>21, PageIsOf
  <2>2. Elems(s) = {e \in Q : Place(Q, e) < MaxLimit}
    BY <1>0, <1>20, <1>21, FirstOfNewest
  <2>3. \A e \in Q : Place(Q, e) \in 0..(Cardinality(Q) - 1)
    BY <1>20, NewestIsSorted
  <2>4. \A e \in Q : Place(Q, e) < MaxLimit
    BY <1>0, <1>20, <2>3
  <2> QED
    BY <2>1, <2>2, <2>4
<1>23. Kept(s, found) = s
  <2>1. \A i \in 1..Len(s) : s[i] \in found
    BY <1>17, <1>18, <1>19, <1>22 DEF Elems
  <2> QED
    BY <1>22, <2>1, KeptAll
<1>24. ByTargets(q, AnyTag, T, MaxLimit, 1000) = FromTags(q, AnyTag, T, MaxLimit, 1000)
  BY <1>1 DEF ByTargets
<1>25. Targets(T, AnyTag) = T /\ AnyTag.key = "e"
  BY DEF Targets, AnyTag
<1>26. Limited(MaxLimit, MaxLimit, DefaultLimit) = MaxLimit
  BY MostIsAllowed
<1>27. FromTags(q, AnyTag, T, MaxLimit, 1000)[x] = Kept(Page(TargetIds(q, "e", x, MaxLimit, 1000), q.offset, MaxLimit), found)
  BY <1>14, <1>25, <1>26 DEF FromTags
<1>28. TargetIds(q, "e", x, MaxLimit, 1000) = Newest(Q)
  BY <1>13, <1>19
<1> QED
  BY <1>1, <1>q, <1>19, <1>21, <1>22, <1>23, <1>24, <1>27, <1>28

\* The replies that a chain of u's may go on with after x.
ChildrenOf(x, u, met) ==
    {c \in stored : /\ Kind[c] \in ReplyKinds /\ x \in Tagged(c, "e")
                    /\ Author[c] = u /\ LiveParent(c) = x /\ c \notin met}
NextOf(x, u, met) == IF ChildrenOf(x, u, met) = {} THEN None ELSE Ordered(ChildrenOf(x, u, met), Older)[1]

\* A step of the chain of e's author.
LiveStep(e, s, d) ==
    LET child == NextOf(LastOf(s, e), Author[e], {e} \union Elems(s))
    IN  IF Len(s) = d - 1 /\ child # None THEN Append(s, child) ELSE s

\* A level of all chains, as AuthoredChains computes it.
LiveLevel(S, allowed, fanout, w, d) ==
    LET on == {e \in S : Len(w[e]) = d - 1 /\ allowed[e] # {}}
        ends == {LastOf(w[e], e) : e \in on}
        q == [AnyEvent EXCEPT !.kinds = ReplyKinds, !.authors = UNION {allowed[e] : e \in on}]
        found == ByTargets(q, AnyTag, ends, fanout, 1000)
        child(e) == BestChild(Elems(found[LastOf(w[e], e)]), LastOf(w[e], e), allowed[e], {e} \union Elems(w[e]))
    IN  [e \in S |-> IF e \in on /\ child(e) # None THEN Append(w[e], child(e)) ELSE w[e]]

\* The author of each event, as the one whose replies are asked for.
Own == [e \in stored |-> {Author[e]}]

\* What comes next is an event.
LEMMA NextIsEvent ==
    ASSUME TableTypes, NEW x, NEW u, NEW met
    PROVE  /\ ChildrenOf(x, u, met) \in SUBSET stored /\ ChildrenOf(x, u, met) \in SUBSET Events
           /\ NextOf(x, u, met) # None => NextOf(x, u, met) \in ChildrenOf(x, u, met)
<1>1. ChildrenOf(x, u, met) \in SUBSET stored /\ ChildrenOf(x, u, met) \in SUBSET Events
  BY StoredAreEvents DEF ChildrenOf
<1>2. PICK C : C = ChildrenOf(x, u, met)
  OBVIOUS
<1>3. C # {} => Ordered(C, Older)[1] \in C
  BY <1>1, <1>2, OldestFirst
<1> QED
  BY <1>1, <1>2, <1>3 DEF NextOf

\* The last of a chain is an event.
LEMMA LastIsEvent ==
    ASSUME NEW e \in Events, NEW s \in Seq(Events)
    PROVE  LastOf(s, e) \in Events
<1>1. s # <<>> => Len(s) \in 1..Len(s)
  OBVIOUS
<1> QED
  BY <1>1 DEF LastOf

\* Each chain goes on as if it was alone.
LEMMA LevelIsSteps ==
    ASSUME TableTypes, RepliesFit, NEW S \in SUBSET stored, NEW w \in [S -> Seq(Events)], NEW d \in Nat
    PROVE  LiveLevel(S, Own, MaxLimit, w, d) = [e \in S |-> LiveStep(e, w[e], d)]
<1> DEFINE on == {e \in S : Len(w[e]) = d - 1 /\ Own[e] # {}}
           ends == {LastOf(w[e], e) : e \in on}
           A == UNION {Own[e] : e \in on}
           q == [AnyEvent EXCEPT !.kinds = ReplyKinds, !.authors = A]
           found == ByTargets(q, AnyTag, ends, MaxLimit, 1000)
           met(e) == {e} \union Elems(w[e])
           child(e) == BestChild(Elems(found[LastOf(w[e], e)]), LastOf(w[e], e), Own[e], met(e))
<1>0. S \in SUBSET Events /\ \A e \in S : Own[e] = {Author[e]}
  BY StoredAreEvents DEF Own
<1>1. \A e : e \in on <=> e \in S /\ Len(w[e]) = d - 1
  <2>1. \A e \in S : Own[e] # {}
    BY <1>0
  <2> QED
    BY <2>1
<1>2. A \in SUBSET Users
  <2>1. \A e \in S : Author[e] \in Users
    BY <1>0, EventsAssumption
  <2>2. \A e \in on : e \in S
    OBVIOUS
  <2>3. \A u \in A : \E e \in on : u \in Own[e]
    OBVIOUS
  <2> HIDE DEF on, A
  <2> QED
    BY <1>0, <2>1, <2>2, <2>3
<1>3. ends \in SUBSET Events
  <2> SUFFICES ASSUME NEW e \in on PROVE LastOf(w[e], e) \in Events
    OBVIOUS
  <2>1. e \in Events /\ w[e] \in Seq(Events)
    BY <1>0, <1>1
  <2> QED
    BY <2>1, LastIsEvent
<1>4. \A e \in on : LastOf(w[e], e) \in ends /\ Author[e] \in A
  <2> TAKE e \in on
  <2>1. e \in S /\ Own[e] \subseteq A
    OBVIOUS
  <2>2. Author[e] \in Own[e]
    BY <1>0, <2>1
  <2> QED
    BY <2>1, <2>2
<1>5. LiveLevel(S, Own, MaxLimit, w, d) = [e \in S |-> IF e \in on /\ child(e) # None THEN Append(w[e], child(e)) ELSE w[e]]
  BY DEF LiveLevel
<1>q. q = OfReplies(A)
  BY DEF OfReplies
<1>f. found = ByTargets(q, AnyTag, ends, MaxLimit, 1000)
  OBVIOUS
<1>c. \A e : child(e) = BestChild(Elems(found[LastOf(w[e], e)]), LastOf(w[e], e), Own[e], met(e))
  OBVIOUS
<1> HIDE DEF on, ends, A, q, found, child
<1>8. \A y \in ends : Elems(ByTargets(q, AnyTag, ends, MaxLimit, 1000)[y]) = RepliesTo(y, A)
  <2> TAKE y \in ends
  <2>1. Elems(ByTargets(OfReplies(A), AnyTag, ends, MaxLimit, 1000)[y]) = RepliesTo(y, A)
    BY <1>2, <1>3, RepliesAreFound
  <2> QED
    BY <1>q, <2>1, Zenon
<1>6. ASSUME NEW e \in on PROVE child(e) = NextOf(LastOf(w[e], e), Author[e], met(e))
  <2>1. PICK x : x = LastOf(w[e], e)
    OBVIOUS
  <2>2. x \in ends /\ Author[e] \in A
    BY <1>4, <2>1
  <2>3. Elems(found[x]) = RepliesTo(x, A)
    BY <1>8, <1>f, <2>2, ZenonT(40)
  <2>4. PICK m : m = met(e)
    OBVIOUS
  <2>5. child(e) = BestChild(RepliesTo(x, A), x, {Author[e]}, m)
    BY <1>0, <1>1, <1>c, <2>1, <2>3, <2>4
  <2>6. {c \in RepliesTo(x, A) : Author[c] \in {Author[e]} /\ LiveParent(c) = x /\ c \notin m}
            = ChildrenOf(x, Author[e], m)
    BY <2>2 DEF RepliesTo, ChildrenOf
  <2>7. BestChild(RepliesTo(x, A), x, {Author[e]}, m) = NextOf(x, Author[e], m)
    BY <2>6 DEF BestChild, NextOf
  <2> QED
    BY <2>1, <2>4, <2>5, <2>7
<1>7. \A e \in S : (IF e \in on /\ child(e) # None THEN Append(w[e], child(e)) ELSE w[e]) = LiveStep(e, w[e], d)
  <2> TAKE e \in S
  <2>1. CASE e \in on
    BY <1>1, <1>6, <2>1 DEF LiveStep
  <2>2. CASE e \notin on
    BY <1>1, <2>2 DEF LiveStep
  <2> QED
    BY <2>1, <2>2
<1> QED
  BY <1>5, <1>7

-----------------------------------------------------------------------------
(* Chains of all events at once, and one by one *)

\* A step of a chain gives a chain.
LEMMA StepGoesOn ==
    ASSUME TableTypes, NEW e \in Events, NEW s \in Seq(Events), NEW d
    PROVE  LiveStep(e, s, d) \in Seq(Events)
<1>1. PICK c : c = NextOf(LastOf(s, e), Author[e], {e} \union Elems(s))
  OBVIOUS
<1>2. c # None => c \in Events
  BY <1>1, NextIsEvent
<1>3. c # None => Append(s, c) \in Seq(Events)
  BY <1>2
<1> QED
  BY <1>1, <1>3 DEF LiveStep

\* The chains of a list, level by level.
LEMMA LevelsAreWalk ==
    ASSUME TableTypes, RepliesFit, NEW S \in SUBSET stored, NEW n \in Nat
    PROVE  \E chains : /\ chains \in [0..n -> [S -> Seq(Events)]]
                       /\ \A e \in S : chains[0][e] = <<>>
                       /\ \A d \in 1..n, e \in S : chains[d][e] = LiveStep(e, chains[d - 1][e], d)
                       /\ AuthoredChains(S, Own, n, MaxLimit) = chains[n]
<1> DEFINE none == [e \in S |-> <<>>]
           walk[d \in 0..n] ==
               IF d = 0 THEN none
               ELSE LiveLevel(S, Own, MaxLimit, walk[d - 1], d)
           Is(f) == f = [d \in 0..n |-> IF d = 0 THEN none ELSE LiveLevel(S, Own, MaxLimit, f[d - 1], d)]
           D == [S -> Seq(Events)]
           G == [x \in (1..n) \X D |-> LiveLevel(S, Own, MaxLimit, x[2], x[1])]
<1>0. S \in SUBSET Events
  BY StoredAreEvents
<1>1. none \in D /\ \A e \in S : none[e] = <<>>
  OBVIOUS
<1>2. \A d \in 1..n, w \in D : LiveLevel(S, Own, MaxLimit, w, d) = [e \in S |-> LiveStep(e, w[e], d)]
  BY LevelIsSteps
<1>3. \A d \in 1..n, w \in D : LiveLevel(S, Own, MaxLimit, w, d) \in D
  <2> TAKE d \in 1..n, w \in D
  <2>1. \A e \in S : LiveStep(e, w[e], d) \in Seq(Events)
    BY <1>0, StepGoesOn
  <2> QED
    BY <1>2, <2>1
<1> HIDE DEF D, none
<1>4. G \in [(1..n) \X D -> D]
  BY <1>3
<1>5. \A d \in 1..n, w \in D : G[<<d, w>>] = LiveLevel(S, Own, MaxLimit, w, d)
  OBVIOUS
<1> HIDE DEF G
<1>6. walk = CHOOSE f : Is(f)
  OBVIOUS
<1>7. AuthoredChains(S, Own, n, MaxLimit) = walk[n]
  BY DEF AuthoredChains, LiveLevel, none
<1> HIDE DEF walk
<1>8. PICK w : IsWalk(w, n, D, none, G)
  BY <1>1, <1>4, WalkExists
<1>9. w \in [0..n -> D] /\ w[0] = none
  BY <1>8 DEF IsWalk
<1>10. \A d \in 1..n : w[d] = LiveLevel(S, Own, MaxLimit, w[d - 1], d)
  <2> TAKE d \in 1..n
  <2>1. d - 1 \in 0..n
    OBVIOUS
  <2>2. w[d - 1] \in D
    BY <1>9, <2>1
  <2> QED
    BY <1>5, <1>8, <2>2 DEF IsWalk
<1>11. Is(w)
  <2>1. \A d \in 0..n : w[d] = IF d = 0 THEN none ELSE LiveLevel(S, Own, MaxLimit, w[d - 1], d)
    <3> TAKE d \in 0..n
    <3>1. d = 0 \/ d \in 1..n
      OBVIOUS
    <3> QED
      BY <1>9, <1>10, <3>1
  <2> QED
    BY <1>9, <2>1
<1>12. Is(walk)
  <2> HIDE DEF Is
  <2> QED
    BY <1>6, <1>11
<1>13. walk = [d \in 0..n |-> walk[d]] /\ walk[0] = none
  BY <1>12
<1>14. \A d \in 1..n : walk[d] = LiveLevel(S, Own, MaxLimit, walk[d - 1], d)
  <2> TAKE d \in 1..n
  <2>1. d \in 0..n /\ d # 0
    OBVIOUS
  <2> QED
    BY <1>12, <2>1
<1>15. \A d \in 1..n : walk[d - 1] \in D => walk[d] = G[<<d, walk[d - 1]>>]
  BY <1>5, <1>14
<1>16. IsWalk(walk, n, D, none, G)
  BY <1>1, <1>4, <1>13, <1>15, RecursionIsWalk
<1>17. walk \in [0..n -> D]
  BY <1>16 DEF IsWalk
<1>18. \A d \in 1..n, e \in S : walk[d][e] = LiveStep(e, walk[d - 1][e], d)
  <2> TAKE d \in 1..n, e \in S
  <2>1. d - 1 \in 0..n
    OBVIOUS
  <2>2. walk[d - 1] \in D
    BY <1>17, <2>1
  <2>3. walk[d] = [x \in S |-> LiveStep(x, walk[d - 1][x], d)]
    BY <1>2, <1>14, <2>2
  <2> QED
    BY <2>3
<1> QED
  BY <1>1, <1>7, <1>13, <1>17, <1>18 DEF D

\* The chain of an event is the same in every list.
LEMMA ChainsAsAlone ==
    ASSUME TableTypes, RepliesFit, NEW S \in SUBSET stored, NEW e \in S, NEW n \in Nat
    PROVE  AuthoredChains(S, Own, n, MaxLimit)[e] = AuthoredChains({e}, Own, n, MaxLimit)[e]
<1>1. PICK v : /\ v \in [0..n -> [S -> Seq(Events)]] /\ \A x \in S : v[0][x] = <<>>
               /\ \A d \in 1..n, x \in S : v[d][x] = LiveStep(x, v[d - 1][x], d)
               /\ AuthoredChains(S, Own, n, MaxLimit) = v[n]
  BY LevelsAreWalk, ZenonT(40)
<1>2. PICK w : /\ w \in [0..n -> [{e} -> Seq(Events)]] /\ \A x \in {e} : w[0][x] = <<>>
               /\ \A d \in 1..n, x \in {e} : w[d][x] = LiveStep(x, w[d - 1][x], d)
               /\ AuthoredChains({e}, Own, n, MaxLimit) = w[n]
  <2>1. {e} \in SUBSET stored
    OBVIOUS
  <2> QED
    BY <2>1, LevelsAreWalk, ZenonT(40)
<1> DEFINE T == {d \in 0..n : v[d][e] = w[d][e]}
<1>3. 0 \in T
  BY <1>1, <1>2
<1>4. \A d \in 0..(n - 1) : d \in T => d + 1 \in T
  <2> SUFFICES ASSUME NEW d \in 0..(n - 1), v[d][e] = w[d][e] PROVE d + 1 \in 0..n /\ v[d + 1][e] = w[d + 1][e]
    OBVIOUS
  <2>1. d + 1 \in 0..n /\ d + 1 \in 1..n /\ (d + 1) - 1 = d
    OBVIOUS
  <2>2. v[d + 1][e] = LiveStep(e, v[(d + 1) - 1][e], d + 1)
    BY <1>1, <2>1
  <2>3. w[d + 1][e] = LiveStep(e, w[(d + 1) - 1][e], d + 1)
    BY <1>2, <2>1
  <2> QED
    BY <2>1, <2>2, <2>3
<1>5. n \in T
  <2> HIDE DEF T
  <2>1. n \in 0..n
    OBVIOUS
  <2> QED
    BY <1>3, <1>4, <2>1, UpTo
<1> QED
  BY <1>1, <1>2, <1>5

-----------------------------------------------------------------------------
(* Edges *)

\* The edges are those of replies, to what they reply to.
EdgeInv ==
    \A x \in edges : x[1] \in stored /\ Kind[x[1]] \in ReplyKinds /\ IsReply(x[1]) /\ x[2] = DirectParent(x[1])

\* Every step keeps it.
LEMMA EdgesNext ==
    ASSUME TableTypes, EdgeInv, [Next]_vars
    PROVE  EdgeInv'
<1>1. \A c : DirectParent(c)' = DirectParent(c)
  BY DEF DirectParent, Marked, MinOf, MaxOf
<1>2. stored \subseteq stored' /\ \A c \in stored : IsReply(c) => IsReply(c)'
  <2>1. stored \subseteq stored' /\ \A c \in stored : copies'[c] >= copies[c] /\ copies[c] \in 0..2 /\ copies'[c] \in 0..2
    <3>1. CASE Arrive
      BY <3>1, ArriveGrows DEF Grown, TableTypes
    <3>2. CASE UNCHANGED <<mode, stored, copies>>
      BY <3>2 DEF TableTypes
    <3> QED
      BY <3>1, <3>2, StepKinds
  <2>2. \A c \in stored : copies[c] > 0 => copies'[c] > 0
    BY <2>1
  <2> QED
    BY <1>1, <2>1, <2>2 DEF IsReply
<1>3. edges' = edges \/ (UNCHANGED <<stored, copies>> /\ edges' = edges \union NewEdges(tick.since, MaxTargets))
  <2>1. CASE Arrive
    BY <2>1, ArriveGrows DEF Grown, derived
  <2>2. CASE UNCHANGED <<mode, stored, copies>> /\ (Begin \/ Stage \/ TickEnds)
    BY <2>2 DEF Begin, TickEnds, Stage, RecomputeEdges, RecomputeCounts, RecomputeEngagementReal,
                RecomputeUserStats, RecomputeRankFeatures, SaveRollupState
  <2>3. CASE UNCHANGED <<mode, stored, copies, derived>>
    BY <2>3 DEF derived
  <2> QED
    BY <2>1, <2>2, <2>3, StepKinds
<1>4. \A x \in NewEdges(tick.since, MaxTargets) :
          x[1] \in stored /\ Kind[x[1]] \in ReplyKinds /\ IsReply(x[1]) /\ x[2] = DirectParent(x[1])
  <2>1. \A c \in RecentChildren(tick.since, MaxTargets) : c \in stored /\ Kind[c] \in ReplyKinds
    BY StoredAreEvents, RecentAreTop DEF TopChildren, Children
  <2>2. ASSUME NEW x \in NewEdges(tick.since, MaxTargets)
        PROVE  \E c \in RecentChildren(tick.since, MaxTargets) : IsReply(c) /\ x = <<c, DirectParent(c)>>
    BY DEF NewEdges
  <2> QED
    BY <2>1, <2>2
<1>5. \A x \in edges' : x[1] \in stored /\ Kind[x[1]] \in ReplyKinds /\ IsReply(x[1]) /\ x[2] = DirectParent(x[1])
  BY <1>3, <1>4 DEF EdgeInv
<1> QED
  BY <1>1, <1>2, <1>5 DEF EdgeInv, ReplyKinds

\* What an event replies to is further down.
LEMMA ParentIsLower ==
    ASSUME NEW c \in Events, DirectParent(c) # None
    PROVE  /\ DirectParent(c) \in TagValues(c, "e")
           /\ Height[DirectParent(c)] < Height[c]
<1>1. Len(ETags[c]) \in Nat /\ DOMAIN ETags[c] = 1..Len(ETags[c])
  BY EventsAssumption
<1>2. ASSUME NEW m, Marked(c, m) # {}
      PROVE  MinOf(Marked(c, m)) \in 1..Len(ETags[c]) /\ MaxOf(Marked(c, m)) \in 1..Len(ETags[c])
  <2>1. Marked(c, m) \in SUBSET (1..Len(ETags[c]))
    BY <1>1 DEF Marked
  <2>2. MinOf(Marked(c, m)) \in Marked(c, m) /\ MaxOf(Marked(c, m)) \in Marked(c, m)
    BY <1>1, <1>2, <2>1, Extremes
  <2> QED
    BY <2>1, <2>2
<1>3. \E i \in DOMAIN ETags[c] : DirectParent(c) = ETags[c][i].to
  BY <1>1, <1>2 DEF DirectParent
<1> QED
  BY <1>3, ReferenceAssumption DEF TagValues

-----------------------------------------------------------------------------
(* Both chains *)

\* Every reply has its edge, and the tags say one thing.
EdgesAreAll ==
    /\ \A c \in stored : copies[c] > 0 /\ (IsReply(c) /\ Kind[c] \in ReplyKinds => <<c, DirectParent(c)>> \in edges)
    /\ \A c \in stored : LiveParent(c) = DirectParent(c) /\ QTags[c] = {}

\* Then what is next is the same.
LEMMA NextIsEarliest ==
    ASSUME TableTypes, EdgeInv, EdgesAreAll, NEW x \in Events, NEW u, NEW met,
           \A y \in met : Height[y] <= Height[x], met \in SUBSET Events
    PROVE  /\ NextOf(x, u, met) = EarliestBy(x, u)
           /\ NextOf(x, u, met) # None =>
                  NextOf(x, u, met) \in stored /\ Height[x] < Height[NextOf(x, u, met)]
<1> DEFINE C == {c \in DirectReplies(x) : Author[c] = u}
<1>0. stored \in SUBSET Events /\ x # None
  BY StoredAreEvents, EventsAssumption
<1>1. ASSUME NEW c \in stored, DirectParent(c) = x
      PROVE  Height[x] < Height[c] /\ x \in Tagged(c, "e") /\ c \notin met /\ IsReply(c)
  <2>1. c \in Events /\ DirectParent(c) # None
    BY <1>0, <1>1
  <2>2. x \in TagValues(c, "e") /\ Height[x] < Height[c]
    BY <1>1, <2>1, ParentIsLower
  <2>3. copies[c] > 0 /\ QTags[c] = {} /\ copies[c] \in 0..2
    BY DEF EdgesAreAll, TableTypes
  <2>4. Height[x] \in Nat /\ Height[c] \in Nat
    BY <2>1, ReferenceAssumption
  <2>5. c \notin met
    BY <2>2, <2>4
  <2> QED
    BY <1>0, <1>1, <2>2, <2>3, <2>5 DEF Tagged, IsReply
<1>2. \A c : c \in DirectReplies(x) <=> c \in stored /\ Kind[c] \in ReplyKinds /\ DirectParent(c) = x
  <2> TAKE c
  <2>1. c \in DirectReplies(x) <=> <<c, x>> \in edges
    <3>1. \A y \in edges : y = <<y[1], y[2]>>
      BY DEF TableTypes
    <3> QED
      BY <3>1 DEF DirectReplies
  <2>2. <<c, x>> \in edges => c \in stored /\ Kind[c] \in ReplyKinds /\ DirectParent(c) = x
    BY DEF EdgeInv
  <2>3. c \in stored /\ Kind[c] \in ReplyKinds /\ DirectParent(c) = x => <<c, x>> \in edges
    BY <1>1 DEF EdgesAreAll
  <2> QED
    BY <2>1, <2>2, <2>3
<1>3. ChildrenOf(x, u, met) = C
  BY <1>1, <1>2 DEF ChildrenOf, EdgesAreAll
<1>4. EarliestBy(x, u) = IF C = {} THEN None ELSE Ordered(C, Older)[1]
  BY DEF EarliestBy
<1> HIDE DEF C
<1>5. NextOf(x, u, met) = EarliestBy(x, u)
  BY <1>3, <1>4 DEF NextOf
<1>6. NextOf(x, u, met) # None => NextOf(x, u, met) \in ChildrenOf(x, u, met)
  BY NextIsEvent
<1>7. \A c \in ChildrenOf(x, u, met) : c \in stored /\ Height[x] < Height[c]
  BY <1>1 DEF ChildrenOf, EdgesAreAll
<1> QED
  BY <1>5, <1>6, <1>7

\* A chain below e after d steps: its last is the furthest down.
GoesDown(e, s, d) ==
    /\ s \in Seq(stored) /\ Len(s) <= d
    /\ \A x \in {e} \union Elems(s) : Height[x] <= Height[LastOf(s, e)]

\* Both chains take the same step, further down.
LEMMA StepsAgree ==
    ASSUME TableTypes, EdgeInv, EdgesAreAll, NEW e \in stored, NEW d \in Nat, NEW s, GoesDown(e, s, d)
    PROVE  /\ LiveStep(e, s, d + 1) = ChainStep(e, Author[e], s, d + 1)
           /\ GoesDown(e, LiveStep(e, s, d + 1), d + 1)
<1>0. stored \in SUBSET Events
  BY StoredAreEvents
<1>1. s \in Seq(stored) /\ s \in Seq(Events) /\ Len(s) \in Nat /\ Len(s) <= d /\ DOMAIN s = 1..Len(s) /\ e \in Events
  BY <1>0 DEF GoesDown
<1>15. Len(s) \in Nat /\ Len(s) <= d
  BY <1>1
<1>2. PICK x : x = LastOf(s, e)
  OBVIOUS
<1>3. x \in Events
  BY <1>1, <1>2, LastIsEvent
<1>4. PICK met : met = {e} \union Elems(s)
  OBVIOUS
<1>5. met \in SUBSET Events /\ e \in met /\ \A y \in met : Height[y] <= Height[x]
  <2>1. Elems(s) \in SUBSET Events
    BY <1>1 DEF Elems
  <2> QED
    BY <1>1, <1>2, <1>4, <2>1 DEF GoesDown
<1>6. PICK c : c = NextOf(x, Author[e], met)
  OBVIOUS
<1>7. c = EarliestBy(x, Author[e]) /\ (c # None => c \in stored /\ Height[x] < Height[c])
  BY <1>3, <1>5, <1>6, NextIsEarliest
<1>8. c # None => c \notin met
  <2>1. \A y \in Events : Height[y] \in Nat
    BY ReferenceAssumption
  <2> QED
    BY <1>0, <1>3, <1>5, <1>7, <2>1
<1>9. LiveStep(e, s, d + 1) = IF Len(s) = d /\ c # None THEN Append(s, c) ELSE s
  <2>1. (d + 1) - 1 = d
    OBVIOUS
  <2> QED
    BY <1>2, <1>4, <1>6, <2>1 DEF LiveStep
<1>10. ChainStep(e, Author[e], s, d + 1) = IF c \in {None} \union met \/ Len(s) < d THEN s ELSE Append(s, c)
  <2>1. (d + 1) - 1 = d
    OBVIOUS
  <2>2. x = IF s = <<>> THEN e ELSE s[Len(s)]
    BY <1>2 DEF LastOf
  <2>3. {None, e} \union Elems(s) = {None} \union met
    BY <1>4
  <2>4. PICK b : b = EarliestBy(IF s = <<>> THEN e ELSE s[Len(s)], Author[e])
    OBVIOUS
  <2>5. b = c
    BY <1>7, <2>2, <2>4
  <2>6. ChainStep(e, Author[e], s, d + 1) =
            IF b \in {None, e} \union Elems(s) \/ Len(s) < (d + 1) - 1 THEN s ELSE Append(s, b)
    BY <2>4 DEF ChainStep
  <2>7. b \in {None, e} \union Elems(s) <=> c \in {None} \union met
    BY <2>3, <2>5
  <2>8. Append(s, b) = Append(s, c)
    BY <2>5
  <2> QED
    BY <2>1, <2>6, <2>7, <2>8, Zenon
<1>11. (c \in {None} \union met \/ Len(s) < d) <=> ~(Len(s) = d /\ c # None)
  <2>1. Len(s) < d <=> ~(Len(s) = d)
    BY <1>15
  <2>2. c \in {None} \union met <=> c = None
    BY <1>8
  <2> QED
    BY <2>1, <2>2
<1>12. LiveStep(e, s, d + 1) = ChainStep(e, Author[e], s, d + 1)
  BY <1>9, <1>10, <1>11
<1>13. CASE Len(s) = d /\ c # None
  <2>1. PICK t : t = Append(s, c)
    OBVIOUS
  <2>2. /\ t \in Seq(stored) /\ Len(t) = d + 1 /\ t # <<>> /\ t[Len(t)] = c
        /\ DOMAIN t = 1..(d + 1) /\ \A i \in 1..(d + 1) : t[i] = c \/ (i \in 1..d /\ t[i] = s[i])
    BY <1>1, <1>7, <1>13, <2>1
  <2>3. LastOf(t, e) = c
    BY <2>2 DEF LastOf
  <2>4. \A y \in {e} \union Elems(t) : y \in met \/ y = c
    BY <1>1, <1>4, <1>13, <2>2 DEF Elems
  <2>5. \A y \in {e} \union Elems(t) : Height[y] <= Height[c]
    <3>1. \A y \in Events : Height[y] \in Nat
      BY ReferenceAssumption
    <3>2. c \in Events /\ Height[x] < Height[c]
      BY <1>0, <1>7, <1>13
    <3>3. \A y \in met : Height[y] <= Height[c]
      BY <1>3, <1>5, <3>1, <3>2
    <3> QED
      BY <2>4, <3>1, <3>2, <3>3
  <2>6. GoesDown(e, t, d + 1)
    BY <2>2, <2>3, <2>5 DEF GoesDown
  <2> QED
    BY <1>9, <1>12, <1>13, <2>1, <2>6, Zenon
<1>14. CASE ~(Len(s) = d /\ c # None)
  <2>1. GoesDown(e, s, d + 1)
    BY <1>1 DEF GoesDown
  <2> QED
    BY <1>9, <1>12, <1>14, <2>1, Zenon
<1> QED
  BY <1>13, <1>14

\* So the chains are the same.
LEMMA ChainIsLive ==
    ASSUME TableTypes, RepliesFit, EdgeInv, EdgesAreAll, NEW e \in stored, NEW n \in 1..ChainMax
    PROVE  /\ AuthoredChains(stored, Own, n, MaxLimit)[e] = AuthoredChain(e, Author[e], n)
           /\ AuthoredChain(e, Author[e], n) \in Seq(stored)
<1>0. n \in Nat /\ e \in Events
  BY ThreadAssumption, StoredAreEvents
<1>1. PICK v : /\ v \in [0..n -> [stored -> Seq(Events)]] /\ \A x \in stored : v[0][x] = <<>>
               /\ \A d \in 1..n, x \in stored : v[d][x] = LiveStep(x, v[d - 1][x], d)
               /\ AuthoredChains(stored, Own, n, MaxLimit) = v[n]
  BY <1>0, LevelsAreWalk, ZenonT(40)
<1>2. PICK w : IsChain(w, e, Author[e], n)
  BY ChainIsWalk
<1>6. /\ w \in [0..n -> Seq(Events)] /\ w[0] = <<>>
      /\ \A d \in 1..n : w[d] = ChainStep(e, Author[e], w[d - 1], d)
      /\ AuthoredChain(e, Author[e], n) = w[n]
  BY <1>2 DEF IsChain
<1> DEFINE T == {d \in 0..n : v[d][e] = w[d] /\ GoesDown(e, w[d], d)}
<1>3. 0 \in T
  <2>1. GoesDown(e, <<>>, 0)
    <3>1. Elems(<<>>) = {} /\ LastOf(<<>>, e) = e /\ <<>> \in Seq(stored) /\ Len(<<>>) <= 0
      BY DEF Elems, LastOf
    <3>2. Height[e] \in Nat
      BY <1>0, ReferenceAssumption
    <3> QED
      BY <3>1, <3>2 DEF GoesDown
  <2> QED
    BY <1>0, <1>1, <1>6, <2>1
<1>4. \A d \in 0..(n - 1) : d \in T => d + 1 \in T
  <2> SUFFICES ASSUME NEW d \in 0..(n - 1), v[d][e] = w[d], GoesDown(e, w[d], d)
               PROVE  d + 1 \in 0..n /\ v[d + 1][e] = w[d + 1] /\ GoesDown(e, w[d + 1], d + 1)
    OBVIOUS
  <2>1. d + 1 \in 0..n /\ d + 1 \in 1..n /\ (d + 1) - 1 = d /\ d \in Nat
    BY <1>0
  <2>2. v[d + 1][e] = LiveStep(e, v[(d + 1) - 1][e], d + 1)
    BY <1>1, <2>1
  <2>3. w[d + 1] = ChainStep(e, Author[e], w[(d + 1) - 1], d + 1)
    BY <1>6, <2>1
  <2>4. LiveStep(e, w[d], d + 1) = ChainStep(e, Author[e], w[d], d + 1) /\ GoesDown(e, LiveStep(e, w[d], d + 1), d + 1)
    BY <2>1, StepsAgree
  <2> QED
    BY <2>1, <2>2, <2>3, <2>4
<1>5. n \in T
  <2> HIDE DEF T
  <2>1. n \in 0..n
    BY <1>0
  <2> QED
    BY <1>0, <1>3, <1>4, <2>1, UpTo
<1> QED
  BY <1>1, <1>5, <1>6 DEF GoesDown

\* Then what is precomputed is what is found.
LEMMA BothChainsAgree == TableTypes /\ EdgeInv => ChainsAgree
<1> SUFFICES ASSUME TableTypes, EdgeInv, EdgesAreAll, RepliesFit, NEW n \in 1..Least(2, ChainMax)
             PROVE  PrecomputedChains(stored, n) = AuthoredChains(stored, Own, n, MaxLimit)
  BY DEF ChainsAgree, EdgesAreAll, Own
<1>1. n \in 1..ChainMax /\ n \in Nat
  BY ThreadAssumption DEF Least
<1> DEFINE ids == [e \in stored |-> AuthoredChain(e, Author[e], n)]
           found == FetchByIds(AllIds(ids))
<1>2. PrecomputedChains(stored, n) = [e \in stored |-> Kept(ids[e], found)]
  BY DEF PrecomputedChains
<1>3. \A e \in stored : ids[e] = AuthoredChain(e, Author[e], n)
  OBVIOUS
<1>4. DOMAIN ids = stored
  OBVIOUS
<1>f. found = FetchByIds(AllIds(ids))
  OBVIOUS
<1> HIDE DEF ids, found
<1>5. \A e \in stored : ids[e] \in Seq(stored) /\ AuthoredChains(stored, Own, n, MaxLimit)[e] = ids[e]
  BY <1>1, <1>3, ChainIsLive
<1>6. \A e \in stored : Kept(ids[e], found) = ids[e]
  <2> TAKE e \in stored
  <2>1. PICK s : s = ids[e]
    OBVIOUS
  <2>2. s \in Seq(stored)
    BY <1>5, <2>1
  <2>3. \A i \in 1..Len(s) : s[i] \in stored /\ s[i] \in Elems(s)
    BY <2>2 DEF Elems
  <2>4. Elems(s) \subseteq AllIds(ids)
    BY <1>4, <2>1 DEF AllIds
  <2>5. \A i \in 1..Len(s) : s[i] \in found
    BY <1>f, <2>3, <2>4 DEF FetchByIds
  <2>6. Kept(s, found) = s
    BY <2>2, <2>5, KeptAll
  <2> QED
    BY <2>1, <2>6
<1>7. AuthoredChains(stored, Own, n, MaxLimit) = [e \in stored |-> AuthoredChains(stored, Own, n, MaxLimit)[e]]
  <2>1. PICK v : v \in [0..n -> [stored -> Seq(Events)]] /\ AuthoredChains(stored, Own, n, MaxLimit) = v[n]
    BY <1>1, LevelsAreWalk, ZenonT(40)
  <2>2. n \in 0..n
    BY <1>1
  <2>3. v[n] \in [stored -> Seq(Events)]
    BY <2>1, <2>2
  <2> QED
    BY <2>1, <2>3
<1>8. PrecomputedChains(stored, n) = [e \in stored |-> ids[e]]
  BY <1>2, <1>6
<1>9. AuthoredChains(stored, Own, n, MaxLimit) = [e \in stored |-> ids[e]]
  BY <1>5, <1>7
<1> QED
  BY <1>8, <1>9

\* Once every reply has its edge, the chain that is read from the edges is the one that is
\* found by looking at the tags, as long as one query has room for the replies
\* (AuthoredReplyChain, loadAuthoredReplyChainsBatch).
THEOREM ReadsChainsAgree == Spec => []ChainsAgree
<1>1. Init => EdgeInv
  BY DEF Init, EdgeInv
<1>2. TableTypes /\ EdgeInv /\ [Next]_vars => EdgeInv'
  BY EdgesNext
<1> QED
  BY <1>1, <1>2, BothChainsAgree, ReadTables, PTL DEF Spec

\* Threads, chains, roots and notifications are whole: no step of any deployment leads to
\* a state where one of them loses what belongs to it or shows it twice.
THEOREM ReadsGroupsAreWhole == Spec => []GroupsAreWhole
  BY ReadsThreadHoldsReplies, ReadsOrderIsComplete, ReadsRootsAreOnChain, ReadsFeedIsHydrated,
     ReadsGroupsSkipOnlyTies, ReadsNoticesPageIsLast, ReadsReadsAgree, ReadsChainsAgree, PTL DEF GroupsAreWhole

-----------------------------------------------------------------------------
(* Direct replies of all events at once, and one by one *)

\* Replies that are ranked as "new" are the newest.
LEMMA RankedAsNew ==
    ASSUME TableTypes, NEW p, NEW n \in 1..ThreadMax
    PROVE  RankedReplies(p, "new", n, 0) = Page(Newest(DirectReplies(p)), 0, n)
<1> DEFINE S == DirectReplies(p)
           o == Ordered(S, LAMBDA e, f : RanksBefore(e, f, "new"))
           Has(e, i) == Cardinality({f \in S : Newer(f, e)}) = i - 1
           h(i) == CHOOSE e \in S : Cardinality({f \in S : RanksBefore(f, e, "new")}) = i - 1
<1>1. S \in SUBSET Events
  BY RepliesAreStored
<1>2. \A e, f : RanksBefore(e, f, "new") <=> Newer(e, f)
  <2>1. \A e : SortCount(e, "new") = 0
    BY DEF SortCount
  <2> QED
    BY <2>1 DEF RanksBefore
<1>3. o = [i \in 1..Cardinality(S) |-> h(i)]
  BY DEF Ordered
<1>4. Newest(S) = [i \in 1..Cardinality(S) |-> CHOOSE e \in S : Has(e, i)]
  BY DEF Newest, Ordered
<1>n. n \in Nat /\ ~(n <= 0) /\ ~(n > ThreadMax)
  BY ThreadAssumption
<1>5. RankedReplies(p, "new", n, 0) = Page(o, 0, n)
  BY <1>n DEF RankedReplies
<1>6. \A e : {f \in S : RanksBefore(f, e, "new")} = {f \in S : Newer(f, e)}
  BY <1>2
<1>7. \A i : h(i) = CHOOSE e \in S : Has(e, i)
  BY <1>6
<1> HIDE DEF S, o, h, Has
<1>8. o = Newest(S)
  BY <1>3, <1>4, <1>7
<1> QED
  BY <1>5, <1>8 DEF S

\* What the edges say of an event's replies is what a query for their ids finds.
LEMMA RepliesByIds ==
    ASSUME TableTypes, NEW e, NEW n \in 1..MaxLimit
    PROVE  RepliesReferencing(AnyEvent, e, n) = Page(Newest(DirectReplies(e)), 0, n)
<1>0. DirectReplies(e) \in SUBSET stored /\ DirectReplies(e) \in SUBSET Events /\ n \in Nat /\ n # 0 /\ MaxLimit \in Nat
  BY RepliesAreStored, MostIsAllowed
<1>1. CASE DirectReplies(e) = {}
  <2>1. Page(Newest(DirectReplies(e)), 0, n) \in Seq(DirectReplies(e))
    BY <1>0, PageIsOf
  <2>2. Page(Newest(DirectReplies(e)), 0, n) = <<>>
    BY <1>1, <2>1
  <2> QED
    BY <1>1, <2>2 DEF RepliesReferencing
<1>2. CASE DirectReplies(e) # {}
  <2>1. PICK S : S = DirectReplies(e)
    OBVIOUS
  <2>2. PICK q : q = [AnyEvent EXCEPT !.limit = n, !.ids = DirectReplies(e)]
    OBVIOUS
  <2>3. /\ q.ids = S /\ q.authors = {} /\ q.notIds = {} /\ q.notAuthors = {} /\ q.kinds = {} /\ q.tags = {}
        /\ q.texts = Events /\ q.followers = -1 /\ q.since = 0 /\ q.until = 0 /\ q.limit = n /\ q.offset = 0
    BY <2>1, <2>2 DEF AnyEvent
  <2>4. stored \in SUBSET Events /\ S \in SUBSET stored /\ S # {}
    BY <1>0, <1>2, <2>1, StoredAreEvents
  <2>5. Matching(q) = S
    BY <2>3, <2>4 DEF Matching, Matches, WellFollowed, InWindow
  <2>6. Limited(n, MaxLimit, DefaultLimit) = n
    BY <1>0 DEF Limited
  <2>7. QueryEvents(q) = Page(Newest(S), 0, n)
    BY <2>3, <2>5, <2>6 DEF QueryEvents
  <2>8. RepliesReferencing(AnyEvent, e, n) = QueryEvents(q)
    BY <1>2, <2>2 DEF RepliesReferencing
  <2> QED
    BY <2>1, <2>7, <2>8
<1> QED
  BY <1>1, <1>2

\* Whatever list an event is in, its direct replies are the newest.
LEMMA RankedAsAlone ==
    ASSUME TableTypes, NEW S \in SUBSET stored, NEW e \in S, NEW n \in 1..ThreadMax
    PROVE  RankedRepliesOf(S, "new", n, 0)[e] = Page(Newest(DirectReplies(e)), 0, n)
<1> DEFINE ids == [x \in S |-> RankedReplies(x, "new", n, 0)]
           found == FetchByIds(AllIds(ids))
<1>1. RankedRepliesOf(S, "new", n, 0)[e] = Kept(ids[e], found)
  BY DEF RankedRepliesOf
<1>2. DOMAIN ids = S /\ ids[e] = RankedReplies(e, "new", n, 0) /\ found = AllIds(ids) \intersect stored
  BY DEF FetchByIds
<1> HIDE DEF ids, found
<1>3. PICK s : s = Page(Newest(DirectReplies(e)), 0, n)
  OBVIOUS
<1>4. ids[e] = s
  BY <1>2, <1>3, RankedAsNew
<1>5. s \in Seq(DirectReplies(e)) /\ DirectReplies(e) \in SUBSET stored
  <2>1. DirectReplies(e) \in SUBSET Events /\ DirectReplies(e) \in SUBSET stored /\ 0 \in Nat /\ n \in Nat
    BY RepliesAreStored, ThreadAssumption
  <2> QED
    BY <1>3, <2>1, PageIsOf
<1>6. \A i \in 1..Len(s) : s[i] \in found
  <2>1. \A i \in 1..Len(s) : s[i] \in stored /\ s[i] \in Elems(s)
    BY <1>5 DEF Elems
  <2>2. Elems(s) \subseteq AllIds(ids)
    BY <1>2, <1>4 DEF AllIds
  <2> QED
    BY <1>2, <2>1, <2>2
<1>7. Kept(s, found) = s
  BY <1>5, <1>6, KeptAll
<1> QED
  BY <1>1, <1>3, <1>4, <1>7

-----------------------------------------------------------------------------
(* Lists without what comes again *)

\* Nothing is lost of a list but what comes again.
LEMMA DistinctHasAll ==
    ASSUME NEW T, NEW s \in Seq(T)
    PROVE  Distinct(s) \in Seq(T) /\ Elems(Distinct(s)) = Elems(s)
<1> DEFINE I == {i \in DOMAIN s : \A j \in 1..(i - 1) : s[j] # s[i]}
<1>1. Len(s) \in Nat /\ DOMAIN s = 1..Len(s)
  OBVIOUS
<1>2. I \in SUBSET (1..Len(s)) /\ \A i : i \in I <=> i \in 1..Len(s) /\ \A j \in 1..(i - 1) : s[j] # s[i]
  BY <1>1
<1>3. Distinct(s) = Picked(s, I)
  BY DEF Distinct
<1> HIDE DEF I
<1>4. PICK t : t = Picked(s, I)
  OBVIOUS
<1>5. t \in Seq(T) /\ \E p : Picks(t, s, I, p)
  BY <1>2, <1>4, PickedIsInOrder
<1>6. PICK p : Picks(t, s, I, p)
  BY <1>5
<1>7. DOMAIN t = 1..Len(t)
  BY <1>5
<1>8. \A i \in 1..Len(t) : t[i] \in Elems(s)
  BY <1>1, <1>6 DEF Picks, Elems
<1>9. \A x \in Elems(s) : x \in Elems(t)
  <2> TAKE x \in Elems(s)
  <2>1. PICK A : A = {i \in 1..Len(s) : s[i] = x}
    OBVIOUS
  <2>2. A # {} /\ A \in SUBSET (1..Len(s)) /\ \A i : i \in A <=> i \in 1..Len(s) /\ s[i] = x
    BY <1>1, <2>1 DEF Elems
  <2>3. IsFiniteSet(A) /\ \A i \in A : i \in Int
    <3>1. IsFiniteSet(1..Len(s))
      BY <1>1, FS_Interval
    <3> QED
      BY <2>2, <3>1, FS_Subset
  <2>4. PICK k \in A : \A j \in A : k <= j
    BY <2>2, <2>3, LeastNumber
  <2>5. k \in 1..Len(s) /\ s[k] = x
    BY <2>2
  <2>6. \A j \in 1..(k - 1) : s[j] # s[k]
    <3> SUFFICES ASSUME NEW j \in 1..(k - 1), s[j] = s[k] PROVE FALSE
      OBVIOUS
    <3>1. j \in 1..Len(s) /\ j < k
      BY <1>1, <2>5
    <3>2. j \in A
      BY <2>2, <2>5, <3>1
    <3> QED
      BY <2>3, <2>4, <3>1, <3>2
  <2>7. k \in I
    BY <1>2, <2>5, <2>6
  <2>8. PICK i \in 1..Len(t) : p[i] = k
    BY <1>6, <2>7 DEF Picks
  <2>9. t[i] = x
    BY <1>6, <2>5, <2>8 DEF Picks
  <2> QED
    BY <1>7, <2>9 DEF Elems
<1>10. Elems(t) = Elems(s)
  BY <1>7, <1>8, <1>9 DEF Elems
<1> QED
  BY <1>3, <1>4, <1>5, <1>10

\* What two lists have together.
LEMMA ElemsOfBoth ==
    ASSUME NEW T, NEW a \in Seq(T), NEW b \in Seq(T)
    PROVE  a \o b \in Seq(T) /\ Elems(a \o b) = Elems(a) \union Elems(b)
<1>1. PICK s : s = a \o b
  OBVIOUS
<1>2. PICK m \in Nat : m = Len(a)
  OBVIOUS
<1>3. PICK n \in Nat : n = Len(b)
  OBVIOUS
<1>4. /\ s \in Seq(T) /\ DOMAIN s = 1..(m + n) /\ DOMAIN a = 1..m /\ DOMAIN b = 1..n
      /\ \A i \in 1..(m + n) : s[i] = IF i <= m THEN a[i] ELSE b[i - m]
  BY <1>1, <1>2, <1>3
<1>5. \A i \in 1..m : i \in 1..(m + n) /\ s[i] = a[i]
  BY <1>4
<1>6. \A i \in 1..n : m + i \in 1..(m + n) /\ s[m + i] = b[i]
  <2> TAKE i \in 1..n
  <2>1. m + i \in 1..(m + n) /\ ~(m + i <= m) /\ (m + i) - m = i
    OBVIOUS
  <2>2. s[m + i] = b[(m + i) - m]
    BY <1>4, <2>1
  <2> QED
    BY <2>1, <2>2
<1>7. \A i \in 1..(m + n) : s[i] \in Elems(a) \union Elems(b)
  <2> TAKE i \in 1..(m + n)
  <2>1. CASE i <= m
    <3>1. i \in 1..m
      BY <2>1
    <3> QED
      BY <1>4, <1>5, <3>1 DEF Elems
  <2>2. CASE ~(i <= m)
    <3>1. i - m \in 1..n
      BY <2>2
    <3> QED
      BY <1>4, <2>2, <3>1 DEF Elems
  <2> QED
    BY <2>1, <2>2
<1>8. Elems(s) \subseteq Elems(a) \union Elems(b)
  BY <1>4, <1>7 DEF Elems
<1>9. Elems(a) \subseteq Elems(s)
  BY <1>4, <1>5 DEF Elems
<1>10. Elems(b) \subseteq Elems(s)
  <2> SUFFICES ASSUME NEW x \in Elems(b) PROVE x \in Elems(s)
    OBVIOUS
  <2>1. PICK i \in 1..n : b[i] = x
    BY <1>4 DEF Elems
  <2>2. m + i \in DOMAIN s /\ s[m + i] = x
    BY <1>4, <1>6, <2>1
  <2> QED
    BY <2>2 DEF Elems
<1> QED
  BY <1>1, <1>4, <1>8, <1>9, <1>10

\* What is kept of a list.
LEMMA KeptHas ==
    ASSUME NEW T, NEW s \in Seq(T), NEW S
    PROVE  Kept(s, S) \in Seq(T) /\ Elems(Kept(s, S)) = Elems(s) \intersect S
<1>1. PICK t : t = Kept(s, S)
  OBVIOUS
<1>2. t \in Seq(T) /\ \E p : Keeps(t, s, S, p)
  BY <1>1, KeptIsInOrder
<1>3. PICK p : Keeps(t, s, S, p)
  BY <1>2
<1>4. DOMAIN t = 1..Len(t) /\ DOMAIN s = 1..Len(s)
  BY <1>2
<1>5. \A i \in 1..Len(t) : t[i] \in Elems(s) /\ t[i] \in S
  BY <1>3, <1>4 DEF Keeps, Elems
<1>6. \A k \in 1..Len(s) : s[k] \in S => \E i \in 1..Len(t) : t[i] = s[k]
  BY <1>3 DEF Keeps
<1>7. Elems(t) \subseteq Elems(s) \intersect S
  BY <1>4, <1>5 DEF Elems
<1>8. \A x \in Elems(s) : x \in S => x \in Elems(t)
  BY <1>4, <1>6 DEF Elems
<1> QED
  BY <1>1, <1>2, <1>7, <1>8

\* Only what is in the list matters.
LEMMA KeptOfSame ==
    ASSUME NEW s, NEW S, NEW R, \A x \in Elems(s) : x \in S <=> x \in R
    PROVE  Kept(s, S) = Kept(s, R)
<1>1. {i \in DOMAIN s : s[i] \in S} = {i \in DOMAIN s : s[i] \in R}
  BY DEF Elems
<1> QED
  BY <1>1 DEF Kept

-----------------------------------------------------------------------------
(* Selected references *)

\* The references of an event are events.
LEMMA RefsAreEvents ==
    ASSUME NEW e \in Events, NEW markers, NEW last, NEW n \in Nat
    PROVE  RefsWith(e, markers, last, n) \in Seq(Events)
<1> DEFINE Tag == [to : Events, marker : STRING]
           I == {i \in DOMAIN ETags[e] : ETags[e][i].marker \in markers}
           tags == Picked(ETags[e], I)
           ids == [i \in DOMAIN tags |-> (IF last THEN Backwards(tags) ELSE tags)[i].to]
<1>1. ETags[e] \in Seq(Tag)
  BY EventsAssumption
<1>2. \A t \in Tag : t.to \in Events
  OBVIOUS
<1> HIDE DEF Tag
<1>3. I \in SUBSET (1..Len(ETags[e]))
  BY <1>1
<1>4. RefsWith(e, markers, last, n) = Page(Distinct(ids), 0, n)
  BY DEF RefsWith
<1> HIDE DEF I
<1>5. tags \in Seq(Tag)
  BY <1>1, <1>3, PickedIsInOrder
<1> HIDE DEF tags
<1>6. DOMAIN tags = 1..Len(tags) /\ Len(tags) \in Nat /\ \A i \in 1..Len(tags) : tags[i] \in Tag
  BY <1>5
<1>7. \A i \in 1..Len(tags) : ids[i] \in Events
  <2> TAKE i \in 1..Len(tags)
  <2>1. CASE last
    <3>1. Len(tags) + 1 - i \in 1..Len(tags)
      BY <1>6
    <3>2. Backwards(tags)[i] = tags[Len(tags) + 1 - i]
      BY <1>6 DEF Backwards
    <3>3. tags[Len(tags) + 1 - i] \in Tag
      BY <1>6, <3>1
    <3>4. ids[i] = Backwards(tags)[i].to
      BY <1>6, <2>1
    <3> QED
      BY <1>2, <3>2, <3>3, <3>4
  <2>2. CASE ~last
    <3>1. ids[i] = tags[i].to
      BY <1>6, <2>2
    <3> QED
      BY <1>2, <1>6, <3>1
  <2> QED
    BY <2>1, <2>2
<1>8. ids \in Seq(Events)
  <2>1. ids \in [1..Len(tags) -> Events]
    BY <1>6, <1>7
  <2> HIDE DEF ids
  <2> QED
    BY <1>6, <2>1
<1> HIDE DEF ids
<1>9. Distinct(ids) \in Seq(Events)
  BY <1>8, DistinctHasAll
<1>10. PICK s : s = Distinct(ids)
  OBVIOUS
<1>11. Page(s, 0, n) \in Seq(Events)
  BY <1>9, <1>10, PageItems
<1> QED
  BY <1>4, <1>10, <1>11

\* And so are those that an event selects.
LEMMA SelectionIsSeq ==
    ASSUME NEW e \in Events, NEW in, SelectionLimit(in.limit) \in Nat
    PROVE  SelectedRefs(e, in) \in Seq(Events)
<1>1. PICK n \in Nat : n = SelectionLimit(in.limit)
  OBVIOUS
<1>2. \A markers, last : RefsWith(e, markers, last, n) \in Seq(Events)
  BY RefsAreEvents
<1> QED
  BY <1>1, <1>2 DEF SelectedRefs

\* What is known of a source on its way, and what its events select, if they were fetched.
Sources == [ids : Seq(Events), met : SUBSET Events]
RefsAt(ids, fetched, in) == [i \in 1..Len(ids) |-> IF ids[i] \in fetched THEN SelectedRefs(ids[i], in) ELSE <<>>]
MoveStep(ids, r, n) == [x \in (1..Len(ids)) \X Sources |-> Replace(x[2], ids[x[1]], r[x[1]], n)]

\* What is met on the way from one to the other, w being further on than v.
Further(v, w) ==
    /\ v.met \subseteq w.met
    /\ \A x \in w.met : x \in v.met \/ x \in Elems(w.ids)
    /\ Elems(w.ids) \subseteq w.met

\* A step of a source loses nothing that it met.
LEMMA ReplaceKeeps ==
    ASSUME NEW w \in Sources, NEW id \in Events, NEW refs \in Seq(Events), NEW n
    PROVE  /\ Replace(w, id, refs, n) \in Sources
           /\ \A v : Further(v, w) /\ id \in w.met => Further(v, Replace(w, id, refs, n))
<1>1. w.ids \in Seq(Events) /\ w.met \in SUBSET Events
  BY DEF Sources
<1>2. PICK S : S = Elems(refs) \ w.met
  OBVIOUS
<1>3. PICK new : new = Kept(refs, S)
  OBVIOUS
<1>4. new \in Seq(Events) /\ Elems(new) = Elems(refs) \intersect S
  BY <1>3, KeptHas
<1>5. PICK add : add = IF new = <<>> THEN <<id>> ELSE new
  OBVIOUS
<1>6. add \in Seq(Events) /\ Elems(new) \subseteq Elems(add) /\ Elems(add) \subseteq Elems(new) \union {id}
  <2>1. <<id>> \in Seq(Events) /\ Elems(<<id>>) = {id}
    BY DEF Elems
  <2>2. Elems(<<>>) = {}
    BY DEF Elems
  <2> QED
    BY <1>4, <1>5, <2>1, <2>2
<1>7. PICK s : s = w.ids \o add
  OBVIOUS
<1>8. s \in Seq(Events) /\ Elems(s) = Elems(w.ids) \union Elems(add)
  BY <1>1, <1>6, <1>7, ElemsOfBoth
<1>9. PICK t : t = Distinct(s)
  OBVIOUS
<1>10. t \in Seq(Events) /\ Elems(t) = Elems(s)
  BY <1>8, <1>9, DistinctHasAll
<1>11. PICK r : r = [ids |-> t, met |-> w.met \union Elems(new)]
  OBVIOUS
<1>12. Replaced(w, id, new) = r
  BY <1>5, <1>7, <1>9, <1>11 DEF Replaced
<1>13. r.ids = t /\ r.met = w.met \union Elems(new)
  BY <1>11
<1>14. Elems(new) \in SUBSET Events
  BY <1>4 DEF Elems
<1>15. r \in Sources
  BY <1>1, <1>10, <1>11, <1>14 DEF Sources
<1>16. \A v : Further(v, w) /\ id \in w.met => Further(v, r)
  BY <1>6, <1>8, <1>10, <1>13 DEF Further
<1>17. Replace(w, id, refs, n) = w \/ Replace(w, id, refs, n) = r
  BY <1>2, <1>3, <1>12 DEF Replace
<1> QED
  BY <1>15, <1>16, <1>17

\* How a source moves on, event by event.
IsMove(w, ids, met, fetched, in) ==
    /\ IsWalk(w, Len(ids), Sources, [ids |-> <<>>, met |-> met],
              MoveStep(ids, RefsAt(ids, fetched, in), SelectionLimit(in.limit)))
    /\ MoveOn(ids, met, fetched, in) = w[Len(ids)]

\* What is selected of what was fetched.
LEMMA RefsAtAreSeqs ==
    ASSUME NEW ids \in Seq(Events), NEW fetched, NEW in, SelectionLimit(in.limit) \in Nat
    PROVE  \A i \in 1..Len(ids) : RefsAt(ids, fetched, in)[i] \in Seq(Events)
<1> TAKE i \in 1..Len(ids)
<1>1. PICK x : x = ids[i]
  OBVIOUS
<1>2. x \in Events
  BY <1>1
<1>3. SelectedRefs(x, in) \in Seq(Events)
  BY <1>2, SelectionIsSeq
<1>4. <<>> \in Seq(Events)
  OBVIOUS
<1>5. RefsAt(ids, fetched, in)[i] = IF x \in fetched THEN SelectedRefs(x, in) ELSE <<>>
  BY <1>1 DEF RefsAt
<1> QED
  BY <1>3, <1>4, <1>5

\* There is such a way.
LEMMA MoveOnIsWalk ==
    ASSUME NEW ids \in Seq(Events), NEW met \in SUBSET Events, NEW fetched, NEW in, SelectionLimit(in.limit) \in Nat
    PROVE  \E w : IsMove(w, ids, met, fetched, in)
<1> DEFINE N == Len(ids)
           n == SelectionLimit(in.limit)
           a == [ids |-> <<>>, met |-> met]
           refs(e) == IF e \in fetched THEN SelectedRefs(e, in) ELSE <<>>
           walk[i \in 0..Len(ids)] == IF i = 0 THEN a ELSE Replace(walk[i - 1], ids[i], refs(ids[i]), n)
           Is(f) == f = [i \in 0..Len(ids) |-> IF i = 0 THEN a ELSE Replace(f[i - 1], ids[i], refs(ids[i]), n)]
           r == RefsAt(ids, fetched, in)
           G == MoveStep(ids, r, n)
<1>1. N \in Nat /\ DOMAIN ids = 1..N /\ \A i \in 1..N : ids[i] \in Events
  OBVIOUS
<1>2. a \in Sources
  BY DEF Sources
<1>3. \A i \in 1..N : r[i] \in Seq(Events) /\ r[i] = refs(ids[i])
  <2>1. \A i \in 1..N : r[i] \in Seq(Events)
    BY RefsAtAreSeqs
  <2>2. \A i \in 1..N : r[i] = refs(ids[i])
    BY DEF RefsAt
  <2> QED
    BY <2>1, <2>2
<1>4. walk = CHOOSE f : Is(f)
  OBVIOUS
<1>5. MoveOn(ids, met, fetched, in) = walk[N]
  BY DEF MoveOn
<1> HIDE DEF walk, refs, r, a, n
<1>6. \A i \in 1..N, x \in Sources : G[<<i, x>>] = Replace(x, ids[i], r[i], n)
  BY DEF MoveStep
<1>7. G \in [(1..N) \X Sources -> Sources]
  <2>1. \A i \in 1..N, x \in Sources : Replace(x, ids[i], r[i], n) \in Sources
    BY <1>1, <1>3, ReplaceKeeps
  <2> QED
    BY <2>1 DEF MoveStep
<1> HIDE DEF G, N
<1>8. PICK w : IsWalk(w, N, Sources, a, G)
  BY <1>1, <1>2, <1>7, WalkExists
<1>9. w \in [0..N -> Sources] /\ w[0] = a
  BY <1>8 DEF IsWalk
<1>10. \A i \in 1..N : w[i] = Replace(w[i - 1], ids[i], refs(ids[i]), n)
  <2> TAKE i \in 1..N
  <2>1. i - 1 \in 0..N
    BY <1>1
  <2>2. w[i - 1] \in Sources
    BY <1>9, <2>1
  <2>3. w[i] = G[<<i, w[i - 1]>>]
    BY <1>8 DEF IsWalk
  <2> QED
    BY <1>3, <1>6, <2>2, <2>3
<1>11. Is(w)
  <2>1. \A i \in 0..N : w[i] = IF i = 0 THEN a ELSE Replace(w[i - 1], ids[i], refs(ids[i]), n)
    <3> TAKE i \in 0..N
    <3>1. i = 0 \/ i \in 1..N
      BY <1>1
    <3> QED
      BY <1>9, <1>10, <3>1
  <2> QED
    BY <1>9, <2>1 DEF N
<1>12. Is(walk)
  <2> HIDE DEF Is
  <2> QED
    BY <1>4, <1>11
<1>13. walk = [i \in 0..N |-> walk[i]] /\ walk[0] = a
  BY <1>1, <1>12 DEF N
<1>14. \A i \in 1..N : walk[i] = Replace(walk[i - 1], ids[i], refs(ids[i]), n)
  <2> TAKE i \in 1..N
  <2>1. i \in 0..Len(ids) /\ i # 0
    BY <1>1 DEF N
  <2> QED
    BY <1>12, <2>1
<1>15. \A i \in 1..N : walk[i - 1] \in Sources => walk[i] = G[<<i, walk[i - 1]>>]
  BY <1>3, <1>6, <1>14
<1>16. IsWalk(walk, N, Sources, a, G)
  BY <1>1, <1>2, <1>7, <1>13, <1>15, RecursionIsWalk
<1>17. IsMove(walk, ids, met, fetched, in)
  BY <1>5, <1>16 DEF IsMove, N, a, G, r, n
<1> QED
  BY <1>17

\* Only what was fetched of a source's own events matters to it.
LEMMA MoveOnOwn ==
    ASSUME NEW ids \in Seq(Events), NEW met \in SUBSET Events, NEW R, NEW S, NEW in,
           SelectionLimit(in.limit) \in Nat, \A x \in Elems(ids) : x \in R <=> x \in S
    PROVE  MoveOn(ids, met, R, in) = MoveOn(ids, met, S, in)
<1>1. PICK v : IsMove(v, ids, met, R, in)
  BY MoveOnIsWalk
<1>2. PICK w : IsMove(w, ids, met, S, in)
  BY MoveOnIsWalk
<1>3. RefsAt(ids, R, in) = RefsAt(ids, S, in)
  <2>1. \A i \in 1..Len(ids) : ids[i] \in Elems(ids)
    BY DEF Elems
  <2>2. \A i \in 1..Len(ids) : ids[i] \in R <=> ids[i] \in S
    BY <2>1
  <2> QED
    BY <2>2 DEF RefsAt
<1>4. PICK G : G = MoveStep(ids, RefsAt(ids, S, in), SelectionLimit(in.limit))
  OBVIOUS
<1>5. PICK a : a = [ids |-> <<>>, met |-> met]
  OBVIOUS
<1>6. PICK N \in Nat : N = Len(ids)
  OBVIOUS
<1>7. IsWalk(v, N, Sources, a, G)
  BY <1>1, <1>3, <1>4, <1>5, <1>6 DEF IsMove
<1>8. IsWalk(w, N, Sources, a, G)
  BY <1>2, <1>4, <1>5, <1>6 DEF IsMove
<1>9. v = w
  BY <1>7, <1>8, WalkIsOne
<1> QED
  BY <1>1, <1>2, <1>9 DEF IsMove

\* What a source has when it moved on, all of which it met.
LEMMA MoveOnKeeps ==
    ASSUME NEW ids \in Seq(Events), NEW met \in SUBSET Events, NEW fetched, NEW in,
           SelectionLimit(in.limit) \in Nat, Elems(ids) \subseteq met
    PROVE  /\ MoveOn(ids, met, fetched, in) \in Sources
           /\ Further([ids |-> ids, met |-> met], MoveOn(ids, met, fetched, in))
<1>1. PICK w : IsMove(w, ids, met, fetched, in)
  BY MoveOnIsWalk
<1>2. PICK G : G = MoveStep(ids, RefsAt(ids, fetched, in), SelectionLimit(in.limit))
  OBVIOUS
<1>3. PICK N \in Nat : N = Len(ids)
  OBVIOUS
<1>4. PICK v : v = [ids |-> ids, met |-> met]
  OBVIOUS
<1>5. /\ w \in [0..N -> Sources] /\ w[0] = [ids |-> <<>>, met |-> met]
      /\ \A d \in 1..N : w[d] = G[<<d, w[d - 1]>>]
  BY <1>1, <1>2, <1>3 DEF IsMove, IsWalk
<1>6. \A i \in 1..N, x \in Sources : G[<<i, x>>] = Replace(x, ids[i], RefsAt(ids, fetched, in)[i], SelectionLimit(in.limit))
  BY <1>2, <1>3 DEF MoveStep
<1> DEFINE T == {d \in 0..N : Further(v, w[d])}
<1>7. 0 \in T
  <2>1. w[0].ids = <<>> /\ w[0].met = met /\ v.met = met /\ Elems(<<>>) = {}
    BY <1>4, <1>5 DEF Elems
  <2>2. Further(v, w[0])
    BY <2>1 DEF Further
  <2> QED
    BY <2>2
<1>8. \A d \in 0..(N - 1) : d \in T => d + 1 \in T
  <2> SUFFICES ASSUME NEW d \in 0..(N - 1), Further(v, w[d]) PROVE d + 1 \in 0..N /\ Further(v, w[d + 1])
    OBVIOUS
  <2>1. d + 1 \in 0..N /\ d + 1 \in 1..N /\ (d + 1) - 1 = d /\ d \in 0..N
    OBVIOUS
  <2>2. PICK j : j = d + 1
    OBVIOUS
  <2>3. j \in 1..N /\ j - 1 = d
    BY <2>1, <2>2
  <2>4. PICK id : id = ids[j]
    OBVIOUS
  <2>5. id \in Events /\ id \in Elems(ids)
    BY <1>3, <2>3, <2>4 DEF Elems
  <2>6. PICK refs : refs = RefsAt(ids, fetched, in)[j]
    OBVIOUS
  <2>7. refs \in Seq(Events)
    BY <1>3, <2>3, <2>6, RefsAtAreSeqs
  <2>8. PICK x : x = w[d]
    OBVIOUS
  <2>9. x \in Sources /\ Further(v, x)
    BY <1>5, <2>1, <2>8
  <2>10. w[j] = Replace(x, id, refs, SelectionLimit(in.limit))
    BY <1>5, <1>6, <2>3, <2>4, <2>6, <2>8, <2>9
  <2>11. id \in x.met
    <3>1. v.met = met
      BY <1>4
    <3> QED
      BY <2>5, <2>9, <3>1 DEF Further
  <2>12. Further(v, Replace(x, id, refs, SelectionLimit(in.limit)))
    BY <2>5, <2>7, <2>9, <2>11, ReplaceKeeps
  <2> QED
    BY <2>1, <2>2, <2>10, <2>12
<1>9. N \in T
  <2> HIDE DEF T
  <2>1. N \in 0..N
    OBVIOUS
  <2> QED
    BY <1>7, <1>8, <2>1, UpTo
<1>10. MoveOn(ids, met, fetched, in) = w[N] /\ N \in 0..N
  BY <1>1, <1>3 DEF IsMove
<1> QED
  BY <1>4, <1>5, <1>9, <1>10

-----------------------------------------------------------------------------
(* Rounds of all sources *)

\* Where all sources are between two rounds.
Rounds(S) == [ids : [S -> Seq(Events)], met : [S -> SUBSET Events], fetched : SUBSET stored]

\* Every source met what it has, and what is stored of that was fetched.
RoundInv(S, w) ==
    /\ w \in Rounds(S)
    /\ \A x \in S : Elems(w.ids[x]) \subseteq w.met[x]
    /\ \A x \in S : \A y \in Elems(w.ids[x]) : y \in w.fetched <=> y \in stored

\* What is fetched are the stored ones of all.
LEMMA FetchingKeeps ==
    ASSUME NEW S, NEW w \in Rounds(S)
    PROVE  /\ Fetching(w) \in Rounds(S) /\ Fetching(w).ids = w.ids /\ Fetching(w).met = w.met
           /\ \A x \in S : \A y \in Elems(w.ids[x]) : y \in Fetching(w).fetched <=> y \in stored
<1>1. PICK F : F = FetchSelected(w)
  OBVIOUS
<1>2. w.ids \in [S -> Seq(Events)] /\ w.met \in [S -> SUBSET Events] /\ w.fetched \in SUBSET stored
  BY DEF Rounds
<1>3. F \in SUBSET stored /\ \A y \in AllIds(w.ids) : y \in stored => y \in F
  BY <1>1, <1>2 DEF FetchSelected, FetchByIds
<1>4. Fetching(w) = [w EXCEPT !.fetched = F]
  BY <1>1 DEF Fetching
<1>5. Fetching(w) \in Rounds(S) /\ Fetching(w).ids = w.ids /\ Fetching(w).met = w.met /\ Fetching(w).fetched = F
  BY <1>3, <1>4 DEF Rounds
<1>6. \A x \in S : Elems(w.ids[x]) \subseteq AllIds(w.ids)
  BY <1>2 DEF AllIds
<1>7. \A x \in S : \A y \in Elems(w.ids[x]) : y \in F <=> y \in stored
  BY <1>3, <1>6
<1> QED
  BY <1>5, <1>7

\* The sources begin with what they select.
LEMMA FirstRoundIs ==
    ASSUME TableTypes, NEW S \in SUBSET stored, NEW in, SelectionLimit(in.limit) \in Nat,
           NEW first, first = [x \in S |-> SelectedRefs(x, in)]
    PROVE  /\ RoundInv(S, FirstRound(first))
           /\ \A x \in S : /\ FirstRound(first).ids[x] = SelectedRefs(x, in)
                           /\ FirstRound(first).met[x] = {x} \union Elems(SelectedRefs(x, in))
<1>0. S \in SUBSET Events
  BY StoredAreEvents
<1>1. \A x \in S : SelectedRefs(x, in) \in Seq(Events)
  BY <1>0, SelectionIsSeq
<1>2. first \in [S -> Seq(Events)] /\ \A x \in S : first[x] = SelectedRefs(x, in)
  BY <1>1
<1>3. PICK met : met = [e \in DOMAIN first |-> {e} \union Elems(first[e])]
  OBVIOUS
<1>4. met \in [S -> SUBSET Events] /\ \A x \in S : met[x] = {x} \union Elems(first[x])
  <2>1. DOMAIN first = S
    BY <1>2
  <2>2. \A x \in S : {x} \union Elems(first[x]) \in SUBSET Events
    <3> TAKE x \in S
    <3>1. first[x] \in Seq(Events) /\ x \in Events
      BY <1>0, <1>2
    <3> QED
      BY <3>1 DEF Elems
  <2> QED
    BY <1>3, <2>1, <2>2
<1>5. PICK w : w = [ids |-> first, met |-> met, fetched |-> {}]
  OBVIOUS
<1>6. w \in Rounds(S) /\ w.ids = first /\ w.met = met
  BY <1>2, <1>4, <1>5 DEF Rounds
<1>7. FirstRound(first) = Fetching(w)
  BY <1>3, <1>5 DEF FirstRound
<1>8. PICK r : r = Fetching(w)
  OBVIOUS
<1>9. /\ r \in Rounds(S) /\ r.ids = first /\ r.met = met
      /\ \A x \in S : \A y \in Elems(first[x]) : y \in r.fetched <=> y \in stored
  BY <1>6, <1>8, FetchingKeeps
<1>10. RoundInv(S, r)
  BY <1>4, <1>9 DEF RoundInv
<1>11. \A x \in S : r.ids[x] = SelectedRefs(x, in) /\ r.met[x] = {x} \union Elems(SelectedRefs(x, in))
  BY <1>2, <1>4, <1>9
<1> QED
  BY <1>7, <1>8, <1>10, <1>11

\* After a round every source has moved on as it would alone.
AfterRound(S, w, v, in) ==
    /\ RoundInv(S, v)
    /\ \A x \in S : /\ v.ids[x] = MoveOn(w.ids[x], w.met[x], stored, in).ids
                    /\ v.met[x] = MoveOn(w.ids[x], w.met[x], stored, in).met

\* That is what a round does.
LEMMA NextRoundIs ==
    ASSUME TableTypes, NEW S \in SUBSET stored, NEW w, RoundInv(S, w), NEW in, SelectionLimit(in.limit) \in Nat
    PROVE  AfterRound(S, w, NextRound(w, in), in)
<1>1. /\ w \in Rounds(S) /\ w.ids \in [S -> Seq(Events)] /\ w.met \in [S -> SUBSET Events] /\ w.fetched \in SUBSET stored
      /\ DOMAIN w.ids = S
  BY DEF RoundInv, Rounds
<1>2. PICK to : to = [e \in DOMAIN w.ids |-> MoveOn(w.ids[e], w.met[e], w.fetched, in)]
  OBVIOUS
<1>3. NextRound(w, in) = Moved(w, to)
  BY <1>2 DEF NextRound
<1>4. DOMAIN to = S
  BY <1>1, <1>2
<1>5. \A x \in S : to[x] = MoveOn(w.ids[x], w.met[x], stored, in)
  <2> TAKE x \in S
  <2>1. PICK ids : ids = w.ids[x]
    OBVIOUS
  <2>2. PICK met : met = w.met[x]
    OBVIOUS
  <2>3. ids \in Seq(Events) /\ met \in SUBSET Events
    BY <1>1, <2>1, <2>2
  <2>4. \A y \in Elems(ids) : y \in w.fetched <=> y \in stored
    BY <2>1 DEF RoundInv
  <2>5. MoveOn(ids, met, w.fetched, in) = MoveOn(ids, met, stored, in)
    BY <2>3, <2>4, MoveOnOwn
  <2>6. to[x] = MoveOn(ids, met, w.fetched, in)
    BY <1>1, <1>2, <2>1, <2>2
  <2> QED
    BY <2>1, <2>2, <2>5, <2>6
<1>6. \A x \in S : /\ to[x] \in Sources
                   /\ w.met[x] \subseteq to[x].met /\ Elems(to[x].ids) \subseteq to[x].met
                   /\ \A y \in to[x].met : y \in w.met[x] \/ y \in Elems(to[x].ids)
  <2> TAKE x \in S
  <2>1. PICK ids : ids = w.ids[x]
    OBVIOUS
  <2>2. PICK met : met = w.met[x]
    OBVIOUS
  <2>3. ids \in Seq(Events) /\ met \in SUBSET Events /\ Elems(ids) \subseteq met
    BY <1>1, <2>1, <2>2 DEF RoundInv
  <2>4. PICK m : m = MoveOn(ids, met, stored, in)
    OBVIOUS
  <2>5. m \in Sources /\ Further([ids |-> ids, met |-> met], m)
    BY <2>3, <2>4, MoveOnKeeps
  <2>6. to[x] = m
    BY <1>5, <2>1, <2>2, <2>4
  <2>7. [ids |-> ids, met |-> met].met = met
    OBVIOUS
  <2> QED
    BY <2>2, <2>5, <2>6, <2>7 DEF Further
<1>7. CASE \A e \in DOMAIN to : to[e].ids = w.ids[e]
  <2>1. NextRound(w, in) = w
    BY <1>3, <1>7 DEF Moved
  <2>2. \A x \in S : w.ids[x] = to[x].ids /\ w.met[x] = to[x].met
    <3> TAKE x \in S
    <3>1. to[x].ids = w.ids[x]
      BY <1>4, <1>7
    <3>2. Elems(w.ids[x]) \subseteq w.met[x]
      BY DEF RoundInv
    <3>3. \A y \in to[x].met : y \in w.met[x]
      BY <1>6, <3>1, <3>2
    <3> QED
      BY <1>6, <3>1, <3>3
  <2> QED
    BY <1>5, <2>1, <2>2 DEF AfterRound
<1>8. CASE ~\A e \in DOMAIN to : to[e].ids = w.ids[e]
  <2>1. PICK v : v = [w EXCEPT !.ids = [e \in DOMAIN to |-> to[e].ids], !.met = [e \in DOMAIN to |-> to[e].met]]
    OBVIOUS
  <2>2. NextRound(w, in) = Fetching(v)
    BY <1>3, <1>8, <2>1 DEF Moved
  <2>3. \A x \in S : to[x].ids \in Seq(Events) /\ to[x].met \in SUBSET Events
    BY <1>6 DEF Sources
  <2>4. v.ids = [e \in S |-> to[e].ids] /\ v.met = [e \in S |-> to[e].met] /\ v.fetched = w.fetched
    BY <1>1, <1>4, <2>1 DEF Rounds
  <2>5. v \in Rounds(S)
    <3>1. [e \in S |-> to[e].ids] \in [S -> Seq(Events)] /\ [e \in S |-> to[e].met] \in [S -> SUBSET Events]
      BY <2>3
    <3> QED
      BY <1>1, <1>4, <2>1, <3>1 DEF Rounds
  <2>6. PICK r : r = Fetching(v)
    OBVIOUS
  <2>7. /\ r \in Rounds(S) /\ r.ids = v.ids /\ r.met = v.met
        /\ \A x \in S : \A y \in Elems(v.ids[x]) : y \in r.fetched <=> y \in stored
    BY <2>5, <2>6, FetchingKeeps
  <2>8. \A x \in S : r.ids[x] = to[x].ids /\ r.met[x] = to[x].met
    BY <2>4, <2>7
  <2>9. RoundInv(S, r)
    BY <1>6, <2>7, <2>8 DEF RoundInv
  <2> QED
    BY <1>5, <2>2, <2>6, <2>8, <2>9 DEF AfterRound
<1> QED
  BY <1>7, <1>8

\* Two rounds.
TwoRounds(S, in) == NextRound(NextRound(FirstRound([e \in S |-> SelectedRefs(e, in)]), in), in)

\* The answer for a depth of two is what they give.
LEMMA SelectsInRounds ==
    ASSUME NEW S, NEW in, in.depth = 2
    PROVE  SelectedReferences(S, in) = FetchedOf(TwoRounds(S, in))
<1> DEFINE a == FirstRound([e \in S |-> SelectedRefs(e, in)])
           walk[d \in 0..in.depth] == IF d = 0 THEN a ELSE NextRound(walk[d - 1], in)
           Is(f) == f = [d \in 0..in.depth |-> IF d = 0 THEN a ELSE NextRound(f[d - 1], in)]
           b == NextRound(a, in)
           c == NextRound(b, in)
           w == [d \in 0..2 |-> IF d = 0 THEN a ELSE IF d = 1 THEN b ELSE c]
<1>1. SelectedReferences(S, in) = FetchedOf(walk[in.depth])
  BY DEF SelectedReferences
<1>2. walk = CHOOSE f : Is(f)
  OBVIOUS
<1>3. TwoRounds(S, in) = c
  BY DEF TwoRounds
<1> HIDE DEF walk, a
<1>4. Is(w)
  <2>1. w[0] = a /\ w[1] = b /\ w[2] = c
    OBVIOUS
  <2>2. \A d \in 0..2 : d = 0 \/ d = 1 \/ d = 2
    OBVIOUS
  <2>3. b = NextRound(w[1 - 1], in) /\ c = NextRound(w[2 - 1], in)
    BY <2>1
  <2>4. w = [d \in 0..2 |-> w[d]]
    OBVIOUS
  <2> HIDE DEF w, b, c
  <2>5. \A d \in 0..2 : w[d] = IF d = 0 THEN a ELSE NextRound(w[d - 1], in)
    BY <2>1, <2>2, <2>3
  <2> QED
    BY <2>4, <2>5
<1>5. Is(walk)
  <2> HIDE DEF Is
  <2> QED
    BY <1>2, <1>4
<1>6. walk[0] = a
  BY <1>5
<1>7. walk[1] = NextRound(walk[0], in)
  <2>1. 1 \in 0..in.depth /\ 1 # 0 /\ 1 - 1 = 0
    OBVIOUS
  <2> QED
    BY <1>5, <2>1
<1>8. walk[2] = NextRound(walk[1], in)
  <2>1. 2 \in 0..in.depth /\ 2 # 0 /\ 2 - 1 = 1
    OBVIOUS
  <2> QED
    BY <1>5, <2>1
<1> QED
  BY <1>1, <1>3, <1>6, <1>7, <1>8

\* The answer for e is the one it has alone.
AsAlone(e, all, one) == all[e] = one[e]
IsFunOn(f, S) == f = [x \in S |-> f[x]]

\* What an event selects does not depend on the list that it is in.
LEMMA SelectionAsAlone ==
    ASSUME TableTypes, NEW S \in SUBSET stored, NEW e \in S, NEW in, SelectionLimit(in.limit) \in Nat, in.depth = 2
    PROVE  /\ AsAlone(e, SelectedReferences(S, in), SelectedReferences({e}, in))
           /\ IsFunOn(SelectedReferences(S, in), S)
<1> DEFINE first(R) == [x \in R |-> SelectedRefs(x, in)]
           w0(R) == FirstRound(first(R))
           w1(R) == NextRound(w0(R), in)
           w2(R) == NextRound(w1(R), in)
           MA(m) == MoveOn(m.ids, m.met, stored, in)
           m0 == [ids |-> SelectedRefs(e, in), met |-> {e} \union Elems(SelectedRefs(e, in))]
<1>1. ASSUME NEW R \in SUBSET stored, e \in R
      PROVE  /\ RoundInv(R, w0(R)) /\ RoundInv(R, w1(R)) /\ RoundInv(R, w2(R))
             /\ w0(R).ids[e] = m0.ids /\ w0(R).met[e] = m0.met
             /\ w1(R).ids[e] = MoveOn(w0(R).ids[e], w0(R).met[e], stored, in).ids
             /\ w1(R).met[e] = MoveOn(w0(R).ids[e], w0(R).met[e], stored, in).met
             /\ w2(R).ids[e] = MoveOn(w1(R).ids[e], w1(R).met[e], stored, in).ids
  <2>1. PICK f : f = first(R)
    OBVIOUS
  <2>2. PICK a : a = FirstRound(f)
    OBVIOUS
  <2>3. RoundInv(R, a) /\ a.ids[e] = m0.ids /\ a.met[e] = m0.met
    BY <1>1, <2>1, <2>2, FirstRoundIs
  <2>4. PICK b : b = NextRound(a, in)
    OBVIOUS
  <2>5. RoundInv(R, b) /\ b.ids[e] = MoveOn(a.ids[e], a.met[e], stored, in).ids /\ b.met[e] = MoveOn(a.ids[e], a.met[e], stored, in).met
    <3>1. RoundInv(R, a)
      BY <2>3
    <3>2. AfterRound(R, a, NextRound(a, in), in)
      BY <3>1, NextRoundIs
    <3> QED
      BY <1>1, <2>4, <3>2 DEF AfterRound
  <2>6. PICK c : c = NextRound(b, in)
    OBVIOUS
  <2>7. RoundInv(R, c) /\ c.ids[e] = MoveOn(b.ids[e], b.met[e], stored, in).ids
    <3>1. RoundInv(R, b)
      BY <2>5
    <3>2. AfterRound(R, b, NextRound(b, in), in)
      BY <3>1, NextRoundIs
    <3> QED
      BY <1>1, <2>6, <3>2 DEF AfterRound
  <2> HIDE DEF m0, first
  <2> QED
    BY <2>1, <2>2, <2>3, <2>4, <2>5, <2>6, <2>7
<1>2. ASSUME NEW R \in SUBSET stored, e \in R
      PROVE  /\ SelectedReferences(R, in)[e] = Kept(w2(R).ids[e], stored)
             /\ SelectedReferences(R, in) = [x \in R |-> Kept(w2(R).ids[x], w2(R).fetched)]
  <2>1. SelectedReferences(R, in) = FetchedOf(w2(R))
    BY SelectsInRounds DEF TwoRounds
  <2>2. RoundInv(R, w2(R))
    BY <1>1, <1>2
  <2> HIDE DEF w2
  <2>3. DOMAIN w2(R).ids = R /\ \A y \in Elems(w2(R).ids[e]) : y \in w2(R).fetched <=> y \in stored
    BY <1>2, <2>2 DEF RoundInv, Rounds
  <2>4. SelectedReferences(R, in) = [x \in R |-> Kept(w2(R).ids[x], w2(R).fetched)]
    BY <2>1, <2>3 DEF FetchedOf
  <2>5. Kept(w2(R).ids[e], w2(R).fetched) = Kept(w2(R).ids[e], stored)
    BY <2>3, KeptOfSame
  <2> QED
    BY <1>2, <2>4, <2>5
<1>3. {e} \in SUBSET stored /\ e \in {e}
  OBVIOUS
<1> HIDE DEF w0, w1, w2, m0
<1>4. w2(S).ids[e] = w2({e}).ids[e]
  <2>1. w0(S).ids[e] = w0({e}).ids[e] /\ w0(S).met[e] = w0({e}).met[e]
    BY <1>1, <1>3
  <2>2. w1(S).ids[e] = w1({e}).ids[e] /\ w1(S).met[e] = w1({e}).met[e]
    BY <1>1, <1>3, <2>1
  <2> QED
    BY <1>1, <1>3, <2>2
<1>5. SelectedReferences(S, in)[e] = SelectedReferences({e}, in)[e]
  BY <1>2, <1>3, <1>4
<1>6. SelectedReferences(S, in) = [x \in S |-> Kept(w2(S).ids[x], w2(S).fetched)]
  BY <1>2
<1> QED
  BY <1>5, <1>6 DEF AsAlone, IsFunOn

-----------------------------------------------------------------------------
(* Whatever list an event is in *)

\* What is selected for two events is what is selected for each.
LEMMA PairsAsAlone ==
    ASSUME TableTypes, NEW S \in SUBSET stored, S # {}, NEW in, SelectionLimit(in.limit) \in Nat, in.depth = 2
    PROVE  SelectedReferences(S, in) = [x \in S |-> SelectedReferences({x}, in)[x]]
<1>1. PICK s : s = SelectedReferences(S, in)
  OBVIOUS
<1>2. \A x \in S : s[x] = SelectedReferences({x}, in)[x]
  <2> TAKE x \in S
  <2>1. SelectedReferences(S, in)[x] = SelectedReferences({x}, in)[x]
    BY SelectionAsAlone DEF AsAlone
  <2> QED
    BY <1>1, <2>1
<1>3. s = [x \in S |-> s[x]]
  <2>1. IsFunOn(SelectedReferences(S, in), S)
    BY SelectionAsAlone
  <2> QED
    BY <1>1, <2>1 DEF IsFunOn
<1> QED
  BY <1>1, <1>2, <1>3

\* What belongs to an event is the same in every list.
LEMMA AllAsAlone == TableTypes => RelationsAsAlone
<1> SUFFICES ASSUME TableTypes PROVE RelationsAsAlone
  OBVIOUS
<1>1. \A sel \in {<<{"root"}, {"reply"}>>, <<{"reply"}>>}, n \in 1..2 :
          LET in == [AnySelection EXCEPT !.selectors = sel, !.fallback = AnyMarker, !.last = (n = 1),
                                         !.limit = n, !.depth = 2]
              alone == [e \in stored |-> SelectedReferences({e}, in)[e]]
          IN  \A e, f \in stored : e < f => SelectedReferences({e, f}, in) = [x \in {e, f} |-> alone[x]]
  <2> SUFFICES ASSUME NEW sel \in {<<{"root"}, {"reply"}>>, <<{"reply"}>>}, NEW n \in 1..2,
                      NEW e \in stored, NEW f \in stored, e < f
               PROVE  LET in == [AnySelection EXCEPT !.selectors = sel, !.fallback = AnyMarker, !.last = (n = 1),
                                                     !.limit = n, !.depth = 2]
                          alone == [x \in stored |-> SelectedReferences({x}, in)[x]]
                      IN  SelectedReferences({e, f}, in) = [x \in {e, f} |-> alone[x]]
    OBVIOUS
  <2> DEFINE in == [AnySelection EXCEPT !.selectors = sel, !.fallback = AnyMarker, !.last = (n = 1),
                                        !.limit = n, !.depth = 2]
             alone == [x \in stored |-> SelectedReferences({x}, in)[x]]
  <2>1. SelectionLimit(in.limit) \in Nat /\ in.depth = 2
    <3>1. in.limit = n /\ in.depth = 2
      BY DEF AnySelection
    <3> QED
      BY <3>1 DEF SelectionLimit
  <2> HIDE DEF in
  <2>2. {e, f} \in SUBSET stored /\ {e, f} # {}
    OBVIOUS
  <2>3. SelectedReferences({e, f}, in) = [x \in {e, f} |-> SelectedReferences({x}, in)[x]]
    BY <2>1, <2>2, PairsAsAlone
  <2>4. \A x \in {e, f} : alone[x] = SelectedReferences({x}, in)[x]
    OBVIOUS
  <2> HIDE DEF alone
  <2>5. SelectedReferences({e, f}, in) = [x \in {e, f} |-> alone[x]]
    BY <2>3, <2>4
  <2> QED
    BY <2>5 DEF in, alone
<1>2. RepliesFit =>
          LET own == [e \in stored |-> {Author[e]}]
              all == AuthoredChains(stored, own, 2, MaxLimit)
          IN  \A e \in stored : all[e] = AuthoredChains({e}, own, 2, MaxLimit)[e]
  <2> SUFFICES ASSUME RepliesFit, NEW e \in stored
               PROVE  AuthoredChains(stored, Own, 2, MaxLimit)[e] = AuthoredChains({e}, Own, 2, MaxLimit)[e]
    BY DEF Own
  <2>1. stored \in SUBSET stored /\ 2 \in Nat
    OBVIOUS
  <2> QED
    BY <2>1, ChainsAsAlone
<1>3. \A n \in 1..Least(2, Least(MaxLimit, ThreadMax)) :
          LET all == RankedRepliesOf(stored, "new", n, 0)
          IN  \A e \in stored : all[e] = RankedRepliesOf({e}, "new", n, 0)[e] /\ all[e] = RepliesReferencing(AnyEvent, e, n)
  <2> SUFFICES ASSUME NEW n \in 1..Least(2, Least(MaxLimit, ThreadMax)), NEW e \in stored
               PROVE  /\ RankedRepliesOf(stored, "new", n, 0)[e] = RankedRepliesOf({e}, "new", n, 0)[e]
                      /\ RankedRepliesOf(stored, "new", n, 0)[e] = RepliesReferencing(AnyEvent, e, n)
    OBVIOUS
  <2>1. n \in 1..MaxLimit /\ n \in 1..ThreadMax
    BY MostIsAllowed, ThreadAssumption DEF Least
  <2>2. stored \in SUBSET stored /\ {e} \in SUBSET stored /\ e \in {e}
    OBVIOUS
  <2>3. RankedRepliesOf(stored, "new", n, 0)[e] = Page(Newest(DirectReplies(e)), 0, n)
    BY <2>1, <2>2, RankedAsAlone
  <2>4. RankedRepliesOf({e}, "new", n, 0)[e] = Page(Newest(DirectReplies(e)), 0, n)
    BY <2>1, <2>2, RankedAsAlone
  <2>5. RepliesReferencing(AnyEvent, e, n) = Page(Newest(DirectReplies(e)), 0, n)
    BY <2>1, RepliesByIds
  <2> QED
    BY <2>3, <2>4, <2>5
<1> QED
  BY <1>1, <1>2, <1>3 DEF RelationsAsAlone

\* What is resolved for an event is the same whatever list it is in: the events that it
\* selects, the chain of its author's replies when one query has room for the replies, and
\* its direct replies, which a query for their ids gives too (loadSelectedReferencesBatch,
\* loadAuthoredReplyChainsBatch, loadDirectRepliesRankedBatch).
THEOREM ReadsRelationsAsAlone == Spec => []RelationsAsAlone
  BY AllAsAlone, ReadTables, PTL
=============================================================================
