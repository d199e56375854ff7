----------------------------- MODULE RankedFeed -----------------------------
(***************************************************************************)
(* rankedEvents of GraphQL, and the ranked feed of REST that shares its    *)
(* core: candidates are the events that most refer to, or the rows of      *)
(* note_rank_features; they are scored by weighted terms, then by what a   *)
(* viewer adds, and cut to a page.  A schema keeps pools of candidates     *)
(* with their scores for all viewers, computed once at a time for a key.   *)
(*                                                                         *)
(* Terms are the likes, the reposts and the score of the author.  Recency, *)
(* contribution scores, sums of sats and the shuffle are left out: each    *)
(* adds a number to the score of an event, as the ones here do.            *)
(***************************************************************************)
EXTENDS Rollup

CONSTANTS
    PoolDepth, PoolMax,        \* 250 candidates, 64 pools
    RankedMax, RankedDefault,  \* limits of a page, 100 and 30
    GroupMax, GroupDefault,    \* limits of an aggregate, 1000 and 100
    Log1p,                     \* Log1p[n]: what a term makes of a count
    Clients

ASSUME RankedAssumption ==
    /\ PoolDepth \in Nat /\ PoolMax \in Nat \ {0}
    /\ RankedMax \in Nat /\ RankedDefault \in 1..RankedMax
    /\ GroupMax \in Nat /\ GroupDefault \in Nat /\ RankedMax <= GroupMax
    /\ RankedMax + DefaultLimit <= MaxLimit + 1

VARIABLES
    pools,   \* basePoolCache: pools[k], the events and scores, and when their rows were read
    flights, \* the computations under way, by the client that began each: its candidates
             \* and when they were read
    asks     \* asks[c]: the request of a client that found no pool and whose computation
             \* it waits for; None for other clients

ranked == <<pools, flights, asks>>

\* A request: the kinds that count, of well followed authors only if "gate" is not -1;
\* the target; the weights of the terms; whom the viewer boosts, and by how much.
Weights == [likes |-> 0, reposts |-> 0, author |-> 0]
AnyRanking == [kinds |-> {7}, refs |-> 0, target |-> AnyEvent, weights |-> Weights, gate |-> -1,
               boosted |-> {}, boost |-> 0, limit |-> 0, offset |-> 0]

Rankings == [kinds : SUBSET Nat, refs : Nat, target : Filters,
             weights : [likes : Int, reposts : Int, author : Int], gate : Nat \union {-1},
             boosted : SUBSET Users, boost : Int, limit : Int, offset : Int]

IsWeighted(r) == r.weights # Weights

\* parseRankedEventsInput: as many rows as the page and what comes before it.
ParseRanked(m) ==
    LET n == IF m.limit <= 0 \/ m.limit > RankedMax THEN RankedDefault ELSE m.limit
        k == IF m.offset < 0 THEN 0 ELSE m.offset
    IN  [m EXCEPT !.limit = n, !.offset = k, !.refs = IF n + k > GroupMax THEN n ELSE n + k,
                  !.target.limit = n]

-----------------------------------------------------------------------------
(* Candidates *)

HasFilters(t) == t.ids # {} \/ t.authors # {} \/ t.tags # {} \/ t.since > 0 \/ t.until > 0

\* rankedEventRows: how many have referred to a target, stored or not when only kinds
\* are asked for; of those with the most, any that the limit leaves.
RowCounts(r) ==
    LET q == [AnyEvent EXCEPT !.kinds = r.kinds, !.followers = r.gate]
    IN  IF HasFilters(r.target) THEN ReferenceCounts(q, "e", r.target) ELSE TagCounts(q, "e")

RowSets(r) == TopGroups(RowCounts(r), Limited(r.refs, GroupMax, GroupDefault))

\* The rows in their order, those of one count in any.
RowOrders(r) ==
    LET f == RowCounts(r)
    IN  UNION {{s \in Orders(G) : \A i, j \in DOMAIN s : i < j => f[s[i]] >= f[s[j]]} : G \in RowSets(r)}

\* queryEvents for candidates.
TargetEvents(r, ids) ==
    IF ids = {} THEN <<>>
    ELSE QueryEvents([r.target EXCEPT !.ids = ids, !.limit = Cardinality(ids)])

-----------------------------------------------------------------------------
(* Scores *)

LikesOf(e, kinds, gate) ==
    LET q == [AnyEvent EXCEPT !.kinds = kinds, !.followers = gate]
    IN  Cardinality({u \in Users : ByTargetCounts(q, "e", e, MaxLimit).byAuthor[u] > 0})

\* applyPubkeyScoreRankTerm: of authors with enough followers.
AuthorScore(u, gate) == IF WellFollowed(u, gate) THEN Score[u] ELSE 0

\* weightedRankBaseScores
BaseScore(r, e) ==
    r.weights.likes * Log1p[LikesOf(e, {7}, r.gate)] + r.weights.reposts * Log1p[LikesOf(e, {6, 16}, r.gate)]
    + r.weights.author * AuthorScore(Author[e], r.gate)

\* RankedEventsByFeatures
FeatureScore(r, n) ==
    r.weights.likes * Log1p[features[n].real.likes] + r.weights.reposts * Log1p[features[n].real.reposts]
    + r.weights.author * (IF WellFollowed(Author[n], r.gate) THEN features[n].score ELSE 0)

\* finalizeRankedIDs
Finalize(r, S, scores) ==
    LET final(e) == scores[e] + (IF Author[e] \in r.boosted THEN r.boost ELSE 0)
        above(e, f) == final(e) > final(f) \/ (final(e) = final(f) /\ Newer(e, f))
    IN  Page(Ordered(S, above), r.offset, r.limit)

\* rankedCandidateIDs: of as many rows as there are candidates, those that are one; then
\* the other candidates.
CandidateOrder(rs, candidates) ==
    LET placed == Kept(Page(rs, 0, Len(candidates)), Elems(candidates))
    IN  placed \o Kept(candidates, Elems(candidates) \ Elems(placed))

-----------------------------------------------------------------------------
(* The ways to a page; each of them gives one of a set, for ties of rows. *)

\* featureRankTargetIsGlobal, featureWeightsFromTerms
FeaturesCanServe(r) ==
    /\ IsWeighted(r) /\ ~HasFilters(r.target)
    /\ r.weights.likes + r.weights.reposts > 0 => r.gate >= 0

\* rankedEventViewsFromFeatures, for a window that starts at since.
FeatureIds(r, since) ==
    LET S == {e \in DOMAIN features : At[e] >= since /\ (r.target.kinds # {} => Kind[e] \in r.target.kinds)
                                                     /\ e \notin r.target.notIds /\ Author[e] \notin r.target.notAuthors}
        above(e, f) == \/ FeatureScore(r, e) > FeatureScore(r, f)
                       \/ FeatureScore(r, e) = FeatureScore(r, f) /\ Newer(e, f)
    IN  Elems(Page(Ordered(S, above), 0, PoolDepth))
FeaturePage(r, since) ==
    LET S == Elems(TargetEvents(r, FeatureIds(r, since)))
    IN  Finalize(r, S, [e \in S |-> FeatureScore(r, e)])

\* rankedEventViewsDirect
DirectPages(r) ==
    LET asked(s) == IF r.target.ids = {} THEN Elems(s) ELSE Elems(s) \intersect r.target.ids
        candidates(s) == TargetEvents(r, asked(s))
        scored(s) == [e \in Elems(candidates(s)) |-> BaseScore(r, e)]
    IN  {IF IsWeighted(r) \/ r.boosted # {} THEN Finalize(r, Elems(candidates(s)), scored(s))
         ELSE Page(CandidateOrder(s, candidates(s)), r.offset, r.limit) : s \in RowOrders(r)}

\* computeBasePool: the rows of the request, up to the depth of a pool.
PoolIds(r) == TopGroups(RowCounts(r), Least(PoolDepth, Limited(r.refs, GroupMax, GroupDefault)))

\* Its second half, with what is stored by then.
PoolOf(r, ids) ==
    LET S == Elems(TargetEvents(r, ids))
    IN  [events |-> S, scores |-> [e \in S |-> BaseScore(r, e)]]

PoolPages(r) == {Finalize(r, PoolOf(r, ids).events, PoolOf(r, ids).scores) : ids \in PoolIds(r)}

\* Mutant of PoolKey: all requests for the same candidates share a pool.
KeyWithoutWeights(r) == [r EXCEPT !.boosted = {}, !.boost = 0, !.limit = 0, !.offset = 0, !.weights = Weights]

\* basePoolKey leaves out what is a viewer's or a page's; how many rows are counted, and
\* the limit of the target, are not left out.
PoolKey(r) == [r EXCEPT !.boosted = {}, !.boost = 0, !.limit = 0, !.offset = 0]

-----------------------------------------------------------------------------
(* basePoolCache *)

\* What has been inserted so far: rows, and tag rows with their copies.
Arrived == UNION {{e} \X (0..copies[e]) : e \in stored}

\* The feature rows serve a request when they know a candidate.
UsesPool(r) ==
    /\ IsWeighted(r) /\ r.target.ids = {}
    /\ FeaturesCanServe(r) => TargetEvents(r, FeatureIds(r, 0)) = <<>>

\* getOrCompute finds no pool that is fresh; one that it finds is answered from.
Miss(c, r) ==
    /\ asks[c] = None /\ UsesPool(r)
    /\ PoolKey(r) \in DOMAIN pools => ~pools[PoolKey(r)].fresh
    /\ asks' = [asks EXCEPT ![c] = [request |-> r, waitsFor |-> None]]
    /\ UNCHANGED <<pools, flights>>

\* Mutant of Under: everyone computes.
UnderNone(k) == {}

\* The computations of the key that are under way, by who began them.
Under(k) == {c \in DOMAIN flights : PoolKey(flights[c].request) = k}

\* A pool that has come in between is not looked for.
DoFlight(c) ==
    /\ asks[c] # None /\ asks[c].waitsFor = None
    /\ LET r == asks[c].request
       IN  \/ \E l \in Under(PoolKey(r)) : /\ asks' = [asks EXCEPT ![c].waitsFor = l]
                                           /\ UNCHANGED flights
           \/ /\ Under(PoolKey(r)) = {}
              /\ \E ids \in PoolIds(r) :
                    flights' = Put(flights, {c}, LAMBDA x : [request |-> r, ids |-> ids, asOf |-> Arrived])
              /\ asks' = [asks EXCEPT ![c].waitsFor = c]
    /\ UNCHANGED pools

\* A flight is over, for all who wait for it.
Over(l) ==
    /\ flights' = [c \in DOMAIN flights \ {l} |-> flights[c]]
    /\ asks' = [c \in Clients |-> IF asks[c] # None /\ asks[c].waitsFor = l THEN None ELSE asks[c]]

Fresh == [k \in {x \in DOMAIN pools : pools[x].fresh} |-> pools[k]]

\* sweepExpiredLocked: all of it goes when there is no room.
Swept == IF Cardinality(DOMAIN Fresh) >= PoolMax THEN <<>> ELSE Fresh

FlightEnds(l) ==
    /\ l \in DOMAIN flights
    /\ LET f == flights[l]
       IN  pools' = Put(Swept, {PoolKey(f.request)},
                        LAMBDA k : [pool |-> PoolOf(f.request, f.ids), asOf |-> f.asOf, fresh |-> TRUE])
    /\ Over(l)

\* A query fails, or the client who began it goes away: whoever waits gets the error.
FlightFails(l) == l \in DOMAIN flights /\ Over(l) /\ UNCHANGED pools

\* Time passes.
Expire(k) ==
    /\ k \in DOMAIN pools /\ pools[k].fresh
    /\ pools' = [pools EXCEPT ![k].fresh = FALSE]
    /\ UNCHANGED <<flights, asks>>

Ask == \/ \E c \in Clients : DoFlight(c) \/ FlightEnds(c) \/ FlightFails(c)
       \/ \E k \in DOMAIN pools : Expire(k)
=============================================================================
