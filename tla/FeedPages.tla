------------------------------ MODULE FeedPages ------------------------------
(***************************************************************************)
(* Pages that are scrolled by time: the feeds of authors, the viewer's own *)
(* history, direct messages and filtered queries, and what a feed resolves *)
(* for its items: originals, thread roots and quoted events.  A page ends  *)
(* with a time, and the next one has what is strictly older.               *)
(***************************************************************************)
EXTENDS SocialReads

CONSTANTS
    FeedMax, FeedDefault,  \* limits of FollowsFeed, 100 and 30
    DmMax, DmDefault,      \* limits of direct message pages, 200 and 50
    RootHops               \* 8

ASSUME FeedAssumption ==
    /\ FeedMax \in Nat /\ FeedDefault \in 1..FeedMax /\ RootHops \in Nat \ {0}
    /\ 2 * FeedMax <= MaxLimit
    /\ DmMax \in Nat /\ DmDefault \in 1..DmMax /\ DmMax <= MaxLimit

-----------------------------------------------------------------------------
(* Feeds *)

FeedKinds == {1, 6, 16}
DmKinds == {4, 1059}

\* Mutant of FollowsFeed: the second before the page's end is left out too.
FeedBeforeSecond(P, until, n, k) ==
    IF P = {} THEN <<>>
    ELSE Page(Newest({e \in stored : /\ Author[e] \in P /\ Kind[e] \in FeedKinds
                                     /\ until > 0 => At[e] < until - 1}),
              k, Limited(n, FeedMax, FeedDefault))

\* FollowsFeed: nothing without authors.
FollowsFeed(P, until, n, k) ==
    IF P = {} THEN <<>>
    ELSE Page(Newest({e \in stored : /\ Author[e] \in P /\ Kind[e] \in FeedKinds
                                     /\ until > 0 => At[e] < until}),
              k, Limited(n, FeedMax, FeedDefault))

OldestTime(s) == IF s = <<>> THEN 0
                 ELSE CHOOSE t \in {At[s[i]] : i \in DOMAIN s} : \A i \in DOMAIN s : t <= At[s[i]]

IsRepost(e) == Kind[e] \in {6, 16}

-----------------------------------------------------------------------------
(* Roots *)

\* rootEventID
RootTag(e) ==
    LET marked == {i \in DOMAIN ETags[e] : ETags[e][i].marker = "root"}
        other == {i \in DOMAIN ETags[e] : ETags[e][i].marker \in {"", "reply"}}
        first(I) == ETags[e][CHOOSE i \in I : \A j \in I : i <= j].to
        root == IF marked # {} THEN first(marked) ELSE IF other # {} THEN first(other) ELSE None
    IN  IF root = e THEN None ELSE root

\* Each event moves on to the root of its root, when that one was fetched.
MoveRoots(w, next, moves) ==
    [root |-> [e \in DOMAIN next |-> IF e \in moves THEN next[e] ELSE w.root[e]],
     path |-> [e \in DOMAIN next |-> w.path[e] \union IF e \in moves THEN {next[e]} ELSE {}],
     fetched |-> w.fetched,
     pending |-> {next[e] : e \in moves}]
RootMoves(w, next) ==
    MoveRoots(w, next, {e \in DOMAIN next : next[e] # None /\ next[e] \notin {e} \union w.path[e]})
FollowRoots(w, S) ==
    RootMoves(w, [e \in S |-> IF w.root[e] \in w.fetched THEN RootTag(w.root[e]) ELSE None])

\* One round of rootEvents: nothing moves when all that is pending was fetched before.
FetchRoots(w, S) ==
    IF w.pending \subseteq w.fetched THEN [w EXCEPT !.pending = {}]
    ELSE FollowRoots([w EXCEPT !.fetched = @ \union EventsByIds(w.pending \ w.fetched)], S)

FirstRoots(S) == [root |-> [e \in S |-> RootTag(e)], path |-> [e \in S |-> {RootTag(e)}],
                  fetched |-> {}, pending |-> {RootTag(e) : e \in S}]

\* rootEvents: how far the events of a page that have a root got.
RootWalk(page) ==
    LET S == {e \in page : RootTag(e) # None}
        walk[d \in 0..RootHops] == IF d = 0 THEN FirstRoots(S) ELSE FetchRoots(walk[d - 1], S)
    IN  walk[RootHops]
RootEvents(page) == RootWalk(page).root

\* feedResponse: what the items of a page show beside them: what is reposted, and the
\* roots of that and of the notes, as far as they were fetched.
Originals(s) == EventsByIds({FirstETag(e) : e \in {f \in Elems(s) : IsRepost(f)}} \ {None})
RootsOf(S, w) == {w.root[e] : e \in S \intersect DOMAIN w.root} \intersect w.fetched
WithRoots(notes, originals, page) == page \union RootsOf(notes \union originals, RootWalk(page))
WithQuoted(S) == S \union EventsByIds(UNION {QTags[e] : e \in S})
Hydrated(s) ==
    WithQuoted(WithRoots({e \in Elems(s) : ~IsRepost(e)}, Originals(s), Elems(s) \union Originals(s)))

-----------------------------------------------------------------------------
(* The viewer's own history *)

OwnKinds == [authored |-> {1, 1111}, replies |-> {1, 1111}, likes |-> {7}, reposts |-> {6, 16},
             bookmarks |-> {10003}, follows |-> {3}, mutes |-> {10000}, relays |-> {10002}]

OwnQuery(u, type, until, cursor, n) ==
    QueryEvents([AnyEvent EXCEPT !.authors = {u}, !.kinds = OwnKinds[type], !.until = until,
                                 !.notIds = cursor, !.limit = n])

\* filterOwnByActionType, after the page is cut.
OwnHistory(u, type, until, cursor, n) ==
    LET s == OwnQuery(u, type, until, cursor, n)
    IN  Kept(s, {e \in Elems(s) : type \in {"authored", "replies"} => (ETags[e] # <<>>) = (type = "replies")})

-----------------------------------------------------------------------------
(* Filtered queries and direct messages *)

\* eventsQuery: a query that says nothing is refused.
EventsPage(q) ==
    LET n == IF q.limit = 0 \/ q.limit > MaxLimit THEN MaxLimit ELSE q.limit
        s == QueryEvents([q EXCEPT !.limit = n])
    IN  [events |-> s, hasNext |-> Len(s) >= n]

DmLimit(n) == IF n <= 0 THEN DmDefault ELSE IF n > DmMax THEN DmMax ELSE n

To(u) == {[AnyTag EXCEPT !.key = "p", !.values = {u}]}
DmQuery(from, to, kinds, until, n) ==
    Elems(QueryEvents([AnyEvent EXCEPT !.authors = from, !.tags = to, !.kinds = kinds,
                                       !.until = until, !.limit = DmLimit(n)]))

\* mergeDmEnvelopes
MergeEnvelopes(sent, got, n) == Page(Newest(sent \union got), 0, DmLimit(n))

\* dmEnvelopes
DmEnvelopes(u, kinds, until, n) ==
    MergeEnvelopes(DmQuery({u}, {}, kinds, until, n), DmQuery({}, To(u), kinds, until, n), n)

\* dmConversation: old messages between the two, and all wraps, which say nothing.
DmConversation(u, other, kinds, until, n) ==
    LET direct == kinds \intersect {4}
        wraps == kinds \ {4}
        sent == IF direct = {} THEN {} ELSE DmQuery({u}, IF other = None THEN {} ELSE To(other), direct, until, n)
        got == IF direct = {} THEN {}
               ELSE DmQuery(IF other = None THEN {} ELSE {other}, To(u), direct, until, n)
        wrapped == IF wraps = {} THEN {} ELSE DmQuery({}, To(u), wraps, until, n)
    IN  MergeEnvelopes(sent, got \union wrapped, n)
=============================================================================
