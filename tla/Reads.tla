------------------------------- MODULE Reads -------------------------------
(***************************************************************************)
(* The reads of the store and of the app-view as events arrive, in small   *)
(* deployments that a mode stands for: which events there are, which of    *)
(* them are delivered twice, whose tags come a step after the row, how far *)
(* ticks of the rollup get, and who scrolls through what.  A client asks   *)
(* for page after page while events arrive between them.                   *)
(***************************************************************************)
EXTENDS RankedFeed, EventRelations, NotificationPages, FeedPages

CONSTANTS Modes, Deploy \* Deploy[m]: the record that MCReads describes

ASSUME DeployAssumption ==
    \A m \in Modes : /\ Deploy[m].events \subseteq Events /\ Deploy[m].limit \in Nat
                    /\ Deploy[m].viewer \in Users /\ Deploy[m].authors \subseteq Users
                    /\ Deploy[m].other \in Users
                    /\ Deploy[m].requests \subseteq Rankings

VARIABLES
    mode,
    scroll \* the client's: its kind, until, cursor, what it saw, what was there, page ends

vars == <<mode, scroll, stored, copies, stats, edges, counted, real, features, tick, noted,
          pools, flights, asks>>

Here == Deploy[mode]
Viewer == Here.viewer

NoScroll == [state |-> "new", kind |-> "", until |-> 0, cursor |-> {}, seen |-> {},
             snap |-> {}, ends |-> {}, cut |-> FALSE]

Init ==
    /\ mode \in Modes
    /\ stored = {} /\ copies = <<>>
    /\ stats = [u \in Users |-> None]
    /\ edges = {} /\ counted = {}
    /\ real = <<>> /\ features = <<>> /\ tick = Idle
    /\ noted = [v \in Users |-> <<>>]
    /\ pools = <<>> /\ flights = <<>> /\ asks = [c \in Clients |-> None]
    /\ scroll = NoScroll

-----------------------------------------------------------------------------
(* Events arrive *)

\* Two of InsertEvents' sends; the rows come first.  An event that is delivered again
\* has its tag rows again.
InsertRow(e) ==
    /\ e \notin stored
    /\ stored' = stored \union {e}
    /\ copies' = Put(copies, {e}, LAMBDA x : IF x \in Here.late THEN 0 ELSE 1)

InsertTags(e) ==
    /\ e \in stored
    /\ copies[e] < (IF e \in Here.again THEN 2 ELSE 1)
    /\ copies' = [copies EXCEPT ![e] = @ + 1]
    /\ UNCHANGED stored

\* Bounds: while a tick runs no more events arrive than the deployment says, and none
\* once the read-model is filled (what it does with later ones is NotificationsFeed's).
Arrive ==
    /\ tick.stage # "idle" => Cardinality(stored \ tick.snap) < Here.during
    /\ \A v \in Users : noted[v] = <<>>
    /\ \E e \in Here.events : InsertRow(e) \/ InsertTags(e)
    /\ UNCHANGED <<mode, scroll, derived, noted, ranked>>

\* The rollup; a deployment may be one where no tick gets further than a stage.
Rolling(A) == /\ Here.stages # {}
              /\ A /\ tick'.since \in Here.sinces
              /\ UNCHANGED <<mode, scroll, stored, copies, noted, ranked>>
Rolls == Rolling(Begin) \/ (tick.stage \in Here.stages /\ Rolling(Stage)) \/ Rolling(TickEnds)

\* The read-model has caught up.
FillFeed ==
    /\ Here.kinds = {"model"} /\ noted # Filled
    /\ noted' = Filled
    /\ UNCHANGED <<mode, scroll, stored, copies, derived, ranked>>

-----------------------------------------------------------------------------
(* A client scrolls *)

EventScrolls == {"feed", "authored", "replies", "inbox", "chat"}

\* What the scroll of a kind is to show.
Subject(kind) ==
    {e \in stored :
        CASE kind = "feed" -> Author[e] \in Here.authors /\ Kind[e] \in FeedKinds
          [] kind \in {"authored", "replies"} ->
                Author[e] = Viewer /\ Kind[e] \in {1, 1111} /\ (ETags[e] # <<>>) = (kind = "replies")
          [] kind = "inbox" -> Kind[e] \in DmKinds /\ (Author[e] = Viewer \/ Viewer \in Tagged(e, "p"))
          [] kind = "chat" ->
                \/ Kind[e] = 1059 /\ Viewer \in Tagged(e, "p")
                \/ Kind[e] = 4 /\ Author[e] = Viewer /\ Here.other \in Tagged(e, "p")
                \/ Kind[e] = 4 /\ Author[e] = Here.other /\ Viewer \in Tagged(e, "p")
          [] kind = "notices" -> e \in Candidates(Viewer)}

Envelopes(kind, until) ==
    IF kind = "inbox" THEN DmEnvelopes(Viewer, DmKinds, until, Here.limit)
    ELSE DmConversation(Viewer, Here.other, DmKinds, until, Here.limit)

\* A page: its events, where the next one starts (0 where the client stops), the event
\* that it is to leave out, and whether the page says less than its rows do.
EventPage(kind, until, cursor) ==
    CASE kind = "feed" ->
            LET s == FollowsFeed(Here.authors, until, Here.limit, 0)
            IN  [events |-> s, next |-> OldestTime(s), cursor |-> {}, cut |-> FALSE]
      [] kind \in {"authored", "replies"} ->
            LET s == OwnHistory(Viewer, kind, until, cursor, Here.limit)
            IN  [events |-> s, next |-> OldestTime(s), cursor |-> IF s = <<>> THEN {} ELSE {s[Len(s)]},
                 cut |-> s = <<>> /\ OwnQuery(Viewer, kind, until, cursor, Here.limit) # <<>>]
      [] kind \in {"inbox", "chat"} ->
            LET s == Envelopes(kind, until)
            IN  [events |-> s, next |-> IF Len(s) >= DmLimit(Here.limit) THEN OldestTime(s) ELSE 0,
                 cursor |-> {}, cut |-> FALSE]

ScrollEvents ==
    /\ \E kind \in Here.kinds \intersect EventScrolls :
        /\ scroll.state = "new" \/ (scroll.state = "on" /\ scroll.kind = kind)
        /\ \E page \in {EventPage(kind, scroll.until, scroll.cursor)} :
               scroll' = [state |-> IF page.next = 0 THEN "done" ELSE "on",
                          kind |-> kind, until |-> page.next, cursor |-> page.cursor,
                          seen |-> scroll.seen \union Elems(page.events),
                          snap |-> IF scroll.state = "new" THEN Subject(kind) ELSE scroll.snap,
                          ends |-> scroll.ends \union {page.next}, cut |-> page.cut]
    /\ UNCHANGED <<mode, stored, copies, derived, noted, ranked>>

\* Grouped notifications: the client goes on while a page has a group that is new to it.
\* A scroll is cut short by a page that has not all rows there are, or not all their
\* groups, when those that it has are all known; by one that has not all rows and ends
\* with the follows, which may be older; and by a first page that the follows are too
\* old for.
ScrollNotices ==
    /\ "notices" \in Here.kinds /\ (scroll.state = "new" \/ (scroll.state = "on" /\ scroll.kind = "notices"))
    /\ \E q \in {Request(Viewer, "RELAXED", "NONE", scroll.until, Here.limit)} : \E page \in {GroupedPage(q)} :
       LET groups == {page.items[i].group : i \in DOMAIN page.items}
           fresh == groups \ scroll.seen
           last == page.items[Len(page.items)].group
       IN  scroll' = [state |-> IF fresh = {} THEN "done" ELSE "on",
                      kind |-> "notices", cursor |-> {}, until |-> EndCursor(page),
                      seen |-> scroll.seen \union groups,
                      snap |-> IF scroll.state = "new" THEN Subject("notices") ELSE scroll.snap,
                      ends |-> scroll.ends \union {EndCursor(page)},
                      cut |-> \/ scroll.cut
                              \/ Elems(page.body) # WantedOf(BodyRequest(q)) /\ (fresh = {} \/ last = <<"follow">>)
                              \/ page.hasNext /\ fresh = {}
                              \/ FollowRows(q) # <<>> /\ <<"follow">> \notin groups]
    /\ UNCHANGED <<mode, stored, copies, derived, noted, ranked>>

-----------------------------------------------------------------------------
(* Clients ask for ranked feeds *)

\* As the input is parsed.
Requests == {ParseRanked(m) : m \in Here.requests}

AskRanked ==
    /\ "pools" \in Here.kinds
    /\ Ask \/ \E c \in Clients, r \in Requests : Miss(c, r)
    /\ UNCHANGED <<mode, scroll, stored, copies, derived, noted>>

Next == Arrive \/ Rolls \/ FillFeed \/ ScrollEvents \/ ScrollNotices \/ AskRanked

\* Ticks come back, and a statement that is tried again and again gets through.
Fairness ==
    /\ WF_vars(Rolling(Begin)) /\ WF_vars(Rolling(TickEnds))
    /\ SF_vars(Rolling(RecomputeEdges)) /\ SF_vars(Rolling(RecomputeCounts))

Spec == Init /\ [][Next]_vars /\ Fairness

-----------------------------------------------------------------------------
(* Properties *)

Times == {0} \union {At[e] : e \in Here.events}

\* Who refers to an event of S, and all who do to a root or to one of them, and so on.
RefersTo(S) == {e \in stored : Kind[e] \in ReplyKinds /\ Tagged(e, "e") \intersect S # {}}
Down(root) ==
    LET down[d \in 0..ThreadDepth] == IF d = 0 THEN {root} ELSE down[d - 1] \union RefersTo(down[d - 1])
    IN  down

\* The root of an event, the root of that, and so on while they are stored.
RootOfRoot(r) == IF r \in stored /\ RootTag(r) # None THEN RootTag(r) ELSE r
RootsUp(e) ==
    LET up[d \in 0..RootHops] == IF d = 0 THEN RootTag(e) ELSE RootOfRoot(up[d - 1])
    IN  up

\* The rows, what is derived of them and the client's page are what they are said to be.
TypeOK ==
    /\ mode \in Modes /\ stored \subseteq Here.events
    /\ copies \in [stored -> 0..2]
    /\ edges \subseteq stored \X Events /\ counted \subseteq edges
    /\ DOMAIN features \subseteq stored /\ \A n \in DOMAIN real : DOMAIN real[n] = DOMAIN NoReal
    /\ tick.stage \in {"idle", "edges", "counts", "real", "stats", "features", "save"}
    /\ scroll.state \in {"new", "on", "done"} /\ scroll.until \in Times
    /\ \A v \in Users : DOMAIN noted[v] \subseteq Candidates(v)
    /\ DOMAIN flights \subseteq Clients /\ \A k \in DOMAIN pools : pools[k].pool.events \subseteq stored
    /\ \A c \in Clients : asks[c] # None => asks[c].request \in Requests /\ asks[c].waitsFor \in DOMAIN flights \union {None}

\* A client that scrolls a feed, its own history or its messages to the end misses
\* nothing that was there when it began, but for events of a second that a page
\* ended with, and but for own history when all of a page is of the other type:
\* until is exclusive and pages are cut by rows (FollowsFeed, QueryEvents).
ScrollMissesOnlyTies ==
    scroll.state = "done" /\ scroll.kind # "notices" =>
        \A e \in scroll.snap : e \in scroll.seen \/ At[e] \in scroll.ends \/ scroll.cut

\* A client of the grouped notifications that follows the rule of
\* docs/notifications-flow.md (stop when a page has no new group) is shown every group
\* that was there when it began, but for those of a second that a page ended with,
\* and unless the scroll was cut short (ScrollNotices).
GroupsSkipOnlyTies ==
    scroll.state = "done" /\ scroll.kind = "notices" =>
        \A e \in scroll.snap : GroupOf(e) \in scroll.seen \/ At[e] \in scroll.ends \/ scroll.cut

\* "Saturating this window is what tells us more pages exist" (handler.go:860): a
\* grouped page that says there is no next one has looked at all rows there are.
HasNextIsTold ==
    "notices" \in Here.kinds =>
        \A n \in 1..3 :
            LET q == Request(Viewer, "RELAXED", "NONE", 0, n)
                page == GroupedPage(q)
            IN  ~page.hasNext => Elems(page.body) = {e \in Candidates(Viewer) : Kind[e] # Contacts}

\* The read-model answers as the query that it replaces, once it is filled: for every
\* tab, policy, scope, time and limit, as long as both look at all rows that are asked
\* for (Notifications, notificationsFromFeed).
ReadsAgree ==
    Here.kinds = {"model"} /\ noted = Filled =>
        \A p \in Policies, scope \in Scopes, until \in {0, 3}, n \in {1, NoticeMax}, tab \in {"ALL", "MENTIONS"} :
            LET q == [Request(Viewer, p, scope, until, n) EXCEPT !.tab = tab]
            IN  CopiesIn(WantedOf(q), "p") <= LegacyWindow(n) /\ Cardinality(WantedOf(q)) <= FeedWindow(n) =>
                    FeedNotices(q) = LegacyNotices(q)

\* A page of messages is the newest of what it is a page of, though it is put together
\* from queries that are each cut (mergeDmEnvelopes).
DmPageIsNewest ==
    \A kind \in Here.kinds \intersect {"inbox", "chat"}, until \in Times :
        Envelopes(kind, until) =
            Page(Newest({e \in Subject(kind) : until > 0 => At[e] < until}), 0, DmLimit(Here.limit))

\* The bundle of a viewer's lists has the newest of each kind, unless as many newer ones
\* of the other kinds fill the one query for all of them; and its contacts are those
\* that the feeds and counts go by, ties aside (latestEventByKind, user_contacts_latest).
SocialGraphAgrees ==
    "lists" \in Here.kinds =>
        \A u \in Users, k \in Lists :
            LET S == {e \in stored : Author[e] = u /\ Kind[e] = k}
                got == SocialGraph(u)[k]
                newest == {e \in S : \A f \in S : At[e] >= At[f]}
                newer(e) == {f \in stored : Author[f] = u /\ Kind[f] \in Lists /\ Newer(f, e)}
            IN  \/ S = {} /\ got = None
                \/ \E e \in newest : Cardinality(newer(e)) >= DefaultLimit
                \/ /\ got \in newest /\ \A e \in newest : got <= e
                   /\ (k = Contacts /\ Cardinality(newest) = 1) => PTags[got] = LatestContacts(u)
                   /\ Elems(LatestByAuthor({u}, {k}, 1, MaxLimit)[u]) \subseteq newest

\* When nothing arrived during a tick, the counts that FollowCounts reads from the
\* rollup are those of the edges that FollowEdges reads from the lists themselves, if
\* the tick was about all who were touched.
FollowCountsAgree ==
    ("lists" \in Here.kinds /\ tick.stage = "save" /\ tick.snap = stored
        /\ Cardinality(Touched(tick.since)) <= MaxTargets) =>
        \A u \in {v \in Touched(tick.since) : HasContacts(v)} :
            FollowCounts(u) =
                [follows |-> Cardinality({c \in Users : FollowEdges(u, Users)[c].following}),
                 followers |-> Cardinality({c \in Users : FollowEdges(u, Users)[c].followsYou})]

\* A thread has who refers to the root or to something in it, as many levels down, and
\* all of it when no limit is reached: a level fits a query's tags, and who refers to it
\* fits what is left of the limit, those that were found before once more (ThreadEvents).
ThreadHoldsReplies ==
    "thread" \in Here.kinds =>
        \A root \in stored, n \in {1, 2, ThreadDefault} :
            LET down == Down(root)
                level(d) == down[d] \ (IF d = 0 THEN {} ELSE down[d - 1])
                got == ThreadEvents(root, n)
            IN  /\ got \subseteq down[ThreadDepth] \ {root}
                /\ Cardinality(got) < ThreadLimit(n)
                /\ (\A d \in 0..(ThreadDepth - 1) :
                        /\ Cardinality(level(d)) <= ThreadBatch
                        /\ Cardinality(RefersTo(level(d))) <= Least(ThreadLimit(n) - Cardinality(down[d]), MaxLimit))
                    => got = down[ThreadDepth] \ {root}

\* The order of a thread lists each of its replies once, though it is merged from tables
\* that the rollup keeps and that may know more replies or fewer (threadOrdering,
\* relevantReplyOrder).
OrderIsComplete ==
    "thread" \in Here.kinds =>
        \A root \in stored, sort \in {"relevant", "ranked", "time"}, v \in {None, Viewer} :
            LET replies == ThreadEvents(root, ThreadDefault)
            IN  \A s \in ThreadOrders(root, sort, v, replies, 2, 1) :
                    /\ Elems(s) = replies /\ Len(s) = Cardinality(replies)
                    /\ ThreadPage(s, 0, 2) \o ThreadPage(s, 2, 0) = s

\* The root that a feed shows for an event is up the chain of its root tags, as far as
\* the chain is stored, within the hops; on a page with others it may be one below
\* (rootEvents).
RootsAreOnChain ==
    "feed" \in Here.kinds =>
        \A e \in {f \in stored : RootTag(f) # None} :
            /\ RootEvents({e})[e] = RootsUp(e)[RootHops]
            /\ RootEvents(stored)[e] \in Elems(RootsUp(e))

\* A page of a feed comes with the stored events that it shows beside its items: what is
\* reposted, and the root of a note and of what is reposted, when it does not take more
\* hops to find (feedResponse).
FeedIsHydrated ==
    "feed" \in Here.kinds =>
        \A until \in Times :
            LET s == FollowsFeed(Here.authors, until, Here.limit, 0)
                notes == {e \in Elems(s) : ~IsRepost(e)}
                originals == {FirstETag(e) : e \in Elems(s) \ notes} \intersect stored
                roots == RootEvents(Elems(s) \union originals)
            IN  /\ Elems(s) \union originals \subseteq Hydrated(s)
                /\ \A e \in (notes \union originals) \intersect DOMAIN roots :
                       roots[e] \in stored /\ RootsUp(e)[RootHops] = RootsUp(e)[RootHops - 1] => roots[e] \in Hydrated(s)

\* The last page is the last: a page of a query that says there is no next one has all
\* there is (eventsQuery).
EventsPageIsLast ==
    "feed" \in Here.kinds =>
        \A n \in 0..(MaxLimit + 1), until \in Times :
            LET q == [AnyEvent EXCEPT !.until = until, !.limit = n]
                page == EventsPage(q)
            IN  ~page.hasNext => Elems(page.events) = Matching(q)

\* The same of notifications that are not grouped, for limits that the store keeps and
\* when it looks at all rows: of an actor's follows there is one (notifications).
NoticesPageIsLast ==
    "notices" \in Here.kinds =>
        \A n \in 1..NoticeMax :
            LET page == RawPage(Request(Viewer, "RELAXED", "NONE", 0, n))
            IN  ~page.hasNext /\ CopiesIn(Candidates(Viewer), "p") <= LegacyWindow(n) =>
                    Elems(page.body) = FollowsOnce(Candidates(Viewer))

\* What QueryEventsByTagTargets answers for a target are the newest events that refer to
\* it, from the offset on: all of the page when no tag row is there twice, the first of
\* it when one is.  The scan and the join, which it chooses between, agree, unless the
\* scan has more ids of all targets than one query fetches.
ByTargetsIsPage ==
    "tags" \in Here.kinds =>
        \A key \in {"e", "p"}, kinds \in {{}, {7}}, per \in 1..Least(2, MaxLimit), k \in 0..1 :
            LET q == [AnyEvent EXCEPT !.kinds = kinds, !.offset = k]
                T == IF key = "e" THEN Here.events ELSE Users
                t == [AnyTag EXCEPT !.key = key]
                got == FromTags(q, t, T, per, 1000)
                ids == UNION {Elems(TargetIds(q, key, x, per, 1000)) : x \in T}
            IN  Cardinality(ids) <= MaxLimit =>
                /\ got = FromJoin(q, t, T, per, 1000)
                /\ \A x \in T :
                      LET true == Page(Newest(Referring(q, key, x)), k, per)
                      IN  /\ Len(got[x]) <= Len(true) /\ got[x] = SubSeq(true, 1, Len(got[x]))
                          /\ (\A e \in stored : copies[e] <= 1) => got[x] = true

\* The counts of one thing that different tables and queries give are the same, whatever
\* is there twice: references to a target, distinct events of the target, likers; as long
\* as no more refer to it than one query looks at.
CountsAgree ==
    "tags" \in Here.kinds =>
        \A x \in stored :
            LET q == [AnyEvent EXCEPT !.kinds = {7}]
                t == [AnyEvent EXCEPT !.ids = {x}]
                all == ByTargetCounts(q, "e", x, MaxLimit)
            IN  Cardinality(Referring(q, "e", x)) <= MaxLimit =>
                /\ UniqueReferences(q, "e", t, x) = all.count
                /\ Len(ReferencedBy(q, x, MaxLimit)) = all.count
                /\ all.count = Cardinality({u \in Users : all.byAuthor[u] > 0}) =>
                       all.count = NoteStats(x).raw.likes
                /\ {u \in Users : all.byAuthor[u] > 0} = Likes(x)

\* One query has room for all replies there are, with the copies of their tags.
RepliesFit == CopiesIn({e \in stored : Kind[e] \in ReplyKinds}, "e") <= MaxLimit

\* What is resolved for an event is the same whatever list it is in: the events it
\* refers to, the reply chains of authors when one query has room for the replies, and its
\* direct replies, which are also those that a query for them gives
\* (loadSelectedReferencesBatch, loadAuthoredReplyChainsBatch, loadDirectRepliesRankedBatch).
RelationsAsAlone ==
    /\ "feed" \in Here.kinds =>
        \A sel \in {<<{"root"}, {"reply"}>>, <<{"reply"}>>}, n \in 1..2 :
            LET in == [AnySelection EXCEPT !.selectors = sel, !.fallback = AnyMarker, !.last = (n = 1),
                                           !.limit = n, !.depth = 2]
                alone == [e \in stored |-> SelectedReferences({e}, in)[e]]
            IN  \A e, f \in stored : e < f => SelectedReferences({e, f}, in) = [x \in {e, f} |-> alone[x]]
    /\ "chains" \in Here.kinds /\ RepliesFit =>
        LET own == [e \in stored |-> {Author[e]}]
            all == AuthoredChains(stored, own, 2, MaxLimit)
        IN  \A e \in stored : all[e] = AuthoredChains({e}, own, 2, MaxLimit)[e]
    /\ "thread" \in Here.kinds =>
        \A n \in 1..Least(2, Least(MaxLimit, ThreadMax)) :
            LET all == RankedRepliesOf(stored, "new", n, 0)
            IN  \A e \in stored : all[e] = RankedRepliesOf({e}, "new", n, 0)[e] /\ all[e] = RepliesReferencing(AnyEvent, e, n)

\* Once every reply has its edge, the chain that is read from the edges is the one that
\* is found by looking at the tags, when nobody replies with tags that only one of the
\* two takes for a reply and one query has room for the replies (AuthoredReplyChain,
\* loadAuthoredReplyChainsBatch).
ChainsAgree ==
    (/\ (Here.kinds \intersect {"thread", "chains"}) # {}
     /\ \A c \in stored : copies[c] > 0 /\ (IsReply(c) /\ Kind[c] \in ReplyKinds => <<c, DirectParent(c)>> \in edges)
     /\ \A c \in stored : LiveParent(c) = DirectParent(c) /\ QTags[c] = {}
     /\ RepliesFit) =>
        \A n \in 1..Least(2, ChainMax) :
            PrecomputedChains(stored, n) = AuthoredChains(stored, [e \in stored |-> {Author[e]}], n, MaxLimit)

\* No feature row and no statistics say that more actors with a score did something
\* than did it at all; replies are left out, for their counts may lag behind the edges
\* (RecomputeEngagementReal, RecomputeRankFeatures).
RealWithinRaw ==
    \A n \in stored :
        \A what \in {"likes", "reposts", "quotes", "zaps"} :
            /\ NoteStats(n).real[what] <= NoteStats(n).raw[what]
            /\ n \in DOMAIN features => features[n].real[what] <= features[n].raw[what]

\* A tick that has come to its end has taken in what was there when it began: the
\* recent replies are counted, and the feature row of an engaged note has its actors, if
\* no more notes are engaged than a tick looks at, those that are not stored among them.
\* That is what the order of the stages is for (RunOnce).
TickIsComplete ==
    tick.stage = "save" =>
        /\ \A c \in tick.snap \intersect RecentChildren(tick.since, MaxTargets) :
              IsReply(c) => c \in CountedReplies(DirectParent(c))
        /\ \A n \in tick.snap :
              LET S == tick.snap \intersect Engaging(n, tick.since)
              IN  S # {} /\ Cardinality(Engaged(tick.since)) <= MaxTargets =>
                    /\ n \in DOMAIN features
                    /\ features[n].real.likes >= Cardinality(RealActors({e \in S : Kind[e] = 7}, n))
                    /\ features[n].real.replies >=
                          Cardinality(RealActors({e \in S : /\ IsReply(e) /\ DirectParent(e) = n
                                                            /\ e \in RecentChildren(tick.since, MaxTargets)}, n))

\* The page that is read from the features is the one that scores of the moment give
\* its candidates, right after a tick that took in all there is: the actors with a score
\* are those that the terms count, nobody engages with himself, and no note has more
\* likes or reposts than a term looks at (rankedEventViewsFromFeatures,
\* weightedRankBaseScores).
FeaturesAgree ==
    (tick.stage = "save" /\ tick.snap = stored) =>
        \A r \in {x \in Requests : FeaturesCanServe(x)} :
            LET S == Elems(TargetEvents(r, FeatureIds(r, tick.since)))
            IN  (/\ {u \in Users : WellFollowed(u, r.gate)} = Scored
                 /\ S \subseteq EngagedNotes(tick.since)
                 /\ \A n \in S : /\ Author[n] \notin AuthorsOf(Referrers(n, {6, 7, 16}, "e"))
                                 /\ Cardinality(Referrers(n, {7}, "e")) <= MaxLimit
                                 /\ Cardinality(Referrers(n, {6, 16}, "e")) <= MaxLimit) =>
                    FeaturePage(r, tick.since) = Finalize(r, S, [n \in S |-> BaseScore(r, n)])

\* "Both transports produce identical ranking for identical input" (ranker.go), though
\* only GraphQL keeps pools: a page of a new pool is the one that REST is given, as far
\* as a pool is deep.
TransportsAgree ==
    "ranked" \in Here.kinds =>
        \A r \in {x \in Requests : UsesPool(x) /\ x.limit + x.offset <= PoolDepth} : PoolPages(r) = DirectPages(r)

\* An unweighted page has its candidates by how many refer to them, when all that are
\* referred to are candidates: also one so deep that the store cuts the candidates, for
\* then it is empty (rankedCandidateIDs).
RankIsByCount ==
    "ranked" \in Here.kinds =>
        \A r \in {x \in Requests : ~IsWeighted(x) /\ x.boosted = {} /\ x.target.offset = 0} :
            LET f == RowCounts(r)
            IN  DOMAIN f \subseteq Matching([r.target EXCEPT !.limit = 0]) =>
                    \A s \in DirectPages(r) : \A i, j \in DOMAIN s : i < j => f[s[i]] >= f[s[j]]

\* Requests of one key share a pool: each could have computed it for itself, when
\* nothing arrived since it was (basePoolKey).
PoolsAreShared ==
    \A r \in Requests :
        LET k == PoolKey(r)
        IN  k \in DOMAIN pools /\ pools[k].asOf = Arrived /\ UsesPool(r) =>
                pools[k].pool \in {PoolOf(r, ids) : ids \in PoolIds(r)}

\* There are never more pools than there may be (sweepExpiredLocked).
PoolsAreBounded == Cardinality(DOMAIN pools) <= PoolMax

\* A pool is replaced by one that was read no earlier, however late a computation ends
\* (getOrCompute).
PoolsOnlyAdvance ==
    [][\A k \in DOMAIN pools \intersect DOMAIN pools' : pools[k].asOf \subseteq pools'[k].asOf]_vars

\* A reply is counted in the end, unless it is no longer among the recent ones: ticks
\* that fail between the edges and the counts are made up for.
RepliesGetCounted ==
    Here.stages # {} ~>
        \A c \in stored : \/ ~IsReply(c) \/ c \in CountedReplies(DirectParent(c))
                          \/ c \notin RecentChildren(tick.since, MaxTargets)

\* Whoever turns pages by time to the end misses no more than what shares a second with
\* the end of a page, and the last page says so.
PagesMissOnlyTies == ScrollMissesOnlyTies /\ DmPageIsNewest /\ EventsPageIsLast

\* Two ways to one answer give one answer: a rollup or what it was computed from, the
\* tags or their join, one aggregate or another, as long as no limit is reached.
WaysAgree ==
    /\ FollowCountsAgree /\ SocialGraphAgrees /\ FeaturesAgree
    /\ ByTargetsIsPage /\ CountsAgree /\ RealWithinRaw

\* Threads, chains, roots and notifications: nothing that belongs to one of them is
\* lost, nothing is shown twice, and either way to read them shows the same.
GroupsAreWhole ==
    /\ ThreadHoldsReplies /\ OrderIsComplete /\ RootsAreOnChain /\ FeedIsHydrated
    /\ GroupsSkipOnlyTies /\ NoticesPageIsLast /\ ReadsAgree /\ ChainsAgree

\* Ranked feeds: one ranking, whichever transport, pool or terms a request comes with.
RankingIsOne == TransportsAgree /\ RankIsByCount /\ PoolsAreShared /\ PoolsAreBounded
=============================================================================
