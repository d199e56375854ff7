----------------------------- MODULE EventQuery -----------------------------
(***************************************************************************)
(* The rows of nostr_events and event_tags and the generic reads of them:  *)
(* filters, pages, the newest events of authors and of tag values, and     *)
(* aggregates.  Events are numbers, ordered as their ids are; what an      *)
(* event says is given by constants, for its id is a hash of it.           *)
(*                                                                         *)
(* nostr_events keeps one row per id, whatever copies are not merged yet   *)
(* (FINAL, LIMIT 1 BY id).  event_tags keeps every copy: it is a plain     *)
(* MergeTree, and an event that is inserted again has its tags again.      *)
(***************************************************************************)
EXTENDS Integers, FiniteSets, Sequences

CONSTANTS
    Users, Events,
    Author, Kind, At,  \* Author[e], Kind[e], At[e]: pubkey, kind and created_at
    ETags,             \* ETags[e]: the "e" tags, records of "to" and "marker", in order
    PTags, QTags,      \* PTags[e], QTags[e]: the values of the "p" and "q" tags
    Followers, Score,  \* Followers[u], Score[u]: what vertex_scores says, -1 and 0 when
                       \* it does not know u
    Height,            \* Height[e]: how far down the references of e go
    MaxLimit, DefaultLimit,  \* limits of a query, 500 and 50
    None

ASSUME EventsAssumption ==
    /\ Events \subseteq Nat /\ IsFiniteSet(Events) /\ IsFiniteSet(Users) /\ None \notin Users \union Events
    /\ Author \in [Events -> Users] /\ Kind \in [Events -> Nat] /\ At \in [Events -> Nat \ {0}]
    /\ ETags \in [Events -> Seq([to : Events, marker : STRING])]
    /\ PTags \in [Events -> SUBSET Users] /\ QTags \in [Events -> SUBSET Events]
    /\ Followers \in [Users -> Nat \union {-1}] /\ Score \in [Users -> Nat]
    /\ DefaultLimit \in Nat \ {0} /\ MaxLimit \in Nat /\ DefaultLimit <= MaxLimit

\* An event refers to events that were there before it: their ids, which are hashes, are
\* part of what its own id is a hash of.
ASSUME ReferenceAssumption ==
    /\ Height \in [Events -> Nat]
    /\ \A e \in Events : \A i \in DOMAIN ETags[e] : Height[ETags[e][i].to] < Height[e]

VARIABLES
    stored, \* ids with a row of nostr_events
    copies  \* copies[e], for those: how often the tags of e were inserted

rows == <<stored, copies>>

-----------------------------------------------------------------------------
(* Order, pages and limits *)

\* ORDER BY created_at DESC, id DESC
Newer(e, f) == At[e] > At[f] \/ (At[e] = At[f] /\ e > f)

Ordered(S, Before(_, _)) ==
    [i \in 1..Cardinality(S) |-> CHOOSE e \in S : Cardinality({f \in S : Before(f, e)}) = i - 1]

Older(e, f) == At[e] < At[f] \/ (At[e] = At[f] /\ e < f)

Newest(S) == Ordered(S, Newer)
Least(a, b) == IF a < b THEN a ELSE b
Elems(s) == {s[i] : i \in DOMAIN s}

\* The rows of a table by their key, when those of S are inserted.
Put(f, S, Row(_)) == [x \in DOMAIN f \union S |-> IF x \in S THEN Row(x) ELSE f[x]]

\* The elements of s at the places of I, in their order; those that are in S; and
\* each the first time that it comes.
Picked(s, I) ==
    LET places == Ordered(I, LAMBDA i, j : i < j)
    IN  [k \in DOMAIN places |-> s[places[k]]]
Kept(s, S) == Picked(s, {i \in DOMAIN s : s[i] \in S})
Distinct(s) == Picked(s, {i \in DOMAIN s : \A j \in 1..(i - 1) : s[j] # s[i]})

\* LIMIT n OFFSET k
Page(s, k, n) == SubSeq(s, k + 1, Least(Len(s), k + n))

\* The limits of the queries: 0 and what is above the maximum mean the default.
Limited(n, max, default) == IF n = 0 \/ n > max THEN default ELSE n

-----------------------------------------------------------------------------
(* Filters *)

TagValues(e, key) ==
    CASE key = "e" -> {ETags[e][i].to : i \in DOMAIN ETags[e]}
      [] key = "p" -> PTags[e]
      [] key = "q" -> QTags[e]

\* The tags of e, for an insert that got to them.
Tagged(e, key) == IF copies[e] = 0 THEN {} ELSE TagValues(e, key)

\* The positions of the "e" tags with a marker.
Marked(e, m) == {i \in DOMAIN ETags[e] : ETags[e][i].marker = m}
MinOf(I) == CHOOSE i \in I : \A j \in I : i <= j
MaxOf(I) == CHOOSE i \in I : \A j \in I : i >= j

\* The "reply" tag, else the last one without a marker, else the "root" tag.
DirectParent(e) ==
    IF Marked(e, "reply") # {} THEN ETags[e][MinOf(Marked(e, "reply"))].to
    ELSE IF Marked(e, "") # {} THEN ETags[e][MaxOf(Marked(e, ""))].to
    ELSE IF Marked(e, "root") # {} THEN ETags[e][MinOf(Marked(e, "root"))].to
    ELSE None

\* firstEventTag
FirstETag(e) == IF ETags[e] = <<>> THEN None ELSE ETags[e][1].to

AnyTag == [key |-> "e", values |-> {}, except |-> {}]
AnyEvent == [ids |-> {}, authors |-> {}, notIds |-> {}, notAuthors |-> {}, kinds |-> {},
             tags |-> {}, texts |-> Events, followers |-> -1,
             since |-> 0, until |-> 0, limit |-> 0, offset |-> 0]

\* What a query may say.
Filters ==
    [ids : SUBSET Events, authors : SUBSET Users, notIds : SUBSET Events, notAuthors : SUBSET Users,
     kinds : SUBSET Nat, texts : SUBSET Events, followers : Int, since : Nat, until : Nat, limit : Nat, offset : Nat,
     tags : SUBSET [key : STRING, values : SUBSET (Users \union Events), except : SUBSET (Users \union Events)]]

HasTag(e, t) ==
    /\ t.values # {} => Tagged(e, t.key) \intersect t.values # {}
    /\ t.values = {} /\ t.except = {} => Tagged(e, t.key) # {}
    /\ Tagged(e, t.key) \intersect t.except = {}

\* The score filter knows who has been scored, and is left out for -1.
WellFollowed(u, n) == n < 0 \/ (Followers[u] >= 0 /\ Followers[u] >= n)

InWindow(e, q) == (q.since > 0 => At[e] >= q.since) /\ (q.until > 0 => At[e] < q.until)

\* An empty list filters nothing.
Matches(e, q) ==
    /\ q.ids # {} => e \in q.ids
    /\ q.authors # {} => Author[e] \in q.authors
    /\ e \notin q.notIds /\ Author[e] \notin q.notAuthors
    /\ q.kinds # {} => Kind[e] \in q.kinds
    /\ \A t \in q.tags : HasTag(e, t)
    /\ e \in q.texts
    /\ WellFollowed(Author[e], q.followers)

Matching(q) == {e \in stored : Matches(e, q) /\ InWindow(e, q)}

-----------------------------------------------------------------------------
(* QueryEvents and the newest events of authors *)

QueryEvents(q) == Page(Newest(Matching(q)), q.offset, Limited(q.limit, MaxLimit, DefaultLimit))

\* eventsByID: nothing for no ids.
EventsByIds(S) ==
    IF S = {} THEN {} ELSE Elems(QueryEvents([AnyEvent EXCEPT !.ids = S, !.limit = Cardinality(S)]))

\* QueryLatestEventsByPubKeys; 20 is PerAuthorMax.
LatestByAuthor(P, kinds, n, PerAuthorMax) ==
    [p \in P |-> Page(Newest(Matching([AnyEvent EXCEPT !.authors = {p}, !.kinds = kinds])),
                      0, Limited(n, PerAuthorMax, 1))]

-----------------------------------------------------------------------------
(* QueryEventsByTagTargets *)

\* The rows of event_tags that bring e to a target, with their copies.
RowsOf(e, key) == IF key \in {"e", "p", "q"} THEN copies[e] ELSE 0

\* How many such rows there are for the events of S.
CopiesIn(S, key) == Cardinality(UNION {{e} \X (1..RowsOf(e, key)) : e \in S})

\* The events with one of the first n rows: LIMIT n BY tag_value, before the copies
\* of a row are dropped.
FirstRows(S, key, n) == {e \in S : CopiesIn({f \in S : Newer(f, e)}, key) < n}

\* The targets there can be rows for: those of the filter, if it names any.
Targets(T, t) == IF t.values = {} THEN T ELSE T \intersect t.values

Referring(q, key, target) == {e \in Matching(q) : target \in Tagged(e, key)}

\* The filters that the scan of event_tags applies; the ids, authors and texts that a
\* query excludes are not among them.
TagFilters(q) == [AnyEvent EXCEPT !.ids = q.ids, !.authors = q.authors, !.kinds = q.kinds,
                                  !.followers = q.followers, !.since = q.since, !.until = q.until]

\* A tag row's event has its row, for rows are inserted first.
ReferringRows(q, key, target) ==
    {e \in stored : target \in Tagged(e, key) /\ Matches(e, TagFilters(q)) /\ InWindow(e, q)}

RowLimit(per, offset, RowMax) == IF per + offset = 0 \/ per + offset > RowMax THEN per ELSE per + offset

TargetIds(q, key, target, per, RowMax) ==
    Newest(FirstRows(ReferringRows(q, key, target), key, RowLimit(per, q.offset, RowMax)))

\* queryEventsByTagTargetsFromTags: ids by target, then all their rows in one query.
\* 1000 is RowMax.
FromTags(q, t, T, perTarget, RowMax) ==
    LET per == Limited(perTarget, MaxLimit, DefaultLimit)
        here == Targets(T, t)
        ids(x) == TargetIds(q, t.key, x, per, RowMax)
        found == EventsByIds(UNION {Elems(ids(x)) : x \in here})
    IN  [x \in T |-> IF x \in here
                     THEN Kept(Page(ids(x), q.offset, per), found)
                     ELSE <<>>]

\* QueryEventsByTagTargets with more tag filters: one query with a join.
FromJoin(q, t, T, perTarget, RowMax) ==
    LET per == Limited(perTarget, MaxLimit, DefaultLimit)
        ids(x) == Newest(FirstRows(Referring(q, t.key, x), t.key, RowLimit(per, q.offset, RowMax)))
    IN  [x \in T |-> IF x \in Targets(T, t) THEN Page(ids(x), q.offset, per) ELSE <<>>]

ByTargets(q, t, T, perTarget, RowMax) ==
    IF q.tags = {} THEN FromTags(q, t, T, perTarget, RowMax) ELSE FromJoin(q, t, T, perTarget, RowMax)

-----------------------------------------------------------------------------
(* Aggregates *)

\* AggregateEventsByTagTargets: the distinct events of a target, limited, then counted
\* by author (or all together, when there is no dimension).
ByTargetCounts(q, key, target, perTarget) ==
    LET S == Elems(Page(Newest(Referring(q, key, target)), 0, Limited(perTarget, MaxLimit, DefaultLimit)))
    IN  [count |-> Cardinality(S), byAuthor |-> [u \in Users |-> Cardinality({e \in S : Author[e] = u})]]

\* AggregateEvents over TAGS by value: who refers to a value, stored or not.
TagCounts(q, key) ==
    LET S == Matching(q)
    IN  [x \in UNION {Tagged(e, key) : e \in S} |-> Cardinality({Author[e] : e \in {f \in S : x \in Tagged(f, key)}})]

\* AggregateEventReferencesToTargets: every tag row of a reference whose target matches;
\* COUNT counts rows, UNIQUE_EVENTS events.
ReferenceRows(q, key, targets) ==
    {r \in Matching(q) \X Matching(targets) : r[2] \in Tagged(r[1], key)}

UniqueReferences(q, key, targets, x) == Cardinality({r[1] : r \in {s \in ReferenceRows(q, key, targets) : s[2] = x}})

\* The same by UNIQUE_PUBKEYS.
ReferenceCounts(q, key, targets) ==
    LET R == ReferenceRows(q, key, targets)
    IN  [x \in {r[2] : r \in R} |-> Cardinality({Author[r[1]] : r \in {s \in R : s[2] = x}})]

\* The groups that a limit leaves: any n of the greatest.
TopGroups(f, n) ==
    {G \in SUBSET DOMAIN f :
        /\ Cardinality(G) = Least(n, Cardinality(DOMAIN f))
        /\ \A g \in G, h \in DOMAIN f \ G : f[g] >= f[h]}
=============================================================================
