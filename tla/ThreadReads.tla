----------------------------- MODULE ThreadReads -----------------------------
(***************************************************************************)
(* Threads: what the rollup derives of replies, the descent of             *)
(* ThreadEvents, the ranked lists of direct replies and the order that     *)
(* /nostr/thread answers with.  ThreadEvents returns the replies in the    *)
(* order of a Go map, so the order of what the merge does not place is     *)
(* any: orders are sets of sequences.                                      *)
(***************************************************************************)
EXTENDS SocialReads

CONSTANTS
    ThreadDepth, ThreadBatch, ThreadMax, ThreadDefault, \* 8, 100, 2000 and 1000
    ChainMax, ChainDefault                              \* 64 and 8 levels of an author's chain

ASSUME ThreadAssumption ==
    /\ ThreadDepth \in Nat /\ ThreadBatch \in Nat \ {0}
    /\ ThreadMax \in Nat /\ ThreadDefault \in 1..ThreadMax
    /\ ChainMax \in Nat /\ ChainDefault \in 1..ChainMax

VARIABLES
    edges,   \* note_reply_edges, pairs of child and parent
    counted  \* note_direct_reply_counts, pairs of child and parent: it counts the children

ReplyKinds == {1, 1111}

-----------------------------------------------------------------------------
(* Replies *)

\* recentChildrenSubquery; its rows of one second come in any order, here by id.
RecentChildren(since, limit) ==
    Elems(Page(Newest({e \in stored : Kind[e] \in ReplyKinds /\ At[e] >= since}), 0, limit))

IsReply(e) == copies[e] > 0 /\ DirectParent(e) # None /\ DirectParent(e) \notin QTags[e]

\* buildReplyEdgesSQL and buildDirectReplyCountsSQL
NewEdges(since, limit) == {<<e, DirectParent(e)>> : e \in {c \in RecentChildren(since, limit) : IsReply(c)}}

\* Mutant of NewCounts: whatever a child refers to, as the first migrations had it.
CountsOfTags(since, limit) ==
    counted \union {<<e, DirectParent(e)>> : e \in RecentChildren(since, limit)}

NewCounts(since, limit) ==
    counted \union {x \in edges : x[1] \in RecentChildren(since, limit)}
CountedReplies(p) == {x[1] : x \in {y \in counted : y[2] = p}}

\* The events with a tag row for n, and note_like_counts, which counts who liked: the
\* views are fed by the tag rows.
Referrers(n, kinds, key) == {e \in stored : Kind[e] \in kinds /\ n \in Tagged(e, key)}
AuthorsOf(S) == {Author[e] : e \in S}
Likes(n) == AuthorsOf(Referrers(n, {7}, "e"))

-----------------------------------------------------------------------------
(* ThreadEvents *)

\* One level: who refers to one of the first of the frontier; the rest of it is dropped.
Descend(w, max) ==
    LET room == max - Cardinality(w.found)
        next == QueryEvents([AnyEvent EXCEPT
                    !.tags = {[AnyTag EXCEPT !.values = Elems(Page(w.frontier, 0, ThreadBatch))]},
                    !.kinds = ReplyKinds, !.limit = Least(room, MaxLimit)])
    IN  IF w.frontier = <<>> \/ room <= 0 THEN w
        ELSE [found |-> w.found \union Elems(next),
              frontier |-> Kept(next, Elems(next) \ w.found)]

ThreadLimit(n) == IF n <= 0 \/ n > ThreadMax THEN ThreadDefault ELSE n

ThreadEvents(root, n) ==
    LET walk[d \in 0..ThreadDepth] ==
            IF d = 0 THEN [found |-> {root}, frontier |-> <<root>>]
            ELSE Descend(walk[d - 1], ThreadLimit(n))
    IN  walk[ThreadDepth].found \ {root}

-----------------------------------------------------------------------------
(* Lists of direct replies *)

DirectReplies(p) == {x[1] : x \in {y \in edges : y[2] = p}}

SortCount(c, sort) == CASE sort = "likes" -> Cardinality(Likes(c))
                        [] sort = "replies" -> Cardinality(CountedReplies(c))
                        [] OTHER -> 0
RanksBefore(e, f, sort) ==
    \/ SortCount(e, sort) > SortCount(f, sort)
    \/ SortCount(e, sort) = SortCount(f, sort) /\ Newer(e, f)

\* RankedDirectReplyIDs; a sort without a table ranks by recency.  5000 is ThreadMax.
RankedReplies(p, sort, n, k) ==
    Page(Ordered(DirectReplies(p), LAMBDA e, f : RanksBefore(e, f, sort)),
         IF k < 0 THEN 0 ELSE k, IF n <= 0 \/ n > ThreadMax THEN ThreadMax ELSE n)

\* earliestAuthoredChild, "" being no child
EarliestBy(p, u) ==
    LET S == {c \in DirectReplies(p) : Author[c] = u}
    IN  IF S = {} THEN None ELSE Ordered(S, Older)[1]

\* AuthoredReplyChain.  A child is never met again: an event refers to older ones only.
AuthoredChain(root, u, n) ==
    LET depth == IF n <= 0 \/ n > ChainMax THEN ChainDefault ELSE n
        chain[d \in 0..depth] ==
            IF d = 0 THEN <<>>
            ELSE LET s == chain[d - 1]
                     child == EarliestBy(IF s = <<>> THEN root ELSE s[Len(s)], u)
                 IN  IF child \in {None, root} \union Elems(s) \/ Len(s) < d - 1 THEN s ELSE Append(s, child)
    IN  chain[depth]

\* FollowedReplies for one parent: most liked, then newest, then any.
FollowedReplies(viewer, p) ==
    LET S == {c \in DirectReplies(p) : Author[c] \in LatestContacts(viewer)}
        key(c) == <<Cardinality(Likes(c)), At[c]>>
        above(c, d) == key(c)[1] > key(d)[1] \/ (key(c)[1] = key(d)[1] /\ key(c)[2] > key(d)[2])
    IN  {c \in S : \A d \in S : ~above(d, c)}

-----------------------------------------------------------------------------
(* The order of /nostr/thread *)

Orders(S) == {s \in [1..Cardinality(S) -> S] : \A i, j \in DOMAIN s : i # j => s[i] # s[j]}

\* relevantReplyOrder: the author's chain, one followed reply to its end, ranked replies,
\* all direct replies.
RelevantOrders(root, viewer, n, ranked) ==
    LET chain == AuthoredChain(root, Author[root], ChainDefault)
        tail == IF chain = <<>> THEN root ELSE chain[Len(chain)]
        followed == IF viewer = None \/ FollowedReplies(viewer, tail) = {} THEN {<<>>}
                    ELSE {<<c>> : c \in FollowedReplies(viewer, tail)}
    IN  {chain \o f \o RankedReplies(root, "likes", ranked, 0) \o RankedReplies(root, "new", n, 0) :
            f \in followed}

MergedOrders(root, sort, viewer, n, ranked) ==
    CASE sort = "relevant" -> RelevantOrders(root, viewer, n, ranked)
      [] sort = "ranked" -> {RankedReplies(root, "likes", n, 0)}
      [] OTHER -> {<<>>}

\* Mutant of Merge: what was placed before is placed again.
MergeTwice(s, replies) == Kept(s, replies)

\* What there is no reply for is left out, and what comes again.
Merge(s, replies) == Distinct(Kept(s, replies))

\* threadOrdering before its page is cut; the replies that were not placed come last.
ThreadOrders(root, sort, viewer, replies, n, ranked) ==
    UNION {{Merge(m, replies) \o t : t \in Orders(replies \ Elems(Merge(m, replies)))} :
               m \in MergedOrders(root, sort, viewer, n, ranked)}

\* pageElements
ThreadPage(s, k, n) ==
    IF k >= Len(s) THEN <<>> ELSE Page(s, IF k < 0 THEN 0 ELSE k, IF n > 0 THEN n ELSE Len(s))
=============================================================================
