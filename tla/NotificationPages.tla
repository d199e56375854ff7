-------------------------- MODULE NotificationPages --------------------------
(***************************************************************************)
(* The pages of /nostr/notifications: the two reads of the store (the      *)
(* query over the candidates and the one over the read-model that replaces *)
(* it), the reasons of events, and the grouping of the handler.  When the  *)
(* read-model is filled, and which read is used, is NotificationsFeed's.   *)
(***************************************************************************)
EXTENDS SocialReads

CONSTANTS
    NoticeMax, NoticeDefault,   \* limits of Notifications, 100 and 50
    LegacyMin, LegacyMax,       \* rows that the query looks at, 400 to 4000
    FeedMin,                    \* rows of the read-model that are looked at, 200
    Overfetch,                  \* 8 rows are looked at for each that is asked for
    WindowMin, WindowMax, WindowFactor, \* rows of a grouped page: 120 to 600, 6 for each item
    FollowWindow                \* 12

ASSUME NoticeAssumption ==
    /\ NoticeMax \in Nat /\ NoticeDefault \in 1..NoticeMax
    /\ LegacyMin \in Nat \ {0} /\ LegacyMax \in Nat /\ LegacyMin <= LegacyMax /\ FeedMin \in Nat /\ Overfetch \in Nat
    /\ WindowMin \in Nat /\ WindowMax \in Nat /\ WindowFactor \in Nat /\ FollowWindow \in Nat

VARIABLE noted \* notifications_feed: noted[v][e], the facts of the rows of a viewer

NoticeKinds == {1, 3, 6, 7, 16, 9735}
Policies == {"STRICT", "MODERATE", "RELAXED", "FOLLOWS"}
Scopes == {"DIRECT", "THREAD", "NONE"}

-----------------------------------------------------------------------------
(* Candidates and what is known of them *)

\* The view is fed by the tag rows.
Candidates(v) == {e \in stored : v \in Tagged(e, "p") /\ Kind[e] \in NoticeKinds /\ Author[e] # v}

CandidateReason(e) ==
    CASE Kind[e] = 3 -> "follow"
      [] Kind[e] = 1 -> "mention"
      [] Kind[e] \in {6, 16} -> "repost"
      [] Kind[e] = 7 -> "reaction"
      [] OTHER -> "zap"

ReplyTags(e) == {i \in DOMAIN ETags[e] : ETags[e][i].marker \in {"", "root", "reply"}}

\* notificationReasonForEvent
NoticeReason(e) ==
    IF CandidateReason(e) # "mention" THEN CandidateReason(e)
    ELSE IF ReplyTags(e) # {} THEN "reply"
    ELSE IF QTags[e] # {} \/ \E i \in DOMAIN ETags[e] : ETags[e][i].marker = "mention" THEN "quote"
    ELSE "mention"

\* The columns of the read-model, and the joins of the query, as of now: who wrote an
\* event is known when it is stored.
Facts(v, e) ==
    [reply |-> ReplyTags(e) # {},
     toViewer |-> DirectParent(e) \in stored /\ Author[DirectParent(e)] = v,
     inThread |-> \E i \in ReplyTags(e) : ETags[e][i].to \in stored /\ Author[ETags[e][i].to] = v,
     score |-> Score[Author[e]]]

-----------------------------------------------------------------------------
(* Notifications and notificationsFromFeed *)

\* A request: its limit is 0 when it has none.
Request(v, policy, scope, until, n) ==
    [viewer |-> v, tab |-> "ALL", policy |-> policy, scope |-> scope, since |-> 0, until |-> until,
     limit |-> n, reasons |-> {}, notReasons |-> {}]

Wanted(q, e) ==
    /\ q.tab = "MENTIONS" => CandidateReason(e) = "mention"
    /\ InWindow(e, q)
    /\ q.reasons # {} => CandidateReason(e) \in q.reasons
    /\ CandidateReason(e) \notin q.notReasons
    /\ q.policy = "FOLLOWS" => Author[e] \in LatestContacts(q.viewer)

ActorThreshold(policy) == CASE policy = "MODERATE" -> 20 [] policy = "STRICT" -> 50 [] OTHER -> 0
ViewerThreshold(policy) == CASE policy = "MODERATE" -> 60 [] policy = "STRICT" -> 80 [] OTHER -> 0

Trusted(q, score) ==
    \/ ActorThreshold(q.policy) = 0 /\ ViewerThreshold(q.policy) = 0
    \/ score >= ActorThreshold(q.policy)
    \/ Score[q.viewer] >= ViewerThreshold(q.policy)

InScope(q, e, facts) ==
    CASE q.scope = "DIRECT" -> Kind[e] # 1 \/ ~facts.reply \/ facts.toViewer
      [] q.scope = "THREAD" -> Kind[e] # 1 \/ ~facts.reply \/ facts.inThread
      [] OTHER -> TRUE

\* Of the follows of one actor that are looked at, the first.
FollowsOnce(S) == {e \in S : CandidateReason(e) = "follow" =>
                       ~\E f \in S : CandidateReason(f) = "follow" /\ Author[f] = Author[e] /\ Older(f, e)}

NoticeLimit(n) == Limited(n, NoticeMax, NoticeDefault)
Between(lo, n, hi) == IF n < lo THEN lo ELSE IF n > hi THEN hi ELSE n

\* How many rows the query and the read-model look at.
LegacyWindow(n) == Between(LegacyMin, NoticeLimit(n) * Overfetch, LegacyMax)
FeedWindow(n) == IF NoticeLimit(n) * Overfetch < FeedMin THEN FeedMin ELSE NoticeLimit(n) * Overfetch

WantedOf(q) == {e \in Candidates(q.viewer) : Wanted(q, e)}

\* The query: the copies of candidates that are not merged yet use up its window.
LegacyNotices(q) ==
    LET recent == FirstRows(WantedOf(q), "p", LegacyWindow(q.limit))
        rest == {e \in FollowsOnce(recent) : e \in stored /\ InScope(q, e, Facts(q.viewer, e))
                                                /\ Trusted(q, Score[Author[e]])}
    IN  Page(Newest(rest), 0, NoticeLimit(q.limit))

\* The read-model: one row for each event, as it was filled; what is no longer there to
\* show is left out after the page is cut.
FeedNotices(q) ==
    LET rowsOf == {e \in DOMAIN noted[q.viewer] : Wanted(q, e)}
        seen == Elems(Page(Newest(rowsOf), 0, FeedWindow(q.limit)))
        rest == {e \in FollowsOnce(seen) : InScope(q, e, noted[q.viewer][e])
                                              /\ Trusted(q, noted[q.viewer][e].score)}
    IN  Kept(Page(Newest(rest), 0, NoticeLimit(q.limit)), stored)

\* buildNotificationsFeedSQL over all candidates.
Filled == [v \in Users |-> Put(noted[v], Candidates(v), LAMBDA e : Facts(v, e))]

-----------------------------------------------------------------------------
(* /nostr/notifications *)

\* notificationGroupKey; replies, quotes and mentions stay single.
GroupOf(e) ==
    CASE NoticeReason(e) = "follow" -> <<"follow">>
      [] NoticeReason(e) \in {"repost", "reaction", "zap"} -> <<NoticeReason(e), FirstETag(e)>>
      [] OTHER -> <<"single", e>>

\* The first row of a group stands for it.
Heads(s) == {i \in DOMAIN s : \A j \in 1..(i - 1) : GroupOf(s[j]) # GroupOf(s[i])}

\* The groups, by their first rows and the times of these; those of one second as they came.
GroupOrder(s) ==
    Ordered(Heads(s), LAMBDA i, j : At[s[i]] > At[s[j]] \/ (At[s[i]] = At[s[j]] /\ i < j))

\* The rows that a grouped page of n items is made from.
BodyWindow(n) == Between(WindowMin, n * WindowFactor, WindowMax)

BodyRequest(q) == [q EXCEPT !.limit = BodyWindow(q.limit), !.notReasons = {"follow"} \union q.notReasons]
BodyRows(q) == LegacyNotices(BodyRequest(q))
FollowRows(q) ==
    IF q.tab = "MENTIONS" \/ q.until # 0 THEN <<>>
    ELSE LegacyNotices([q EXCEPT !.reasons = {"follow"}, !.notReasons = {}, !.limit = FollowWindow, !.scope = "NONE"])

FollowTotal(q, shown) == IF q.policy = "FOLLOWS" THEN shown ELSE FollowCounts(q.viewer).followers

\* The grouped page and the ungrouped one.
Item(q, e, group, size) ==
    [group |-> group, event |-> e,
     total |-> IF group = <<"follow">> /\ size > 1 THEN FollowTotal(q, size) ELSE size]
Group(q, s, e) == Item(q, e, GroupOf(e), Cardinality({f \in Elems(s) : GroupOf(f) = GroupOf(e)}))

PageOfGroups(q, body, s, order) ==
    [items |-> [i \in 1..Least(Len(order), q.limit) |-> Group(q, s, s[order[i]])],
     body |-> body,
     hasNext |-> Len(order) > q.limit \/ Len(body) >= BodyWindow(q.limit)]
PageOfRows(q, body, s) == PageOfGroups(q, body, s, GroupOrder(s))
GroupedPage(q) == PageOfRows(q, BodyRows(q), FollowRows(q) \o BodyRows(q))

Ungrouped(q, s) ==
    [items |-> [i \in DOMAIN s |-> Item(q, s[i], <<"single", s[i]>>, 1)],
     body |-> s,
     hasNext |-> Len(s) >= q.limit]
RawPage(q) == Ungrouped(q, LegacyNotices(q))

\* notificationEndCursor, of which the client uses the time.
EndCursor(page) == IF page.items = <<>> THEN 0 ELSE At[page.items[Len(page.items)].event]
=============================================================================
