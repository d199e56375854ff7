----------------------------- MODULE SocialReads -----------------------------
(***************************************************************************)
(* Reads about users: contact lists and what is derived from them, the     *)
(* bundle of a viewer's own lists (/nostr/social-graph), and the rows of   *)
(* user_stats that the rollup keeps.  The lists are the "p" tags of the    *)
(* newest event of a kind.                                                 *)
(***************************************************************************)
EXTENDS EventQuery

ASSUME RowAssumption == None \notin [following : Nat, followers : Nat]

VARIABLE stats \* user_stats: stats[u] is the last row of u, None when there is none

Contacts == 3
Mutes == 10000
RelayList == 10002
Lists == {Contacts, Mutes, RelayList}

-----------------------------------------------------------------------------
(* user_contacts_latest *)

\* argMax(contacts, created_at): of lists of one second, any.  The view is fed by the
\* insert of the event row.
LatestContacts(u) ==
    LET S == {e \in stored : Author[e] = u /\ Kind[e] = Contacts}
    IN  IF S = {} THEN {} ELSE PTags[CHOOSE e \in S : \A f \in S : At[e] >= At[f]]

HasContacts(u) == \E e \in stored : Author[e] = u /\ Kind[e] = Contacts

\* BatchFollowCounts, FollowerCount
FollowCounts(u) == [follows |-> Cardinality(LatestContacts(u)),
                    followers |-> IF stats[u] = None THEN 0 ELSE stats[u].followers]

\* FollowEdges
FollowEdges(viewer, C) ==
    [c \in C |-> [following |-> c \in LatestContacts(viewer),
                  followsYou |-> viewer \in LatestContacts(c)]]

\* Mutant of FollowerSet: whoever has ever followed.
FollowersEver(u) == {v \in Users : \E e \in stored : Author[e] = v /\ Kind[e] = Contacts /\ u \in PTags[e]}

\* The followers that buildUserStatsSQL counts: whose latest list has u.
FollowerSet(u) == {v \in Users : u \in LatestContacts(v)}

-----------------------------------------------------------------------------
(* /nostr/social-graph *)

Replaces(e, f) == At[e] > At[f] \/ (At[e] = At[f] /\ e < f)

\* latestEventByKind
LatestByKind(s, k) ==
    LET S == {e \in Elems(s) : Kind[e] = k}
    IN  IF S = {} THEN None ELSE CHOOSE e \in S : \A f \in S \ {e} : Replaces(e, f)

\* One query for the three kinds, of no given limit.
OwnLists(u) == QueryEvents([AnyEvent EXCEPT !.authors = {u}, !.kinds = Lists])
SocialGraph(u) == [k \in Lists |-> LatestByKind(OwnLists(u), k)]

-----------------------------------------------------------------------------
(* user_stats *)

Touched(since) == {u \in Users : \E e \in stored : Author[e] = u /\ At[e] >= since
                                                   /\ Kind[e] \in {1, Contacts, 1111}}

\* touchedAuthorsSubquery: any of them, up to its limit.
TouchedBatches(since, n) ==
    {T \in SUBSET Touched(since) : Cardinality(T) = Least(n, Cardinality(Touched(since)))}

\* buildUserStatsSQL: rows for those of the touched who have a contact list.
UserStats(T) ==
    [u \in Users |-> IF u \in T /\ HasContacts(u)
                     THEN [following |-> Cardinality(LatestContacts(u)),
                           followers |-> Cardinality(FollowerSet(u))]
                     ELSE stats[u]]
=============================================================================
