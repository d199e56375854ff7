------------------------------ MODULE MCReads ------------------------------
(***************************************************************************)
(* Deployments of Reads, each with its own few events.                     *)
(***************************************************************************)
EXTENDS Reads, TLC

CONSTANTS a, b, c

-----------------------------------------------------------------------------
(* Events: who, which kind, when, and the tags *)

Tag(to, marker) == [to |-> to, marker |-> marker]
Says(who, kind, at) == [who |-> who, kind |-> kind, at |-> at, e |-> <<>>, p |-> {}, q |-> {}]
Refers(who, kind, at, tags) == [Says(who, kind, at) EXCEPT !.e = tags]
Names(who, kind, at, users) == [Says(who, kind, at) EXCEPT !.p = users]
Tells(who, kind, at, tags, users) == [Refers(who, kind, at, tags) EXCEPT !.p = users]

MCUsers == {a, b, c}

Table ==
    \* feed: a root, replies with old and new markers, a repost
    (1 :> Says(c, 1, 1)) @@ (2 :> Refers(b, 1, 2, <<Tag(1, "root")>>)) @@
    (3 :> Refers(c, 1, 3, <<Tag(2, "reply")>>)) @@ (4 :> Refers(b, 1, 4, <<Tag(3, "")>>)) @@
    (5 :> Refers(c, 16, 4, <<Tag(2, "")>>)) @@
    \* own: notes and replies
    (11 :> Says(a, 1, 1)) @@ (12 :> Refers(a, 1, 2, <<Tag(11, "root")>>)) @@
    (13 :> Says(a, 1, 2)) @@ (14 :> Refers(a, 1111, 3, <<Tag(11, "")>>)) @@ (15 :> Says(a, 1, 4)) @@
    \* chains: further down, and of another
    (16 :> Refers(a, 1, 4, <<Tag(11, "root"), Tag(12, "reply")>>)) @@ (17 :> Refers(b, 1, 4, <<Tag(12, "root")>>)) @@
    \* dm: letters in both directions and to another, a wrap
    (21 :> Names(a, 4, 1, {b})) @@ (22 :> Names(b, 4, 2, {a})) @@
    (23 :> Names(a, 4, 3, {c})) @@ (24 :> Names(c, 1059, 3, {a})) @@ (25 :> Names(b, 4, 4, {a})) @@
    \* notices: a's note, reactions to it, a reply to it, a reply further down, a follow
    (31 :> Says(a, 1, 1)) @@ (32 :> Tells(b, 7, 3, <<Tag(31, "")>>, {a})) @@
    (33 :> Tells(c, 7, 2, <<Tag(31, "")>>, {a})) @@
    (34 :> Tells(b, 1, 3, <<Tag(31, "root")>>, {a})) @@
    (35 :> Tells(c, 1, 4, <<Tag(31, "root"), Tag(34, "reply")>>, {a})) @@
    (36 :> Names(b, 3, 5, {a})) @@ (37 :> Names(a, 3, 1, {c})) @@
    \* thread: replies of the author and of others, a quote, a like, whom the viewer follows
    (41 :> Says(b, 1, 1)) @@ (42 :> Refers(c, 1, 2, <<Tag(41, "root")>>)) @@
    (43 :> Refers(b, 1, 3, <<Tag(41, "reply")>>)) @@
    (44 :> Refers(c, 1, 4, <<Tag(43, "reply")>>)) @@
    (45 :> Refers(a, 7, 4, <<Tag(42, "")>>)) @@ (46 :> Names(a, 3, 1, {c})) @@
    \* rank: a note, a like, a reply, a zap of its author, a like of the reply
    (51 :> Says(b, 1, 1)) @@ (52 :> Refers(a, 7, 2, <<Tag(51, "")>>)) @@
    (53 :> Refers(a, 1, 2, <<Tag(51, "root")>>)) @@ (54 :> Refers(b, 9735, 4, <<Tag(51, "")>>)) @@
    (55 :> Refers(c, 7, 4, <<Tag(53, "")>>)) @@
    \* lists: lists that follow each other, lists of one second
    (60 :> Names(a, 10000, 1, {c})) @@ (61 :> Names(a, 3, 1, {b})) @@ (62 :> Names(a, 3, 2, {c})) @@
    (64 :> Names(b, 3, 2, {a})) @@ (65 :> Names(b, 3, 2, {a, c})) @@ (66 :> Names(a, 3, 3, {b, c})) @@
    \* tags: likes and notes about two events
    (71 :> Says(a, 1, 1)) @@ (72 :> Says(b, 1, 1)) @@
    (73 :> Tells(c, 7, 2, <<Tag(71, ""), Tag(72, "")>>, {a, b})) @@
    (74 :> Tells(c, 1, 3, <<Tag(72, "")>>, {b})) @@ (75 :> Tells(b, 7, 3, <<Tag(71, "")>>, {a})) @@
    (76 :> Tells(c, 7, 3, <<Tag(71, "")>>, {a})) @@
    \* ranked: notes, a repost, and likes of them
    (81 :> Says(a, 1, 1)) @@ (82 :> Says(b, 1, 2)) @@ (85 :> Refers(b, 6, 3, <<Tag(81, "")>>)) @@
    (83 :> Refers(c, 7, 3, <<Tag(81, "")>>)) @@ (84 :> Refers(a, 7, 3, <<Tag(82, ""), Tag(81, "")>>)) @@
    (86 :> Refers(b, 7, 4, <<Tag(85, "")>>)) @@
    \* groups: an old follow that is said again, reactions to the same notes for a while, an older one
    (91 :> Names(c, 3, 1, {a})) @@ (92 :> Tells(b, 7, 2, <<Tag(13, "")>>, {a})) @@
    (93 :> Tells(b, 7, 3, <<Tag(12, "")>>, {a})) @@ (94 :> Tells(b, 7, 4, <<Tag(11, "")>>, {a})) @@
    (95 :> Tells(c, 7, 5, <<Tag(12, "")>>, {a})) @@ (96 :> Tells(c, 7, 6, <<Tag(11, "")>>, {a})) @@
    (97 :> Names(c, 3, 2, {a}))

MCEvents == LET t == Table IN DOMAIN t
MCAuthor == LET t == Table IN [e \in DOMAIN t |-> t[e].who]
MCKind == LET t == Table IN [e \in DOMAIN t |-> t[e].kind]
MCAt == LET t == Table IN [e \in DOMAIN t |-> t[e].at]
MCETags == LET t == Table IN [e \in DOMAIN t |-> t[e].e]
MCPTags == LET t == Table IN [e \in DOMAIN t |-> t[e].p]
MCQTags == LET t == Table IN [e \in DOMAIN t |-> t[e].q]
MCHeight == [e \in MCEvents |-> e] \* here an event refers to such with smaller numbers

MCFollowers == (a :> 2) @@ (b :> 1) @@ (c :> -1)
MCScore == (a :> 70) @@ (b :> 30) @@ (c :> 0)
MCScored == {a, b}
MCSinces == {0, 3}
MCLog1p == [n \in 0..5 |-> <<0, 7, 11, 14, 16, 18>>[n + 1]] \* tenths

-----------------------------------------------------------------------------
(* What a deployment is: its events, those that are delivered twice, those whose tags *)
(* come late, the stages that ticks may finish (none: no rollup), what is scrolled or  *)
(* looked at, by whom, with which page size, and whose feed or messages.               *)

Plain(S, kinds) == [events |-> S, again |-> {}, late |-> {}, stages |-> {}, kinds |-> kinds, during |-> 1, sinces |-> {0},
                    viewer |-> a, authors |-> {b, c}, other |-> b, limit |-> 2, requests |-> {}]

\* A request for what is liked most, by whom the gate lets through, and by whom it is.
Liked(gate, n, k) == [AnyRanking EXCEPT !.weights = [Weights EXCEPT !.likes = 1, !.author = 1], !.gate = gate,
                                        !.limit = n, !.offset = k]

MCModes == {"feed", "own", "chains", "dm", "notices", "model", "thread", "rank", "features", "lists", "tags", "ranked", "pools", "groups"}
AllStages == {"edges", "counts", "real", "stats", "features", "save"}
Deployments ==
    ("feed" :> Plain(1..5, {"feed"})) @@
    ("own" :> Plain(11..15, {"authored", "replies"})) @@
    ("chains" :> [Plain({11, 12, 14, 16, 17}, {"chains"}) EXCEPT !.stages = {"edges"}]) @@
    ("dm" :> [Plain(21..25, {"inbox", "chat"}) EXCEPT !.late = {24}]) @@
    ("notices" :> Plain(31..36, {"notices"})) @@
    ("groups" :> Plain(91..97, {"notices"})) @@
    ("model" :> [Plain(31..37, {"model"}) EXCEPT !.late = {35}, !.again = {33}]) @@
    ("thread" :> [Plain(41..46, {"thread"}) EXCEPT !.late = {44}, !.stages = {"edges", "counts"}]) @@
    ("rank" :> [Plain(51..54, {"rank"}) EXCEPT !.again = {52}, !.sinces = MCSinces, !.stages = AllStages]) @@
    ("features" :> [Plain({51, 52, 53, 55}, {"rank"}) EXCEPT !.during = 0, !.stages = AllStages,
                                               !.requests = {[Liked(1, 1, 0) EXCEPT !.weights.author = 0]}]) @@
    ("lists" :> [Plain({60, 61, 62, 64, 65, 66}, {"lists"}) EXCEPT !.stages = AllStages]) @@
    ("tags" :> [Plain(71..76, {"tags"}) EXCEPT !.again = {73, 76}, !.late = {74}]) @@
    ("ranked" :> [Plain(81..86, {"ranked"}) EXCEPT !.late = {84}, !.requests =
                    {[Liked(g, n, k) EXCEPT !.boosted = B, !.boost = 9] : g \in {-1, 1}, n \in 1..2, k \in 0..2, B \in {{}, {b}}}
                    \union {[r EXCEPT !.target.kinds = K, !.target.authors = A] :
                                 r \in {[AnyRanking EXCEPT !.limit = 2], Liked(-1, 2, 0)}, K \in {{}, {1}}, A \in {{}, {b}}}]) @@
    ("pools" :> [Plain({82, 84}, {"pools"}) EXCEPT !.requests =
                    {Liked(-1, 1, 0), [Liked(-1, 1, 0) EXCEPT !.boosted = {b}, !.boost = 9],
                     [Liked(-1, 1, 0) EXCEPT !.weights.author = 0]}])
MCDeploy == LET all == Deployments IN [m \in MCModes |-> all[m]]
=============================================================================
