------------------------------- MODULE Rollup -------------------------------
(***************************************************************************)
(* The rollup of engagement: a tick recomputes, in the order of what       *)
(* depends on what, the edges and counts of direct replies, the engagement *)
(* of actors with a score, the statistics of users, and the feature rows   *)
(* that ranked feeds are read from.  A tick looks at what is recent, and   *)
(* of that at MaxTargets.  A statement that fails ends the tick; so does a *)
(* restart.  Events keep arriving between the statements.                  *)
(*                                                                         *)
(* Sums of sats are left out, and so are contribution scores.              *)
(***************************************************************************)
EXTENDS ThreadReads

CONSTANTS
    Scored,     \* pubkeys whose score is at least MinActorScore
    MaxTargets, \* of replies, of notes and of users, that a tick looks at
    Sinces      \* what may be the beginning of a tick's window

ASSUME RollupAssumption == Scored \subseteq Users /\ MaxTargets \in Nat /\ Sinces \subseteq Nat

VARIABLES
    real,     \* note_engagement_real: the last row of a note, for those that have one
    features, \* note_rank_features: the same
    tick      \* the running tick: its stage, its window, the tags that were there when it began

derived == <<edges, counted, stats, real, features, tick>>

Idle == [stage |-> "idle", since |-> 0, snap |-> {}]

-----------------------------------------------------------------------------
(* Engagement *)

ZapsOf(n) == {e \in stored : Kind[e] = 9735 /\ copies[e] > 0 /\ FirstETag(e) = n}

\* What makes a note a target, and when it last happened.
Engaging(n, since) == {e \in Referrers(n, {1, 6, 7, 16, 1111}, "e") \union ZapsOf(n) : At[e] >= since}
LastEngaged(n, since) == CHOOSE t \in {At[e] : e \in Engaging(n, since)} :
                             \A e \in Engaging(n, since) : t >= At[e]

\* targetIDsSubquery, before its limit; they need not be stored.
Engaged(since) == {n \in UNION {Tagged(e, "e") : e \in stored} : Engaging(n, since) # {}}

\* Notes of one second come in any order, here by id.
EngagedNotes(since) ==
    LET later(m, n) == \/ LastEngaged(m, since) > LastEngaged(n, since)
                       \/ LastEngaged(m, since) = LastEngaged(n, since) /\ m > n
    IN  Elems(Page(Ordered(Engaged(since), later), 0, MaxTargets))

\* Actors of a score, and not the author of the note.
RealActors(S, n) == (AuthorsOf(S) \intersect Scored) \ {Author[n]}

\* buildEngagementRealSQL: zaps alone count the author too; of a zap the actor is who
\* signed the receipt.
Real(n) ==
    LET likers == RealActors(Referrers(n, {7}, "e"), n)
        reposters == RealActors(Referrers(n, {6, 16}, "e"), n)
        quoters == RealActors(Referrers(n, {1}, "q"), n)
        repliers == RealActors(DirectReplies(n), n)
    IN  [likes |-> Cardinality(likers), reposts |-> Cardinality(reposters),
         quotes |-> Cardinality(quoters), replies |-> Cardinality(repliers),
         zaps |-> Cardinality(AuthorsOf(ZapsOf(n)) \intersect Scored),
         actors |-> Cardinality(likers \union reposters \union quoters \union repliers
                                \union RealActors(ZapsOf(n), n))]

\* The raw counts: actors of likes and reposts, events of the others.
Raw(n) == [likes |-> Cardinality(Likes(n)),
           reposts |-> Cardinality(AuthorsOf(Referrers(n, {6, 16}, "e"))),
           quotes |-> Cardinality(Referrers(n, {1}, "q")),
           replies |-> Cardinality(CountedReplies(n)),
           zaps |-> Cardinality(ZapsOf(n))]

NoReal == [likes |-> 0, reposts |-> 0, quotes |-> 0, replies |-> 0, zaps |-> 0, actors |-> 0]
RealOf(n) == IF n \in DOMAIN real THEN real[n] ELSE NoReal

\* NoteStats: the counts, and the real ones of the last row.
NoteStats(n) == [raw |-> Raw(n), real |-> RealOf(n)]

-----------------------------------------------------------------------------
(* The stages of RunOnce *)

Begin ==
    /\ tick.stage = "idle"
    /\ \E s \in Sinces : /\ s >= tick.since
                         /\ tick' = [stage |-> "edges", since |-> s,
                                     snap |-> {e \in stored : copies[e] > 0}]
    /\ UNCHANGED <<edges, counted, stats, real, features>>

\* Mutant of StageAfter: the counts are taken for done.
StageAfterNoCounts(s) ==
    CASE s \in {"edges", "counts"} -> "real" [] s = "real" -> "stats"
      [] s = "stats" -> "features" [] s = "features" -> "save" [] s = "save" -> "idle"

\* Mutant of StageAfter: the engagement comes after the features.
StageAfterLate(s) ==
    CASE s = "edges" -> "counts" [] s = "counts" -> "stats" [] s = "stats" -> "features"
      [] s = "features" -> "real" [] s = "real" -> "save" [] s = "save" -> "idle"

StageAfter(s) ==
    CASE s = "edges" -> "counts" [] s = "counts" -> "real" [] s = "real" -> "stats"
      [] s = "stats" -> "features" [] s = "features" -> "save" [] s = "save" -> "idle"

Finishes(s) == tick.stage = s /\ tick' = [tick EXCEPT !.stage = StageAfter(s),
                                                     !.snap = IF s = "save" THEN {} ELSE @]

\* RecomputeReplyEdges is two statements.
RecomputeEdges ==
    /\ Finishes("edges")
    /\ edges' = edges \union NewEdges(tick.since, MaxTargets)
    /\ UNCHANGED <<counted, stats, real, features>>
RecomputeCounts ==
    /\ Finishes("counts")
    /\ counted' = NewCounts(tick.since, MaxTargets)
    /\ UNCHANGED <<edges, stats, real, features>>

RecomputeEngagementReal ==
    /\ Finishes("real")
    /\ real' = Put(real, EngagedNotes(tick.since) \intersect stored, Real)
    /\ UNCHANGED <<edges, counted, stats, features>>

RecomputeUserStats ==
    /\ Finishes("stats")
    /\ \E T \in TouchedBatches(tick.since, MaxTargets) : stats' = UserStats(T)
    /\ UNCHANGED <<edges, counted, real, features>>

RecomputeRankFeatures ==
    /\ Finishes("features")
    /\ features' = Put(features, EngagedNotes(tick.since) \intersect stored,
                       LAMBDA n : [raw |-> Raw(n), real |-> RealOf(n), score |-> Score[Author[n]]])
    /\ UNCHANGED <<edges, counted, stats, real>>

SaveRollupState == Finishes("save") /\ UNCHANGED <<edges, counted, stats, real, features>>

\* A statement fails, if it landed or not, or the process is restarted.
TickEnds ==
    /\ tick.stage # "idle"
    /\ tick' = [tick EXCEPT !.stage = "idle", !.snap = {}]
    /\ UNCHANGED <<edges, counted, stats, real, features>>

Stage == \/ RecomputeEdges \/ RecomputeCounts \/ RecomputeEngagementReal
         \/ RecomputeUserStats \/ RecomputeRankFeatures \/ SaveRollupState
=============================================================================
